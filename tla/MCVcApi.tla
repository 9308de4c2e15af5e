-------------------------------- MODULE MCVcApi --------------------------------
(***************************************************************************)
(* A small instance of VcApi for TLC, after the end-to-end tests: one DID, *)
(* which holds and issues, a reviewed and an unreviewed kind of exchange.  *)
(***************************************************************************)
EXTENDS VcApi

CONSTANTS alice, card

(* The query asks for authentication and for a card.                        *)
DefinitionFor(service) ==
  [service |-> service, isOneTime |-> FALSE, callback |-> Url,
   query |-> {[type |-> "DIDAuth", definitions |-> {}],
              [type |-> "PresentationDefinition", definitions |-> {card}]}]

MCExchangeDefinitions ==
  {DefinitionFor(service) : service \in {"mediated", "unmediated"}}

MCHolder == {alice}

(* Somebody brings a card whose proof does not verify.                      *)
MCReceived == {[definition |-> card, genuine |-> FALSE]}

(* Reviewers offer presentations that hold a card and name no holder.       *)
MCIssuedVp == {vp \in Presentation : vp.holder = None /\ vp.satisfies = {card}}
===============================================================================
