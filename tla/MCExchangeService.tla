--------------------------- MODULE MCExchangeService ---------------------------
(***************************************************************************)
(* Small instances of ExchangeService for TLC.                             *)
(***************************************************************************)
EXTENDS ExchangeRefinement, TLC

CONSTANTS
  Services,      \* the interact services clients create exchanges with
  OneTime,       \* whether they create one-time, reusable or both kinds
  Authenticated  \* whether the VP requests ask for DID authentication

(* An exchange asks for authentication or for nothing, and posts to every   *)
(* callback endpoint: what a definition varies in is what the handlers      *)
(* branch on.                                                               *)
MCQuery(authenticated) ==
  IF authenticated THEN {[type |-> "DIDAuth", definitions |-> {}]} ELSE {}

MCExchangeDefinitions ==
  {d \in ExchangeDefinition :
     /\ d.service \in Services
     /\ \E authenticated \in Authenticated : d.query = MCQuery(authenticated)
     /\ d.isOneTime \in OneTime
     /\ d.callback = Url}

(* Genuine presentations: of each holder, and where no VP request asks for  *)
(* authentication also of nobody, for each challenge.                       *)
MCSubmissions ==
  {p \in Presentation :
     /\ p.signed
     /\ p.holder = None => FALSE \in Authenticated}

Symmetry ==
  Permutations(Challenge) \cup Permutations(TransactionId)
    \cup Permutations(Holder) \cup Permutations(Request)
===============================================================================
