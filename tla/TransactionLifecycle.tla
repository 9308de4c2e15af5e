-------------------------- MODULE TransactionLifecycle --------------------------
(***************************************************************************)
(* What the v1 exchanges promise of a transaction, without tables, entity  *)
(* objects, challenges or requests in flight: it waits for a submission,   *)
(* then for a decision, and tells the outcome to the one party who         *)
(* submitted.  A one-time exchange that is started again begins the        *)
(* transaction anew, for the same party.                                   *)
(***************************************************************************)
CONSTANTS
  TransactionId,
  Party,      \* who can submit; Nobody submits without a name
  Nobody,
  IssuedVp,   \* presentations a reviewer can offer
  NoVp

VARIABLES
  stage,    \* how far each transaction has come
  parties,  \* who submitted to it: nobody yet, or one party
  offer,    \* the presentation waiting for that party, if any
  told      \* the outcomes told so far

lifecycle == <<stage, parties, offer, told>>

Stage == {"absent", "waiting", "submitted", "approved", "rejected"}

Init ==
  /\ stage = [id \in TransactionId |-> "absent"]
  /\ parties = [id \in TransactionId |-> {}]
  /\ offer = [id \in TransactionId |-> NoVp]
  /\ told = {}

Begin(id) ==
  /\ stage' = [stage EXCEPT ![id] = "waiting"]
  /\ offer' = [offer EXCEPT ![id] = NoVp]
  /\ UNCHANGED <<parties, told>>

Submit(id, party) ==
  /\ stage[id] = "waiting"
  /\ parties[id] = {} \/ (parties[id] = {party} /\ party # Nobody)
  /\ stage' = [stage EXCEPT ![id] = "submitted"]
  /\ parties' = [parties EXCEPT ![id] = {party}]
  /\ UNCHANGED <<offer, told>>

(* A reviewer may decide at any time, also before there is a submission,    *)
(* and again.  An approval can make an offer, leave the one there is or     *)
(* withdraw it; nothing else touches an offer until the transaction begins  *)
(* anew.                                                                    *)
Approve(id, vp) ==
  /\ stage[id] # "absent"
  /\ stage' = [stage EXCEPT ![id] = "approved"]
  /\ offer' = [offer EXCEPT ![id] = vp]
  /\ UNCHANGED <<parties, told>>

Reject(id) ==
  /\ stage[id] # "absent"
  /\ stage' = [stage EXCEPT ![id] = "rejected"]
  /\ UNCHANGED <<parties, offer, told>>

Tell(id, party) ==
  /\ stage[id] \in {"approved", "rejected"}
  /\ parties[id] = {party}
  /\ party # Nobody
  /\ told' = told \cup {[transactionId |-> id, holder |-> party, VP |-> offer[id]]}
  /\ UNCHANGED <<stage, parties, offer>>

Next ==
  \E id \in TransactionId :
    \/ Begin(id)
    \/ \E party \in Party : Submit(id, party) \/ Tell(id, party)
    \/ \E vp \in IssuedVp \cup {NoVp, offer[id]} : Approve(id, vp)
    \/ Reject(id)

Spec == Init /\ [][Next]_lifecycle
===============================================================================
