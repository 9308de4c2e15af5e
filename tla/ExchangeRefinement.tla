--------------------------- MODULE ExchangeRefinement ---------------------------
(***************************************************************************)
(* The v1 exchanges implement TransactionLifecycle as long as requests do  *)
(* not overlap.  The mapping reads a transaction's stage off its rows.     *)
(***************************************************************************)
EXTENDS ExchangeService

ReviewOf(row) == reviews[row.vpRequest.challenge]

(* A submission for an earlier challenge is left over from an earlier start *)
(* of a one-time exchange.                                                  *)
HasCurrentSubmission(row) ==
  /\ row.presentationSubmission # None
  /\ row.presentationSubmission.challenge = row.vpRequest.challenge

ReviewStage(reviewStatus) ==
  CASE reviewStatus = "pending_submission" -> "waiting"
    [] reviewStatus = "pending_review"     -> "submitted"
    [] OTHER                               -> reviewStatus

RowStage(row) ==
  CASE row = None                             -> "absent"
    [] row # None /\ ReviewOf(row) # None     -> ReviewStage(ReviewOf(row).reviewStatus)
    [] row # None /\ ReviewOf(row) = None     ->
         IF HasCurrentSubmission(row) THEN "submitted" ELSE "waiting"

RowParties(row) ==
  IF row = None THEN {}
  ELSE {s.vpHolder : s \in {row.presentationSubmission} \ {None}}

RowOffer(row) ==
  IF row = None THEN None
  ELSE IF ReviewOf(row) = None THEN None ELSE ReviewOf(row).VP

Lifecycle ==
  INSTANCE TransactionLifecycle WITH
    Party   <- Holder \cup {None},
    Nobody  <- None,
    NoVp    <- None,
    stage   <- [id \in TransactionId |-> RowStage(transactions[id])],
    parties <- [id \in TransactionId |-> RowParties(transactions[id])],
    offer   <- [id \in TransactionId |-> RowOffer(transactions[id])],
    told    <- answered

(* Every run of the v1 exchanges with one request at a time is a run of the *)
(* transaction life cycle: loads, saves, crashes and refused calls change   *)
(* nothing a party could notice, and each save is one legal step.           *)
ImplementsLifecycle == Lifecycle!Spec
===============================================================================
