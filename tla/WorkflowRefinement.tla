--------------------------- MODULE WorkflowRefinement ---------------------------
(***************************************************************************)
(* The workflows implement WorkflowWalk as long as requests do not race.   *)
(* The mapping reads the walk off the steps an exchange keeps.             *)
(***************************************************************************)
EXTENDS WorkflowService

Trail(steps) == [i \in 1..Len(steps) |-> steps[i].stepId]

NoWalk ==
  [workflowId |-> None, trail |-> <<>>, isComplete |-> FALSE, isOver |-> FALSE]

WalkOf(exchange) ==
  [workflowId |-> exchange.workflowId,
   trail      |-> Trail(exchange.steps),
   isComplete |-> exchange.steps # <<>> /\ Last(exchange.steps).isComplete,
   isOver     |-> exchange.state = "completed"]

Walks ==
  [e \in Exchange |->
     IF exchanges[e] = None THEN NoWalk ELSE WalkOf(exchanges[e])]

Walk ==
  INSTANCE WorkflowWalk WITH
    Config <- WorkflowConfig,
    walks  <- Walks

(* Every run of the workflows in which requests do not race is a run of the *)
(* walk: each save is one legal step of it, and nothing else moves it.  No  *)
(* step is skipped, an issuance is passed only after a review, and a        *)
(* completed exchange stands still whatever else is sent to it.             *)
ImplementsWalk == Walk!Spec
===============================================================================
