------------------------------ MODULE WorkflowWalk ------------------------------
(***************************************************************************)
(* What the workflows promise of an exchange, without tables, challenges,  *)
(* presentations or requests in flight: it walks its workflow step by      *)
(* step.  A query is over when it is answered, an issuance when it is      *)
(* reviewed and the holder comes back; the walk ends where the workflow    *)
(* defines no next step.  A workflow that exists does not change.          *)
(***************************************************************************)
EXTENDS Sequences

CONSTANTS
  Workflow,
  Exchange,
  None,
  Config     \* what a workflow can be: an initial step, and what it defines
             \* for each step: nothing, or its type and the next step

VARIABLES
  workflows,  \* the workflow of each id
  walks       \* the walk of each exchange: its workflow, the steps it came
              \* by, whether the last of them is complete and the walk over

walking == <<workflows, walks>>

Walk(workflowId, trail, isComplete, isOver) ==
  [workflowId |-> workflowId, trail |-> trail, isComplete |-> isComplete,
   isOver |-> isOver]

NotBegun == Walk(None, <<>>, FALSE, FALSE)

Init ==
  /\ workflows = [w \in Workflow |-> None]
  /\ walks = [e \in Exchange |-> NotBegun]

Define(w) ==
  /\ workflows[w] = None
  /\ workflows'[w] \in Config
  /\ workflows' = [workflows EXCEPT ![w] = workflows'[w]]
  /\ UNCHANGED walks

(* A workflow whose initial step is not defined leads nowhere.              *)
Begin(e, w) ==
  LET config == workflows[w]
  IN /\ walks[e] = NotBegun
     /\ config # None
     /\ walks' = [walks EXCEPT ![e] =
                    Walk(w, IF config.steps[config.initialStep] = None
                            THEN <<>> ELSE <<config.initialStep>>, FALSE, FALSE)]
     /\ UNCHANGED workflows

Current(walk) == walk.trail[Len(walk.trail)]

(* The walk is at a step the workflow defines to be of that type.           *)
IsAt(config, walk, type) ==
  /\ walk.trail # <<>>
  /\ config.steps[Current(walk)] # None
  /\ config.steps[Current(walk)].type = type

NextDefined(config, walk) ==
  {stepId \in {config.steps[Current(walk)].nextStep} \ {None} :
     config.steps[stepId] # None}

Forward(config, walk, next) ==
  \/ /\ NextDefined(config, walk) = {}
     /\ next = Walk(walk.workflowId, walk.trail, TRUE, TRUE)
  \/ \E stepId \in NextDefined(config, walk) :
       next = Walk(walk.workflowId, Append(walk.trail, stepId), FALSE, FALSE)

AnsweredQuery(config, walk, next) ==
  /\ IsAt(config, walk, "query")
  /\ ~walk.isComplete
  /\ Forward(config, walk, next)

ReviewedIssuance(config, walk, next) ==
  /\ IsAt(config, walk, "issuance")
  /\ ~walk.isComplete
  /\ next = Walk(walk.workflowId, walk.trail, TRUE, walk.isOver)

(* The holder comes back after the review.                                  *)
TakenIssuance(config, walk, next) ==
  /\ IsAt(config, walk, "issuance")
  /\ walk.isComplete
  /\ ~walk.isOver
  /\ Forward(config, walk, next)

WalkStep(config, walk, next) ==
  \/ AnsweredQuery(config, walk, next)
  \/ ReviewedIssuance(config, walk, next)
  \/ TakenIssuance(config, walk, next)

GoOn(e) ==
  /\ walks[e] # NotBegun
  /\ WalkStep(workflows[walks[e].workflowId], walks[e], walks'[e])
  /\ walks' = [walks EXCEPT ![e] = walks'[e]]
  /\ UNCHANGED workflows

Next ==
  \/ \E w \in Workflow : Define(w)
  \/ \E e \in Exchange : GoOn(e) \/ \E w \in Workflow : Begin(e, w)

Spec == Init /\ [][Next]_walking
===============================================================================
