--------------------------- MODULE MCWorkflowService ---------------------------
(***************************************************************************)
(* Small instances of WorkflowService for TLC.                             *)
(***************************************************************************)
EXTENDS WorkflowRefinement

CONSTANTS
  s1, s2,  \* the step names
  Shapes   \* the kinds of workflows clients configure

MCStepId == {s1, s2}

MCQuery == {[type |-> "DIDAuth", definitions |-> {}]}

Step(type, nextStep) ==
  [type |-> type, query |-> IF type = "query" THEN MCQuery ELSE {},
   nextStep |-> nextStep, callback |-> Url]

(* "issue" and "present" are the resident card workflows of the end-to-end  *)
(* tests; the others are shapes a configuration is free to take.            *)
Config(shape) ==
  CASE shape = "issue" ->      \* a query, then an issuance
         [initialStep |-> s1,
          steps |-> s1 :> Step("query", s2) @@ s2 :> Step("issuance", None)]
    [] shape = "present" ->    \* one query
         [initialStep |-> s1,
          steps |-> s1 :> Step("query", None) @@ s2 :> None]
    [] shape = "offer" ->      \* an issuance, then a query
         [initialStep |-> s1,
          steps |-> s1 :> Step("issuance", s2) @@ s2 :> Step("query", None)]
    [] shape = "loop" ->       \* a query that leads back to itself
         [initialStep |-> s1,
          steps |-> s1 :> Step("query", s1) @@ s2 :> None]
    [] shape = "dangling" ->   \* a next step, and an initial one, not defined
         [initialStep |-> s2,
          steps |-> s1 :> Step("query", s2) @@ s2 :> None]

MCWorkflowConfigs == {Config(shape) : shape \in Shapes}

MCSubmissions == {p \in Presentation : p.signed /\ p.holder # None}

Symmetry ==
  Permutations(Challenge \ Elsewhere) \cup Permutations(Workflow)
    \cup Permutations(Exchange) \cup Permutations(Holder)
    \cup Permutations(Request)
===============================================================================
