\* Two requests in flight: what survives every interleaving.
SPECIFICATION Spec
CONSTANTS
  None = None
  s1 = s1
  s2 = s2
  Workflow = {w1}
  StepId <- MCStepId
  Exchange = {e1}
  Challenge = {c0, c1, c2}
  Elsewhere = {c0}
  Holder = {h1}
  Definition = {}
  IssuedVp = {v1}
  Url = {}
  Request = {r1, r2}
  MaxSteps = 2
  Shapes = {"issue", "offer"}
  WorkflowConfigs <- MCWorkflowConfigs
  Submissions <- MCSubmissions
SYMMETRY Symmetry
INVARIANTS
  OnlyCurrentStepIncomplete
  CompleteQueryWasAnswered
  DeliveredVpWasReviewed
