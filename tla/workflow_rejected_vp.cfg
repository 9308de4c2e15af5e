\* A reviewer rejects, and attaches a presentation all the same.
SPECIFICATION Spec
CONSTANTS
  None = None
  s1 = s1
  s2 = s2
  Workflow = {w1}
  StepId <- MCStepId
  Exchange = {e1}
  Challenge = {c0, c1}
  Elsewhere = {c0}
  Holder = {h1}
  Definition = {}
  IssuedVp = {v1}
  Url = {}
  Request = {r1}
  MaxSteps = 2
  Shapes = {"issue"}
  WorkflowConfigs <- MCWorkflowConfigs
  Submissions <- MCSubmissions
SYMMETRY Symmetry
INVARIANT
  DeliveredVpWasApproved
