\* One request at a time, on every shape of workflow.
SPECIFICATION FairSpec
CONSTANTS
  None = None
  s1 = s1
  s2 = s2
  Workflow = {w1}
  StepId <- MCStepId
  Exchange = {e1}
  Challenge = {c0, c1, c2, c3}
  Elsewhere = {c0}
  Holder = {h1}
  Definition = {}
  IssuedVp = {v1}
  Url = {u1}
  Request = {r1}
  MaxSteps = 3
  Shapes = {"issue", "present", "offer", "loop", "dangling"}
  WorkflowConfigs <- MCWorkflowConfigs
  Submissions <- MCSubmissions
INVARIANTS
  TypeOK
  StepsFollowWorkflow
  CallbackReportsSavedSubmission
PROPERTIES
  ExchangeNeverRollsBack
  ImplementsWalk
  WalkCompletes
