\* Two holders race for one transaction: what callbacks and answers still say.
SPECIFICATION Spec
CONSTANTS
  None = None
  Undefined = Undefined
  Exchange = {e1}
  TransactionId = {t1}
  Challenge = {c1}
  Holder = {h1, h2}
  Definition = {}
  IssuedVp = {v1}
  Url = {u1}
  Request = {r1, r2}
  Services = {"mediated", "unmediated"}
  OneTime = {FALSE}
  Authenticated = {TRUE}
  ExchangeDefinitions <- MCExchangeDefinitions
  Submissions <- MCSubmissions
SYMMETRY Symmetry
INVARIANTS
  CallbackReportsSavedSubmission
  AnsweredHolderSubmitted
