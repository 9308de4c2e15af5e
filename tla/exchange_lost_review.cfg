\* A review and a submission of one transaction race.
SPECIFICATION Spec
CONSTANTS
  None = None
  Undefined = Undefined
  Exchange = {e1}
  TransactionId = {t1}
  Challenge = {c1}
  Holder = {h1}
  Definition = {}
  IssuedVp = {v1}
  Url = {u1}
  Request = {r1, r2}
  Services = {"mediated", "unmediated"}
  OneTime = {FALSE}
  Authenticated = {TRUE}
  ExchangeDefinitions <- MCExchangeDefinitions
  Submissions <- MCSubmissions
SYMMETRY Symmetry
PROPERTY
  ReviewNeverGoesBack
