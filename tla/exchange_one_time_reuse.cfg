\* A one-time exchange is started a second time.
SPECIFICATION Spec
CONSTANTS
  None = None
  Undefined = Undefined
  Exchange = {e1}
  TransactionId = {t1, t2}
  Challenge = {c1, c2}
  Holder = {h1, h2}
  Definition = {}
  IssuedVp = {v1}
  Url = {u1}
  Request = {r1}
  Services = {"mediated", "unmediated", "none"}
  OneTime = {TRUE, FALSE}
  Authenticated = {TRUE, FALSE}
  ExchangeDefinitions <- MCExchangeDefinitions
  Submissions <- MCSubmissions
SYMMETRY Symmetry
PROPERTY
  OneTimeExchangeStartsOnce
