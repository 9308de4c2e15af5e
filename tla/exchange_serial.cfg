\* One request at a time: what the handlers promise when nothing races.
SPECIFICATION Spec
CONSTANTS
  None = None
  Undefined = Undefined
  Exchange = {e1}
  TransactionId = {t1, t2}
  Challenge = {c1, c2}
  Holder = {h1, h2}
  Definition = {}
  IssuedVp = {v1}
  Url = {u1}
  Request = {r1}
  Services = {"mediated", "unmediated", "none"}
  OneTime = {TRUE, FALSE}
  Authenticated = {TRUE, FALSE}
  ExchangeDefinitions <- MCExchangeDefinitions
  Submissions <- MCSubmissions
SYMMETRY Symmetry
INVARIANTS
  TypeOK
  ChallengeBindsTransaction
  OneHolderPerTransaction
PROPERTIES
  ExchangeNotReplaced
  ReviewNeverGoesBack
  ImplementsLifecycle
