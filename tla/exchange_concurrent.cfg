\* Two requests in flight on a one-time exchange: what survives every
\* interleaving of loads and saves, restarts of the exchange included.
SPECIFICATION Spec
CONSTANTS
  None = None
  Undefined = Undefined
  Exchange = {e1}
  TransactionId = {t1}
  Challenge = {c1, c2}
  Holder = {h1}
  Definition = {}
  IssuedVp = {v1}
  Url = {}
  Request = {r1, r2}
  Services = {"mediated"}
  OneTime = {TRUE}
  Authenticated = {TRUE}
  ExchangeDefinitions <- MCExchangeDefinitions
  Submissions <- MCSubmissions
SYMMETRY Symmetry
INVARIANTS
  PendingReviewHasSubmission
  AnswerWasReviewed
