\* The resident card journey, with a crash at any point.
SPECIFICATION ApiSpec
CONSTANTS
  None = None
  Undefined = Undefined
  alice = alice
  card = card
  Exchange = {e1}
  TransactionId = {t1}
  Challenge = {c1}
  Holder <- MCHolder
  Definition = {card}
  IssuedVp <- MCIssuedVp
  Url = {u1}
  Request = {r1}
  KeyRequest = {q1}
  MaxPresentations = 3
  MaxCrashes = 1
  ExchangeDefinitions <- MCExchangeDefinitions
  Submissions = {}
  Received <- MCReceived
INVARIANTS
  ApiTypeOK
  AcceptedCredentialIsGenuine
PROPERTIES
  PendingSubmissionIsReported
  SubmitterLearnsOutcome
