\* Clients race the seeder, the process stops and starts again.
SPECIFICATION FairSpec
CONSTANTS
  f1 = f1
  f2 = f2
  k1 = k1
  k2 = k2
  KeyId <- MCKeyId
  Fixtures <- MCFixtures
  Pairs <- MCPairs
  Request = {r1, r2}
  MaxCrashes = 1
INVARIANTS
  TypeOK
  AcknowledgedKeyIsStored
  RegisteredDidHasKey
  PassedFixturesAreSeeded
PROPERTIES
  SeedCompletes
