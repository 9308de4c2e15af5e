------------------------------ MODULE KeyService -------------------------------
(***************************************************************************)
(* Keys and DIDs: KeyService, the did:key half of DIDService, the          *)
(* SeederService and the order bootstrap() starts them in.                 *)
(*                                                                         *)
(* Keys live in the Askar wallet under their public key, which is also the *)
(* keyId.  An import first looks for the public key and then, in a second  *)
(* wallet session, stores the private key: two imports of one key can both *)
(* find it absent, and the wallet refuses the second insert.  A client     *)
(* sees a 500; the seeder, which runs after the server began to listen,    *)
(* rejects the promise of bootstrap() and takes the process down.          *)
(***************************************************************************)
EXTENDS Integers, Sequences

CONSTANTS
  KeyId,     \* public keys; a private key is named by the public key it derives
  Fixtures,  \* the keys of keyPairFixture, in order
  Pairs,     \* the key pairs clients import
  Request,   \* slots for requests in flight: bounds the concurrency
  MaxCrashes \* bounds the crashes nobody's request is the reason for

KeyPair == [privateKey : KeyId, publicKey : KeyId]

ASSUME ConstantsAssumption ==
  /\ Fixtures \in Seq(KeyId)
  /\ Pairs \subseteq KeyPair
  /\ MaxCrashes \in Nat

VARIABLES
  wallet,       \* keys in the Askar wallet
  dids,         \* keys a did:key was created for
  requests,     \* what each request in flight holds
  seeder,       \* where bootstrap() is in seed()
  crashes,      \* crashes so far
  acknowledged  \* history: the key descriptions answered to imports

vars == <<wallet, dids, requests, seeder, crashes, acknowledged>>

-------------------------------------------------------------------------------
Idle == [op |-> "idle"]

RequestState ==
  {Idle} \cup [op : {"save"}, pair : Pairs] \cup [op : {"register"}, keyId : KeyId]

SeederState ==
  [next : 1..(Len(Fixtures) + 1), phase : {"import", "save", "register", "done"}]

(* seed() ends when the fixtures do. *)
TypeOK ==
  /\ wallet \subseteq KeyId
  /\ dids \subseteq KeyId
  /\ requests \in [Request -> RequestState]
  /\ seeder \in SeederState
  /\ (seeder.phase = "done") <=> (seeder.next = Len(Fixtures) + 1)
  /\ crashes \in 0..MaxCrashes
  /\ acknowledged \subseteq [publicKey : KeyId, keyId : KeyId]

(* The seeder in front of the i-th fixture; past the last one it is done. *)
SeederAtSkippingLast(i) ==
  [next |-> i, phase |-> IF i < Len(Fixtures) THEN "import" ELSE "done"]

SeederAt(i) ==
  [next |-> i, phase |-> IF i <= Len(Fixtures) THEN "import" ELSE "done"]

Init ==
  /\ wallet = {}
  /\ dids = {}
  /\ requests = [r \in Request |-> Idle]
  /\ seeder = SeederAt(1)
  /\ crashes = 0
  /\ acknowledged = {}

-------------------------------------------------------------------------------
(* importKey looks whether the wallet has the public key. *)
NeverFound(keyId) == FALSE
KeyExists(keyId) == keyId \in wallet

(* saveNewKey stores the private key when it derives the public key given   *)
(* with it; the wallet refuses a name it already has.                       *)
AnyPairIsSaved(pair) == pair.privateKey \notin wallet
IsSaved(pair) ==
  /\ pair.privateKey = pair.publicKey
  /\ pair.privateKey \notin wallet

(* registerKeyDID finds the key in the wallet. *)
AnyKeyIsKnown(keyId) == TRUE
IsKnown(keyId) == keyId \in wallet

Answer(pair, keyId) ==
  acknowledged' = acknowledged \cup {[publicKey |-> pair.publicKey, keyId |-> keyId]}

Goto(r, state) == requests' = [requests EXCEPT ![r] = state]

-------------------------------------------------------------------------------
(* POST /key for a key the wallet has: the pair's private key is not read. *)
ImportExistingKey(r, pair) ==
  /\ requests[r] = Idle
  /\ KeyExists(pair.publicKey)
  /\ Answer(pair, pair.publicKey)
  /\ UNCHANGED <<wallet, dids, requests, seeder, crashes>>

(* POST /key otherwise: the request goes on to saveNewKey. *)
ImportNewKey(r, pair) ==
  /\ requests[r] = Idle
  /\ ~KeyExists(pair.publicKey)
  /\ Goto(r, [op |-> "save", pair |-> pair])
  /\ UNCHANGED <<wallet, dids, seeder, crashes, acknowledged>>

SaveNewKey(r) ==
  /\ requests[r].op = "save"
  /\ LET pair == requests[r].pair IN
       /\ IsSaved(pair)
       /\ wallet' = wallet \cup {pair.privateKey}
       /\ Answer(pair, pair.privateKey)
  /\ Goto(r, Idle)
  /\ UNCHANGED <<dids, seeder, crashes>>

(* GET /key/:keyId answers the pair of a key in the wallet, whoever stored  *)
(* it, and a client imports what it was answered.                           *)
ExportKey(keyId) == [privateKey |-> keyId, publicKey |-> keyId]

ImportExportedKey(r, keyId) ==
  /\ IsKnown(keyId)
  /\ ImportExistingKey(r, ExportKey(keyId))

(* A mismatched pair, or a key another import stored meanwhile: 500. *)
SaveNewKeyFailure(r) ==
  /\ requests[r].op = "save"
  /\ ~IsSaved(requests[r].pair)
  /\ Goto(r, Idle)
  /\ UNCHANGED <<wallet, dids, seeder, crashes, acknowledged>>

(* POST /did {method: key}: generateKeyDID draws a key nobody has seen, so  *)
(* its save cannot fail, and registers it afterwards.                       *)
GenerateKey(r, keyId) ==
  /\ requests[r] = Idle
  /\ keyId \notin wallet
  /\ \A i \in DOMAIN Fixtures : keyId # Fixtures[i]
  /\ \A pair \in Pairs : keyId # pair.privateKey /\ keyId # pair.publicKey
  /\ wallet' = wallet \cup {keyId}
  /\ Goto(r, [op |-> "register", keyId |-> keyId])
  /\ UNCHANGED <<dids, seeder, crashes, acknowledged>>

RegisterGeneratedKey(r) ==
  /\ requests[r].op = "register"
  /\ IsKnown(requests[r].keyId)
  /\ dids' = dids \cup {requests[r].keyId}
  /\ Goto(r, Idle)
  /\ UNCHANGED <<wallet, seeder, crashes, acknowledged>>

(* POST /did {method: key, keyId}; a key the server does not know is a 400. *)
RegisterKeyDID(r, keyId) ==
  /\ requests[r] = Idle
  /\ IsKnown(keyId)
  /\ dids' = dids \cup {keyId}
  /\ UNCHANGED <<wallet, requests, seeder, crashes, acknowledged>>

-------------------------------------------------------------------------------
(* seed(): each fixture is imported, then its DID registered. *)
Fixture == Fixtures[seeder.next]
FixturePair == [privateKey |-> Fixture, publicKey |-> Fixture]

AfterImportUnregistered(i) == SeederAt(i + 1)
AfterImport(i) == [next |-> i, phase |-> "register"]

SeedImport ==
  /\ seeder.phase = "import"
  /\ seeder' = IF KeyExists(Fixture) THEN AfterImport(seeder.next)
               ELSE [seeder EXCEPT !.phase = "save"]
  /\ UNCHANGED <<wallet, dids, requests, crashes, acknowledged>>

SeedSave ==
  /\ seeder.phase = "save"
  /\ IsSaved(FixturePair)
  /\ wallet' = wallet \cup {Fixture}
  /\ seeder' = AfterImport(seeder.next)
  /\ UNCHANGED <<dids, requests, crashes, acknowledged>>

SeedRegister ==
  /\ seeder.phase = "register"
  /\ IsKnown(Fixture)
  /\ dids' = dids \cup {Fixture}
  /\ seeder' = SeederAt(seeder.next + 1)
  /\ UNCHANGED <<wallet, requests, crashes, acknowledged>>

(* A stop of the process forgets the requests in flight and a new process   *)
(* seeds from the first fixture; the wallet is on disk.                     *)
Restart ==
  /\ requests' = [r \in Request |-> Idle]
  /\ seeder' = SeederAt(1)
  /\ UNCHANGED <<wallet, dids, acknowledged>>

(* A client stored the fixture after the seeder looked for it: the insert   *)
(* fails, nothing catches the rejection, and Node.js stops the process.     *)
SeedFailure ==
  /\ seeder.phase = "save"
  /\ ~IsSaved(FixturePair)
  /\ Restart
  /\ UNCHANGED crashes

Crash ==
  /\ crashes < MaxCrashes
  /\ crashes' = crashes + 1
  /\ Restart

-------------------------------------------------------------------------------
SeedStep == SeedImport \/ SeedSave \/ SeedRegister \/ SeedFailure

Next ==
  \/ \E r \in Request, pair \in Pairs :
       ImportExistingKey(r, pair) \/ ImportNewKey(r, pair)
  \/ \E r \in Request :
       SaveNewKey(r) \/ SaveNewKeyFailure(r) \/ RegisterGeneratedKey(r)
  \/ \E r \in Request, keyId \in KeyId :
       \/ GenerateKey(r, keyId)
       \/ RegisterKeyDID(r, keyId)
       \/ ImportExportedKey(r, keyId)
  \/ SeedStep
  \/ Crash

Spec == Init /\ [][Next]_vars

(* The event loop runs the seeder's next step, and a stopped server is      *)
(* started again.                                                           *)
FairSpec == Spec /\ WF_vars(SeedStep)

-------------------------------------------------------------------------------
(* A keyId answered to an import is the public key the client gave, and the *)
(* wallet holds that key: the client can go on to create a DID and sign     *)
(* with it, whoever else imports, registers or crashes meanwhile.           *)
AcknowledgedKeyIsStored ==
  \A a \in acknowledged : a.keyId = a.publicKey /\ a.keyId \in wallet

(* Nobody is given a DID the server cannot sign for: each did:key was made  *)
(* from a key in the wallet.                                                *)
RegisteredDidHasKey == dids \subseteq wallet

(* Fixtures the seeder has passed have their key and their DID, also when a *)
(* client or an earlier process had imported the key.                       *)
PassedFixturesAreSeeded ==
  \A i \in 1..(seeder.next - 1) : Fixtures[i] \in dids

(* However often clients beat the seeder to a fixture and take the process  *)
(* down, the test suite's fixtures end up registered, for good.             *)
SeedCompletes == <>[](\A i \in DOMAIN Fixtures : Fixtures[i] \in dids)
===============================================================================
