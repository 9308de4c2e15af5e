--------------------------- MODULE KeyServiceProofs ----------------------------
(***************************************************************************)
(* The safety invariants of KeyService, for every set of keys, any number  *)
(* of fixtures, requests and crashes.                                      *)
(***************************************************************************)
EXTENDS KeyService, TLAPS

USE DEF Idle

(* The four invariants hold together: the fixtures passed need the type of  *)
(* the seeder, the others are inductive as they stand.                      *)
IInv ==
  /\ TypeOK
  /\ AcknowledgedKeyIsStored
  /\ RegisteredDidHasKey
  /\ PassedFixturesAreSeeded

(* Where the seeder can be put: in front of a fixture or behind the last.   *)
LEMMA SeederAtType ==
  ASSUME NEW i \in 1..(Len(Fixtures) + 1)
  PROVE  /\ SeederAt(i) \in SeederState
         /\ SeederAt(i).next = i
         /\ (SeederAt(i).phase = "done") <=> (i = Len(Fixtures) + 1)
BY ConstantsAssumption DEF SeederAt, SeederState

(* A seeder that is not done stands in front of a fixture.                  *)
LEMMA FixtureType ==
  ASSUME TypeOK, seeder.phase # "done"
  PROVE  /\ seeder.next \in 1..Len(Fixtures)
         /\ seeder.next + 1 \in 1..(Len(Fixtures) + 1)
         /\ Fixture \in KeyId
BY ConstantsAssumption DEF TypeOK, SeederState, Fixture

(* The process starts with an empty wallet, in front of the first fixture.  *)
LEMMA InitIInv == Init => IInv
<1> SUFFICES ASSUME Init PROVE IInv
  OBVIOUS
<1>1. 1 \in 1..(Len(Fixtures) + 1)
  BY ConstantsAssumption
<1>2. TypeOK
  BY <1>1, SeederAtType, ConstantsAssumption DEF Init, TypeOK, RequestState
<1>3. PassedFixturesAreSeeded
  BY <1>1, SeederAtType DEF Init, PassedFixturesAreSeeded
<1> QED
  BY <1>2, <1>3 DEF Init, IInv, AcknowledgedKeyIsStored, RegisteredDidHasKey

(* Whatever stopped the process, a new one finds the invariants true.       *)
LEMMA RestartPreserves ==
  ASSUME IInv, Restart, crashes' \in 0..MaxCrashes
  PROVE  IInv'
<1> USE DEF IInv, Restart
<1>1. 1 \in 1..(Len(Fixtures) + 1)
  BY ConstantsAssumption
<1>2. TypeOK'
  BY <1>1, SeederAtType DEF TypeOK, RequestState
<1>3. PassedFixturesAreSeeded'
  BY <1>1, SeederAtType DEF PassedFixturesAreSeeded
<1> QED
  BY <1>2, <1>3 DEF AcknowledgedKeyIsStored, RegisteredDidHasKey

(* Each step of a client or of the seeder preserves the invariants.         *)
LEMMA NextIInv == IInv /\ [Next]_vars => IInv'
<1> SUFFICES ASSUME IInv, [Next]_vars PROVE IInv'
  OBVIOUS
<1> USE DEF IInv
<1>1. ASSUME NEW r \in Request, NEW pair \in Pairs, ImportExistingKey(r, pair)
      PROVE  IInv'
  BY <1>1, ConstantsAssumption
  DEF ImportExistingKey, Answer, KeyExists, TypeOK, KeyPair,
      AcknowledgedKeyIsStored, RegisteredDidHasKey, PassedFixturesAreSeeded
<1>2. ASSUME NEW r \in Request, NEW pair \in Pairs, ImportNewKey(r, pair)
      PROVE  IInv'
  BY <1>2
  DEF ImportNewKey, Goto, TypeOK, RequestState,
      AcknowledgedKeyIsStored, RegisteredDidHasKey, PassedFixturesAreSeeded
<1>3. ASSUME NEW r \in Request, SaveNewKey(r)
      PROVE  IInv'
  <2>1. PICK pair \in Pairs : requests[r].pair = pair
    BY <1>3 DEF SaveNewKey, TypeOK, RequestState
  <2>2. pair \in KeyPair
    BY ConstantsAssumption
  <2> QED
    BY <1>3, <2>1, <2>2
    DEF SaveNewKey, IsSaved, Answer, Goto, TypeOK, RequestState, KeyPair,
        AcknowledgedKeyIsStored, RegisteredDidHasKey, PassedFixturesAreSeeded
<1>4. ASSUME NEW r \in Request, SaveNewKeyFailure(r)
      PROVE  IInv'
  BY <1>4
  DEF SaveNewKeyFailure, Goto, TypeOK, RequestState,
      AcknowledgedKeyIsStored, RegisteredDidHasKey, PassedFixturesAreSeeded
<1>5. ASSUME NEW r \in Request, NEW keyId \in KeyId, GenerateKey(r, keyId)
      PROVE  IInv'
  BY <1>5
  DEF GenerateKey, Goto, TypeOK, RequestState,
      AcknowledgedKeyIsStored, RegisteredDidHasKey, PassedFixturesAreSeeded
<1>6. ASSUME NEW r \in Request, RegisterGeneratedKey(r)
      PROVE  IInv'
  BY <1>6
  DEF RegisterGeneratedKey, IsKnown, Goto, TypeOK, RequestState,
      AcknowledgedKeyIsStored, RegisteredDidHasKey, PassedFixturesAreSeeded
<1>7. ASSUME NEW r \in Request, NEW keyId \in KeyId, RegisterKeyDID(r, keyId)
      PROVE  IInv'
  BY <1>7
  DEF RegisterKeyDID, IsKnown, TypeOK,
      AcknowledgedKeyIsStored, RegisteredDidHasKey, PassedFixturesAreSeeded
<1>8. CASE SeedImport
  <2>1. seeder.next \in 1..Len(Fixtures)
    BY <1>8, FixtureType DEF SeedImport
  <2>2. /\ seeder' \in SeederState
        /\ seeder'.next = seeder.next
        /\ seeder'.phase # "done"
    BY <1>8, <2>1, ConstantsAssumption
    DEF SeedImport, AfterImport, TypeOK, SeederState
  <2> QED
    BY <1>8, <2>1, <2>2, ConstantsAssumption
    DEF SeedImport, TypeOK,
        AcknowledgedKeyIsStored, RegisteredDidHasKey, PassedFixturesAreSeeded
<1>9. CASE SeedSave
  <2>1. seeder.next \in 1..Len(Fixtures) /\ Fixture \in KeyId
    BY <1>9, FixtureType DEF SeedSave
  <2>2. /\ seeder' \in SeederState
        /\ seeder'.next = seeder.next
        /\ seeder'.phase # "done"
    BY <1>9, <2>1, ConstantsAssumption
    DEF SeedSave, AfterImport, TypeOK, SeederState
  <2> QED
    BY <1>9, <2>1, <2>2, ConstantsAssumption
    DEF SeedSave, TypeOK,
        AcknowledgedKeyIsStored, RegisteredDidHasKey, PassedFixturesAreSeeded
<1>10. CASE SeedRegister
  <2>1. /\ seeder.next \in 1..Len(Fixtures)
        /\ seeder.next + 1 \in 1..(Len(Fixtures) + 1)
        /\ Fixture \in KeyId
    BY <1>10, FixtureType DEF SeedRegister
  <2>2. /\ seeder' \in SeederState
        /\ seeder'.next = seeder.next + 1
        /\ (seeder'.phase = "done") <=> (seeder'.next = Len(Fixtures) + 1)
    BY <1>10, <2>1, SeederAtType DEF SeedRegister
  <2>3. PassedFixturesAreSeeded'
    BY <1>10, <2>1, <2>2
    DEF SeedRegister, Fixture, PassedFixturesAreSeeded
  <2> QED
    BY <1>10, <2>1, <2>2, <2>3
    DEF SeedRegister, IsKnown, TypeOK,
        AcknowledgedKeyIsStored, RegisteredDidHasKey
<1>11. CASE SeedFailure
  BY <1>11, RestartPreserves DEF SeedFailure, TypeOK
<1>12. CASE Crash
  BY <1>12, RestartPreserves, ConstantsAssumption DEF Crash, TypeOK
<1>13. CASE UNCHANGED vars
  BY <1>13
  DEF vars, TypeOK,
      AcknowledgedKeyIsStored, RegisteredDidHasKey, PassedFixturesAreSeeded
<1>14. ASSUME NEW r \in Request, NEW keyId \in KeyId, ImportExportedKey(r, keyId)
       PROVE  IInv'
  BY <1>14
  DEF ImportExportedKey, ExportKey, ImportExistingKey, Answer, IsKnown, TypeOK,
      AcknowledgedKeyIsStored, RegisteredDidHasKey, PassedFixturesAreSeeded
<1> QED
  BY <1>1, <1>2, <1>3, <1>4, <1>5, <1>6, <1>7, <1>8, <1>9, <1>10, <1>11, <1>12,
     <1>13, <1>14 DEF Next, SeedStep

THEOREM Invariance == Spec => []IInv
BY InitIInv, NextIInv, PTL DEF Spec

(* The values keep their types, and the seeder is done exactly when it has  *)
(* passed the last fixture.                                                 *)
THEOREM TypeCorrect == Spec => []TypeOK
BY Invariance, PTL DEF IInv

(* A keyId answered to an import names a key the wallet holds, the client's *)
(* own, for every interleaving of imports, the seeder and crashes.          *)
THEOREM AcknowledgedKeysAreStored == Spec => []AcknowledgedKeyIsStored
BY Invariance, PTL DEF IInv

(* Each DID handed out has its key in the wallet.                           *)
THEOREM RegisteredDidsHaveKeys == Spec => []RegisteredDidHasKey
BY Invariance, PTL DEF IInv

(* The seeder leaves no fixture behind without its DID.                     *)
THEOREM FixturesAreSeeded == Spec => []PassedFixturesAreSeeded
BY Invariance, PTL DEF IInv
===============================================================================
