--------------------------- MODULE Startup_proofs ---------------------------
(***************************************************************************)
(* Proofs about Startup, for any configurations and any number of          *)
(* interrupted starts: the node runs only with its genesis alert and keys, *)
(* there is one genesis alert at most, and the genesis keys are found when *)
(* a page of the table can hold two rows of each.                          *)
(***************************************************************************)
EXTENDS Startup, TLAPS

Stored(k) == \E i \in 1 .. Len(keyRows) : keyRows[i] = k

\* The loop of CreateGenesisAlert starts at the first key, has saved a prefix
\* of the keys and runs only without the alert; what comes after it runs only
\* with the alert, and the alert comes only with all of the keys.
Progress ==
  /\ phase \in {"load", "datastore", "lookup"} => saved = 0
  /\ phase = "keys" => genesis = 0 /\ \A i \in 1 .. saved : Stored(conf.genesisKeys[i])
  /\ phase \in {"rpc", "identity", "host", "running"} => genesis > 0
  /\ genesis > 0 => \A i \in 1 .. Len(conf.genesisKeys) : Stored(conf.genesisKeys[i])

IInv == TypeOK /\ GenesisOnce /\ Progress

LEMMA GenesisKeysType ==
  ASSUME TypeOK
  PROVE  conf.genesisKeys \in Seq(Keys) /\ Len(conf.genesisKeys) \in Nat
  BY StartupAssumption DEF TypeOK, Configuration

LEMMA InitIInv == Init => IInv
<1> SUFFICES ASSUME Init
             PROVE  IInv
  OBVIOUS
<1>1. TypeOK
  <2>1. conf.genesisKeys \in Seq(Keys)
    BY StartupAssumption DEF Init, Configuration
  <2> QED
    BY <2>1, StartupAssumption DEF Init, TypeOK
<1> QED
  BY <1>1 DEF Init, IInv, GenesisOnce, Progress

\* A step that leaves the tables alone.
LEMMA TablesKept ==
  ASSUME IInv, TypeOK',
         UNCHANGED <<conf, keyRows, genesis>>,
         phase' = "keys" => \/ phase = "keys" /\ saved' = saved
                            \/ genesis = 0 /\ saved' = 0,
         phase' \in {"rpc", "identity", "host", "running"} => genesis > 0,
         phase' \in {"load", "datastore", "lookup"} => saved' = 0
  PROVE  IInv'
<1>1. Progress'
  BY DEF IInv, TypeOK, Progress, Stored
<1> QED
  BY <1>1 DEF IInv, GenesisOnce

\* The process ends, at any point.
LEMMA DownKeeps ==
  ASSUME IInv, Down, UNCHANGED <<conf, keyRows, genesis>>, TypeOK'
  PROVE  IInv'
  BY TablesKept DEF Down

LEMMA StepTypes ==
  ASSUME TypeOK, Next
  PROVE  TypeOK'
<1>1. conf.genesisKeys \in Seq(Keys) /\ Len(conf.genesisKeys) \in Nat
  BY GenesisKeysType
<1> USE <1>1 DEF TypeOK, config, Goto
<1>2. CASE Start
  BY <1>2, StartupAssumption DEF Start
<1>3. CASE Load
  BY <1>3 DEF Load
<1>4. CASE LoadFails \/ DatastoreUnsupported \/ LookupFails \/ ConfiguredKeyFails \/ Stop
  BY <1>4 DEF LoadFails, DatastoreUnsupported, LookupFails, ConfiguredKeyFails, Stop, Down
<1>5. CASE LoadDatastore
  <2>1. tables' \in BOOLEAN
    BY <1>5 DEF LoadDatastore
  <2> QED
    BY <1>5, <2>1 DEF LoadDatastore
<1>6. CASE LookupGenesis
  BY <1>6 DEF LookupGenesis
<1>7. CASE SaveKey
  <2>1. conf.genesisKeys[saved + 1] \in Keys
    BY <1>7 DEF SaveKey
  <2> QED
    BY <1>7, <2>1 DEF SaveKey
<1>8. CASE SaveGenesisAlert
  BY <1>8 DEF SaveGenesisAlert
<1>9. CASE VerifyRPC
  BY <1>9 DEF VerifyRPC
<1>10. CASE ConfiguredKey
  BY <1>10 DEF ConfiguredKey, Configured
<1>11. CASE GeneratePrivateKey
  BY <1>11 DEF GeneratePrivateKey
<1>12. CASE NewHost
  BY <1>12 DEF NewHost
<1>13. CASE Interrupted
  BY <1>13, StartupAssumption DEF Interrupted, Down
<1> QED
  BY <1>2, <1>3, <1>4, <1>5, <1>6, <1>7, <1>8, <1>9, <1>10, <1>11, <1>12, <1>13
     DEF Next, StartupStep

LEMMA SaveKeyKeeps ==
  ASSUME IInv, TypeOK', SaveKey
  PROVE  IInv'
<1> DEFINE k == conf.genesisKeys[saved + 1]
<1>1. /\ phase = "keys" /\ phase' = "keys" /\ saved' = saved + 1
      /\ keyRows' = Append(keyRows, k)
      /\ conf' = conf /\ genesis' = genesis
      /\ keyRows \in Seq(Keys) /\ saved \in Nat
  BY DEF SaveKey, IInv, TypeOK, config
<1>2. k \in Keys
  BY GenesisKeysType DEF SaveKey, IInv, TypeOK
<1>3. /\ Len(keyRows') = Len(keyRows) + 1
      /\ keyRows'[Len(keyRows) + 1] = k
      /\ \A i \in 1 .. Len(keyRows) : keyRows'[i] = keyRows[i]
      /\ Len(keyRows) \in Nat
  BY <1>1, <1>2
<1>4. \A i \in 1 .. saved : Stored(conf.genesisKeys[i])
  BY <1>1 DEF IInv, Progress
<1>5. \A i \in 1 .. saved + 1 : \E j \in 1 .. Len(keyRows') : keyRows'[j] = conf.genesisKeys[i]
  <2> SUFFICES ASSUME NEW i \in 1 .. saved + 1
               PROVE  \E j \in 1 .. Len(keyRows') : keyRows'[j] = conf.genesisKeys[i]
    OBVIOUS
  <2>1. CASE i = saved + 1
    <3>1. Len(keyRows) + 1 \in 1 .. Len(keyRows')
      BY <1>3
    <3> QED
      BY <1>3, <2>1, <3>1
  <2>2. CASE i \in 1 .. saved
    <3>1. PICK j \in 1 .. Len(keyRows) : keyRows[j] = conf.genesisKeys[i]
      BY <1>4, <2>2 DEF Stored
    <3>2. j \in 1 .. Len(keyRows') /\ keyRows'[j] = conf.genesisKeys[i]
      BY <1>3, <3>1
    <3> QED
      BY <3>2
  <2> QED
    BY <1>1, <2>1, <2>2
<1>6. genesis = 0
  BY <1>1 DEF IInv, Progress
<1>7. Progress'
  BY <1>1, <1>5, <1>6 DEF Progress, Stored
<1> QED
  BY <1>1, <1>6, <1>7 DEF IInv, GenesisOnce

LEMMA SaveGenesisAlertKeeps ==
  ASSUME IInv, TypeOK', SaveGenesisAlert
  PROVE  IInv'
<1>1. /\ phase = "keys" /\ phase' = "rpc"
      /\ saved = Len(conf.genesisKeys)
      /\ genesis = 0 /\ genesis' = 1
      /\ conf' = conf /\ keyRows' = keyRows
  BY DEF SaveGenesisAlert, Goto, AllSaved, IInv, Progress, config
<1>2. \A i \in 1 .. Len(conf.genesisKeys) : Stored(conf.genesisKeys[i])
  BY <1>1 DEF IInv, Progress
<1>3. Progress'
  BY <1>1, <1>2 DEF Progress, Stored
<1> QED
  BY <1>1, <1>3 DEF IInv, GenesisOnce

LEMMA NextIInv == IInv /\ [Next]_vars => IInv'
<1> SUFFICES ASSUME IInv, [Next]_vars
             PROVE  IInv'
  OBVIOUS
<1>1. TypeOK'
  BY StepTypes DEF IInv, TypeOK, vars
<1>2. CASE UNCHANGED vars
  BY <1>1, <1>2, TablesKept DEF vars, IInv, Progress
<1>3. CASE SaveKey
  BY <1>1, <1>3, SaveKeyKeeps
<1>4. CASE SaveGenesisAlert
  BY <1>1, <1>4, SaveGenesisAlertKeeps
<1>5. CASE LoadFails \/ DatastoreUnsupported \/ LookupFails \/ ConfiguredKeyFails
           \/ Stop \/ Interrupted
  BY <1>1, <1>5, DownKeeps
     DEF LoadFails, DatastoreUnsupported, LookupFails, ConfiguredKeyFails, Stop, Interrupted,
         config
<1>6. CASE Start \/ Load \/ LoadDatastore
  BY <1>1, <1>6, TablesKept
     DEF Start, Load, LoadDatastore, Goto, config, IInv, TypeOK, Progress
<1>7. CASE LookupGenesis
  <2>1. \/ phase' = "keys" /\ genesis = 0 /\ saved' = 0
        \/ phase' = "rpc" /\ genesis > 0
    BY <1>7 DEF LookupGenesis, Found, Goto, IInv, TypeOK, Progress
  <2>2. UNCHANGED <<conf, keyRows, genesis>>
    BY <1>7 DEF LookupGenesis, config
  <2> QED
    BY <1>1, <2>1, <2>2, TablesKept
<1>8. CASE VerifyRPC \/ ConfiguredKey \/ GeneratePrivateKey \/ NewHost
  BY <1>1, <1>8, TablesKept
     DEF VerifyRPC, ConfiguredKey, GeneratePrivateKey, NewHost, Goto, config, IInv, Progress
<1> QED
  BY <1>2, <1>3, <1>4, <1>5, <1>6, <1>7, <1>8 DEF Next, StartupStep

LEMMA Invariance == Spec => []IInv
  BY InitIInv, NextIInv, PTL DEF Spec

\* Every variable keeps its type, for any configurations and bounds.
THEOREM TypeCorrect == Spec => []TypeOK
<1>1. IInv => TypeOK
  BY DEF IInv
<1> QED
  BY <1>1, Invariance, PTL

\* However often the start is interrupted, CreateGenesisAlert saves the genesis
\* alert once.
THEOREM OneGenesisAlert == Spec => []GenesisOnce
<1>1. IInv => GenesisOnce
  BY DEF IInv
<1> QED
  BY <1>1, Invariance, PTL

\* The p2p service runs only over a table that has the genesis alert and every
\* genesis key.
THEOREM RunsOverGenesis == Spec => []RunsWithGenesis
<1>1. IInv => RunsWithGenesis
  <2> SUFFICES ASSUME IInv, phase = "running"
               PROVE  genesis > 0 /\ ToSet(conf.genesisKeys) \subseteq ToSet(keyRows)
    BY DEF RunsWithGenesis
  <2>1. genesis > 0 /\ \A i \in 1 .. Len(conf.genesisKeys) : Stored(conf.genesisKeys[i])
    BY DEF IInv, Progress
  <2>2. conf.genesisKeys \in Seq(Keys) /\ keyRows \in Seq(Keys)
    BY GenesisKeysType DEF IInv, TypeOK
  <2>3. DOMAIN conf.genesisKeys = 1 .. Len(conf.genesisKeys) /\ DOMAIN keyRows = 1 .. Len(keyRows)
    BY <2>2
  <2> QED
    BY <2>1, <2>3 DEF ToSet, Stored
<1> QED
  BY <1>1, Invariance, PTL

-----------------------------------------------------------------------------
(* The page of active keys *)

KeyCount == Len(conf.genesisKeys)

\* Only an interruption separates rows from the alert they were written for:
\* the rows are those of the current pass of the loop, or of the one that saved
\* the alert, and those of at most one pass for every interruption.
RowsBounded ==
  /\ faults = 0 => Len(keyRows) <= IF genesis > 0 THEN KeyCount ELSE saved
  /\ faults = 1 => Len(keyRows) <= KeyCount + (IF genesis > 0 THEN KeyCount ELSE saved)

LEMMA CountTypes ==
  ASSUME TypeOK
  PROVE  /\ KeyCount \in Nat /\ saved \in Nat /\ saved <= KeyCount /\ Len(keyRows) \in Nat
         /\ faults \in Nat /\ genesis \in Nat
  BY GenesisKeysType, StartupAssumption DEF TypeOK, KeyCount

\* A step that adds no row may forget the counter only where it is zero, after
\* the alert, or at the price of an interruption.
LEMMA RowsKept ==
  ASSUME IInv, RowsBounded, UNCHANGED <<conf, keyRows, genesis>>,
         \/ faults' = faults /\ (saved' = saved \/ genesis > 0)
         \/ faults' = faults + 1 /\ saved' = 0
  PROVE  RowsBounded'
<1>1. KeyCount' = KeyCount
  BY DEF KeyCount
<1>2. /\ KeyCount \in Nat /\ saved \in Nat /\ saved <= KeyCount /\ Len(keyRows) \in Nat
      /\ faults \in Nat /\ genesis \in Nat
  BY CountTypes DEF IInv
<1>3. CASE faults' = faults
  BY <1>1, <1>2, <1>3 DEF RowsBounded
<1>4. CASE faults' = faults + 1
  BY <1>1, <1>2, <1>4 DEF RowsBounded
<1> QED
  BY <1>3, <1>4

LEMMA RowsSaved ==
  ASSUME IInv, RowsBounded, SaveKey
  PROVE  RowsBounded'
<1>1. /\ KeyCount' = KeyCount /\ genesis = 0 /\ genesis' = 0 /\ saved' = saved + 1
      /\ faults' = faults
  BY DEF SaveKey, IInv, Progress, KeyCount, config
<1>2. Len(keyRows') = Len(keyRows) + 1
  BY DEF SaveKey, IInv, TypeOK
<1> QED
  BY <1>1, <1>2, CountTypes DEF RowsBounded, IInv

LEMMA RowsComplete ==
  ASSUME IInv, RowsBounded, SaveGenesisAlert
  PROVE  RowsBounded'
<1>1. /\ KeyCount' = KeyCount /\ genesis = 0 /\ genesis' = 1 /\ saved = KeyCount
      /\ faults' = faults /\ keyRows' = keyRows
  BY DEF SaveGenesisAlert, Goto, AllSaved, IInv, Progress, KeyCount, config
<1> QED
  BY <1>1, CountTypes DEF RowsBounded, IInv

LEMMA InitRows == Init => RowsBounded
<1> SUFFICES ASSUME Init
             PROVE  RowsBounded
  OBVIOUS
<1>1. Len(keyRows) = 0 /\ saved = 0 /\ faults = 0 /\ genesis = 0
  BY DEF Init
<1> QED
  BY <1>1 DEF RowsBounded

LEMMA NextRows == IInv /\ RowsBounded /\ [Next]_vars => RowsBounded'
<1> SUFFICES ASSUME IInv, RowsBounded, [Next]_vars
             PROVE  RowsBounded'
  OBVIOUS
<1>1. CASE UNCHANGED vars
  BY <1>1, RowsKept DEF vars
<1>2. CASE SaveKey
  BY <1>2, RowsSaved
<1>3. CASE SaveGenesisAlert
  BY <1>3, RowsComplete
<1>4. CASE LoadFails \/ DatastoreUnsupported \/ LookupFails
  <2>1. saved = 0 /\ saved' = 0 /\ UNCHANGED <<conf, keyRows, genesis, faults>>
    BY <1>4 DEF LoadFails, DatastoreUnsupported, LookupFails, Down, IInv, Progress, config
  <2> QED
    BY <2>1, RowsKept
<1>5. CASE ConfiguredKeyFails \/ Stop
  <2>1. genesis > 0 /\ saved' = 0 /\ UNCHANGED <<conf, keyRows, genesis, faults>>
    BY <1>5 DEF ConfiguredKeyFails, Stop, Down, IInv, Progress, config
  <2> QED
    BY <2>1, RowsKept
<1>6. CASE Interrupted
  <2>1. saved' = 0 /\ faults' = faults + 1 /\ UNCHANGED <<conf, keyRows, genesis>>
    BY <1>6 DEF Interrupted, Down, config
  <2> QED
    BY <2>1, RowsKept
<1>7. CASE Start \/ Load \/ LoadDatastore \/ LookupGenesis \/ VerifyRPC \/ ConfiguredKey
           \/ GeneratePrivateKey \/ NewHost
  <2>1. UNCHANGED <<conf, keyRows, genesis, saved, faults>>
    BY <1>7 DEF Start, Load, LoadDatastore, LookupGenesis, VerifyRPC, ConfiguredKey,
                GeneratePrivateKey, NewHost, config
  <2> QED
    BY <2>1, RowsKept
<1> QED
  BY <1>1, <1>2, <1>3, <1>4, <1>5, <1>6, <1>7 DEF Next, StartupStep

LEMMA MinOfTwo ==
  ASSUME NEW a \in Nat, NEW b \in Nat, b <= a
  PROVE  Min({a, b}) = b
<1>1. b \in {a, b} /\ \A y \in {a, b} : b <= y
  OBVIOUS
<1>2. \A x \in {a, b} : (\A y \in {a, b} : x <= y) => x = b
  OBVIOUS
<1> QED
  BY <1>1, <1>2 DEF Min

\* Once the genesis alert is stored, every genesis key is on the page of active
\* keys (public_key.go:79) after up to one interruption, for genesis keys that
\* fill at most half a page: the six configurations of config/envs have five.
THEOREM GenesisKeysUsable ==
  ASSUME \A c \in Configurations : 2 * Len(c.genesisKeys) <= PageSize
  PROVE  Spec => []GenesisKeysActive
<1>1. IInv /\ RowsBounded => GenesisKeysActive
  <2> SUFFICES ASSUME IInv, RowsBounded, genesis > 0, faults <= 1
               PROVE  ToSet(conf.genesisKeys) \subseteq ActivePublicKeys
    BY DEF GenesisKeysActive
  <2>1. 2 * KeyCount <= PageSize
    BY DEF IInv, TypeOK, KeyCount
  <2>2. Len(keyRows) <= PageSize /\ PageSize \in Nat /\ Len(keyRows) \in Nat
    BY <2>1, CountTypes DEF RowsBounded, IInv, PageSize
  <2>3. SubSeq(keyRows, 1, Min({PageSize, Len(keyRows)})) = SubSeq(keyRows, 1, Len(keyRows))
    BY <2>2, MinOfTwo
  <2>4. keyRows \in Seq(Keys)
    BY DEF IInv, TypeOK
  <2>5. SubSeq(keyRows, 1, Len(keyRows)) = keyRows
    BY <2>4
  <2>6. \A i \in 1 .. Len(conf.genesisKeys) : Stored(conf.genesisKeys[i])
    BY DEF IInv, Progress
  <2>7. DOMAIN conf.genesisKeys = 1 .. Len(conf.genesisKeys) /\ DOMAIN keyRows = 1 .. Len(keyRows)
    BY <2>4, GenesisKeysType DEF IInv
  <2>8. ToSet(conf.genesisKeys) \subseteq ToSet(keyRows)
    BY <2>6, <2>7 DEF ToSet, Stored
  <2> QED
    BY <2>3, <2>5, <2>8 DEF ActivePublicKeys
<1> QED
  BY <1>1, InitIInv, InitRows, NextIInv, NextRows, PTL DEF Spec
=============================================================================
