------------------------------ MODULE Startup ------------------------------
(***************************************************************************)
(* From the start of the process to the point where ServerLifecycle takes  *)
(* over: the configuration is loaded and checked, the datastore is opened, *)
(* the genesis alert and its keys are created unless they are there, the   *)
(* bitcoin node is asked, and the p2p host gets its identity.              *)
(*                                                                         *)
(* The process may be interrupted between any two steps and is started     *)
(* again over what it has left behind: the tables and the key file.        *)
(***************************************************************************)
EXTENDS Integers, Sequences, FiniteSetsExt, SequencesExt

CONSTANTS
  Keys,            \* public keys
  Configurations,  \* configurations the node may be given
  MaxFaults,       \* bound: crashes and calls that fail
  MaxStarts        \* bound: starts of the process

Configuration == [
  environment : BOOLEAN,     \* the environment is a known one
  readable : BOOLEAN,        \* its file, or the custom one, can be read
  rpcConnections : Nat,      \* how many are configured
  rpcPort : BOOLEAN,         \* the host of the first has a port
  genesisKeys : Seq(Keys),
  bitcoinConfig : {"unset", "missing", "found"},
  bitcoinValues : SUBSET {"rpcport", "rpcuser", "rpcpassword"},  \* what it sets
  ip : BOOLEAN, port : BOOLEAN,  \* long enough
  engine : {"sqlite", "mysql", "postgresql", "mongodb", "empty"},
  autoMigrate : BOOLEAN,
  privateKey : {"unset", "valid", "invalid"}]

ASSUME StartupAssumption ==
  /\ Configurations \subseteq Configuration
  /\ MaxFaults \in Nat
  /\ MaxStarts \in Nat

VARIABLES
  conf,      \* the configuration
  tables,    \* the tables exist
  keyRows,   \* keys of public_keys in the order of their identifiers, all active
  genesis,   \* rows with sequence number 0 in alert_messages
  keyFile,   \* the identity in the key file, 0 when there is none
  made,      \* identities generated so far
  phase,     \* where main is, "down" when the process does not run
  saved,     \* keysToSave of CreateGenesisAlert that are saved
  identity,  \* the identity of the p2p host, 0 when there is none
  starts,    \* starts so far
  faults     \* faults so far

config == <<conf, tables>>
vars == <<conf, tables, keyRows, genesis, keyFile, made, phase, saved, identity, starts, faults>>

Configured == 0  \* an identity that comes from the configuration is no number of "made"

TypeOK ==
  /\ conf \in Configurations
  /\ tables \in BOOLEAN
  /\ keyRows \in Seq(Keys)
  /\ genesis \in Nat
  /\ keyFile \in 0 .. made
  /\ made \in Nat
  /\ phase \in {"down", "load", "datastore", "lookup", "keys", "rpc", "identity",
                "host", "running"}
  /\ saved \in 0 .. Len(conf.genesisKeys)
  /\ identity \in 0 .. made
  /\ phase = "down" => saved = 0 /\ identity = 0
  /\ starts \in 0 .. MaxStarts
  /\ faults \in 0 .. MaxFaults

-----------------------------------------------------------------------------
(* The configuration *)

LoadConfigFile == conf.environment /\ conf.readable

\* loadBitcoinConfiguration: the port has a default only if the configured
\* host has one (without it the code indexes past the end and panics).
LoadBitcoinConfiguration ==
  conf.bitcoinConfig # "unset" =>
    /\ conf.bitcoinConfig = "found"
    /\ "rpcport" \in conf.bitcoinValues \/ conf.rpcPort
    /\ {"rpcuser", "rpcpassword"} \subseteq conf.bitcoinValues

RequireP2P == LoadBitcoinConfiguration /\ conf.ip /\ conf.port

LoadDependencies ==
  /\ LoadConfigFile
  /\ conf.rpcConnections > 0
  /\ conf.genesisKeys # <<>>
  /\ RequireP2P

\* GetActivePublicKey reads one page of the table.
PageSize == 10
ActivePublicKeys == ToSet(SubSeq(keyRows, 1, Min({PageSize, Len(keyRows)})))

-----------------------------------------------------------------------------
Init ==
  /\ conf \in Configurations
  /\ tables \in BOOLEAN
  /\ keyRows = <<>>
  /\ genesis = 0
  /\ keyFile = 0
  /\ made = 0
  /\ phase = "down"
  /\ saved = 0
  /\ identity = 0
  /\ starts = 0
  /\ faults = 0

\* Mutant: the counter survives.
DownDirty ==
  /\ phase' = "down"
  /\ identity' = 0
  /\ UNCHANGED saved

\* The process ends: what it holds in memory is lost.
Down ==
  /\ phase' = "down"
  /\ saved' = 0
  /\ identity' = 0

Goto(from, to) == phase = from /\ phase' = to

Start ==
  /\ Goto("down", "load")
  /\ starts < MaxStarts
  /\ starts' = starts + 1
  /\ UNCHANGED <<config, keyRows, genesis, keyFile, made, saved, identity, faults>>

Load ==
  /\ Goto("load", "datastore")
  /\ LoadDependencies
  /\ UNCHANGED <<config, keyRows, genesis, keyFile, made, saved, identity, starts, faults>>

LoadFails ==
  /\ phase = "load"
  /\ ~LoadDependencies
  /\ Down
  /\ UNCHANGED <<config, keyRows, genesis, keyFile, made, starts, faults>>

LoadDatastore ==
  /\ Goto("datastore", "lookup")
  /\ conf.engine \in {"sqlite", "mysql", "postgresql"}
  /\ tables' = (tables \/ conf.autoMigrate)
  /\ UNCHANGED <<conf, keyRows, genesis, keyFile, made, saved, identity, starts, faults>>

DatastoreUnsupported ==
  /\ phase = "datastore"
  /\ conf.engine \notin {"sqlite", "mysql", "postgresql"}
  /\ Down
  /\ UNCHANGED <<config, keyRows, genesis, keyFile, made, starts, faults>>

-----------------------------------------------------------------------------
(* CreateGenesisAlert *)

\* Mutants: the row that is found is not looked at; the keys are looked for
\* instead of the alert.
FoundNever == FALSE
FoundKeys == keyRows # <<>>

\* "m != nil && len(m.Hash) > 0"
Found == genesis > 0

LookupGenesis ==
  /\ tables
  /\ Goto("lookup", IF Found THEN "rpc" ELSE "keys")
  /\ UNCHANGED <<config, keyRows, genesis, keyFile, made, saved, identity, starts, faults>>

\* The lookup fails with something else than ErrAlertNotFound.
LookupFails ==
  /\ phase = "lookup"
  /\ ~tables
  /\ Down
  /\ UNCHANGED <<config, keyRows, genesis, keyFile, made, starts, faults>>

\* Mutants: an error of saving a key ends the loop and not the function; a key
\* that is there is an error.
AllSavedEarly == saved >= 0
MaySaveUnique(k) == k \notin ToSet(keyRows)

AllSaved == saved = Len(conf.genesisKeys)
MaySave(k) == k \in Keys  \* public_keys has no unique index

SaveKey ==
  /\ phase = "keys"
  /\ saved < Len(conf.genesisKeys)
  /\ LET k == conf.genesisKeys[saved + 1] IN
       /\ MaySave(k)
       /\ keyRows' = Append(keyRows, k)
  /\ saved' = saved + 1
  /\ UNCHANGED <<config, genesis, keyFile, made, phase, identity, starts, faults>>

SaveGenesisAlert ==
  /\ Goto("keys", "rpc")
  /\ AllSaved
  /\ genesis' = genesis + 1
  /\ UNCHANGED <<config, keyRows, keyFile, made, saved, identity, starts, faults>>

-----------------------------------------------------------------------------
(* The bitcoin node and the identity *)

\* The node answers, or disable_rpc_verification is set.
VerifyRPC ==
  /\ Goto("rpc", "identity")
  /\ UNCHANGED <<config, keyRows, genesis, keyFile, made, saved, identity, starts, faults>>

\* NewServer with a key in the configuration
ConfiguredKey ==
  /\ Goto("identity", "host")
  /\ conf.privateKey = "valid"
  /\ identity' = Configured
  /\ UNCHANGED <<config, keyRows, genesis, keyFile, made, saved, starts, faults>>

ConfiguredKeyFails ==
  /\ phase = "identity"
  /\ conf.privateKey = "invalid"
  /\ Down
  /\ UNCHANGED <<config, keyRows, genesis, keyFile, made, starts, faults>>

\* NewServer without one: readPrivateKey decodes what it is given, which is the
\* path of the key file and not its contents, fails, and a key is generated.
GeneratePrivateKey ==
  /\ Goto("identity", "host")
  /\ conf.privateKey = "unset"
  /\ made' = made + 1
  /\ keyFile' = made'
  /\ identity' = made'
  /\ UNCHANGED <<config, keyRows, genesis, saved, starts, faults>>

\* libp2p.New
NewHost ==
  /\ Goto("host", "running")
  /\ UNCHANGED <<config, keyRows, genesis, keyFile, made, saved, identity, starts, faults>>

StartupStep ==
  \/ Start
  \/ Load
  \/ LoadFails
  \/ LoadDatastore
  \/ DatastoreUnsupported
  \/ LookupGenesis
  \/ LookupFails
  \/ SaveKey
  \/ SaveGenesisAlert
  \/ VerifyRPC
  \/ ConfiguredKey
  \/ ConfiguredKeyFails
  \/ GeneratePrivateKey
  \/ NewHost

-----------------------------------------------------------------------------
(* Faults *)

\* The process is killed, or a call fails (of the database, the bitcoin node,
\* the file system or the network): main returns or exits, at any point.
Interrupted ==
  /\ phase # "down"
  /\ faults < MaxFaults
  /\ faults' = faults + 1
  /\ Down
  /\ UNCHANGED <<config, keyRows, genesis, keyFile, made, starts>>

\* ServerLifecycle ends.
Stop ==
  /\ phase = "running"
  /\ Down
  /\ UNCHANGED <<config, keyRows, genesis, keyFile, made, starts, faults>>

Next == StartupStep \/ Interrupted \/ Stop

Spec == Init /\ [][Next]_vars

\* The process runs, and is started again while the bound allows it.
FairSpec == Spec /\ WF_vars(StartupStep)

-----------------------------------------------------------------------------
(* Properties *)

\* Once the genesis alert is there, every genesis key can be found in the page
\* of active keys, after up to one interruption in between: the table has twice
\* as many rows then.  (A third start with five keys fills the page with
\* duplicates.)
GenesisKeysActive ==
  genesis > 0 /\ faults <= 1 => ToSet(conf.genesisKeys) \subseteq ActivePublicKeys

\* However often the start is interrupted, there is one genesis alert at most.
GenesisOnce == genesis <= 1

\* A node never runs the p2p service without its genesis alert and genesis keys
\* in the table: peers could otherwise not even be answered with a latest alert.
RunsWithGenesis ==
  phase = "running" => genesis > 0 /\ ToSet(conf.genesisKeys) \subseteq ToSet(keyRows)

\* A configuration that the node accepts.
Startable ==
  /\ LoadDependencies
  /\ conf.engine \in {"sqlite", "mysql", "postgresql"}
  /\ tables \/ conf.autoMigrate
  /\ conf.privateKey # "invalid"

\* A node with an acceptable configuration gets to run, whatever an interrupted
\* start has left in the tables.
EventuallyRuns == Startable => <>(phase = "running")

\* "If the file doesn't exist, generate a new private key" (server.go:83): a
\* key file that exists is not written again.
KeyFileKept == [][keyFile # 0 => keyFile' = keyFile]_vars
=============================================================================
