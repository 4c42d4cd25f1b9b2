-------------------------------- MODULE Wire --------------------------------
(***************************************************************************)
(* Alerts as bytes: how a publisher writes them, how nodes read them from  *)
(* gossip and from the messages of a sync session, what they keep in their *)
(* tables, and how the retry cron and the API read that again.             *)
(*                                                                         *)
(* An alert is version (4), sequence number (4), timestamp (8) and type    *)
(* (4), all little-endian; the message, whose format depends on the type;  *)
(* and the signatures, each of 65 bytes.  Nothing says how long the        *)
(* message is: it is what the signatures leave.  A node does not keep what *)
(* it has received but what it writes again from the fields it has read.   *)
(*                                                                         *)
(* A goroutine that has accepted an alert performs it and then saves its   *)
(* row.  Performing a set-keys alert is several writes to public_keys, and *)
(* other goroutines work, fail or die with the process in between.         *)
(***************************************************************************)
EXTENDS Integers, Sequences, FiniteSets

CONSTANTS
  Nodes,
  Gossipers,       \* nodes that store what they receive by gossip (see Gossip)
  Circulations,    \* each a set of drafts that publishers may sign and publish
  Noise,           \* other byte strings on the topic
  GenesisKeys,     \* the keys of genesis, in the order of their rows
  GenesisRaw,      \* the row of the genesis alert
  MaxAtWork,       \* bound: alerts that are being handled at the same time
  MaxFaults,       \* bound: failures of Do and Save, and crashes
  Parses(_),       \* bitcoin.PubKeyFromString finds a point
  Sign(_, _)       \* Sign(key, data): the signature made with the key's secret

Byte == 0 .. 255
Bytes(n) == [1 .. n -> Byte]

Word(n) == <<n, 0, 0, 0>>   \* n < 256 in four bytes
LE64(n) == <<n % 256, n \div 256, 0, 0, 0, 0, 0, 0>>   \* n < 2^16 in eight

KnownTypes == 1 .. 8
TypeWords == {Word(t) : t \in KnownTypes}

-----------------------------------------------------------------------------
(* The alert *)

SerializeData(a) == a.version \o a.sequence \o a.timestamp \o a.type \o a.message

SigSize == 65
Joined(sigs) ==
  [i \in 1 .. SigSize * Len(sigs) |-> sigs[1 + ((i - 1) \div SigSize)][1 + ((i - 1) % SigSize)]]

Serialize(a) == SerializeData(a) \o Joined(a.signatures)

\* "Assume 3 signatures": of the 128 bytes of type 99 only one signature is read.
SigLen(type) == IF type = Word(99) THEN 128 ELSE 195

TypeField(raw) == SubSeq(raw, 17, 20)
MessageEnd(raw) == Len(raw) - SigLen(TypeField(raw))

\* ReadRaw returns no error.
CanReadRaw(raw) == Len(raw) >= 20 /\ MessageEnd(raw) >= 22

\* Mutant: the first signature is read three times.
ReadRawOverlap(raw) ==
  LET end == MessageEnd(raw) IN
  [version |-> SubSeq(raw, 1, 4), sequence |-> SubSeq(raw, 5, 8),
   timestamp |-> SubSeq(raw, 9, 16), type |-> TypeField(raw),
   message |-> SubSeq(raw, 21, end),
   signatures |-> [i \in 1 .. SigLen(TypeField(raw)) \div SigSize |->
                     SubSeq(raw, end + 1, end + SigSize)]]

ReadRaw(raw) ==
  LET end == MessageEnd(raw) IN
  [version |-> SubSeq(raw, 1, 4), sequence |-> SubSeq(raw, 5, 8),
   timestamp |-> SubSeq(raw, 9, 16), type |-> TypeField(raw),
   message |-> SubSeq(raw, 21, end),
   signatures |-> [i \in 1 .. SigLen(TypeField(raw)) \div SigSize |->
                     SubSeq(raw, end + SigSize * (i - 1) + 1, end + SigSize * i)]]

-----------------------------------------------------------------------------
(* Signatures *)

Verifies(key, sig, data) == Parses(key) /\ sig = Sign(key, data)

\* GetActivePublicKey: the rows of public_keys whose flag is set, in the order of
\* their identifiers, and no more than a page of them.
PageSize == 10
ActiveKeys(keys) ==
  {i \in DOMAIN keys :
     keys[i].active /\ Cardinality({j \in 1 .. i - 1 : keys[j].active}) < PageSize}

\* Mutant: valid is not reset for the next signature.
AreSignaturesValidOnce(keys, a) ==
  \E i \in DOMAIN a.signatures, j \in ActiveKeys(keys) :
    Verifies(keys[j].key, a.signatures[i], SerializeData(a))

\* The keys are tried in turn; one that does not parse ends the check with an
\* error, even if a later one would do.
SignatureValid(keys, sig, data) ==
  \E j \in ActiveKeys(keys) :
    /\ Verifies(keys[j].key, sig, data)
    /\ \A i \in ActiveKeys(keys) : i < j => Parses(keys[i].key)

AreSignaturesValid(keys, a) ==
  /\ ActiveKeys(keys) # {}
  /\ \A i \in DOMAIN a.signatures :
       SignatureValid(keys, a.signatures[i], SerializeData(a))

-----------------------------------------------------------------------------
(* Read, by type *)

\* VarInt of go-sdk: one byte, or a marker and the number in 2, 4 or 8 bytes.
\* A number that needs more than two bytes is longer than any message.
Huge == 65536
Width(b) == CASE b = 253 -> 2 [] b = 254 -> 4 [] b = 255 -> 8 [] OTHER -> 0
HasVarInt(s) == s # <<>> /\ 1 + Width(s[1]) <= Len(s)
VarInt(s) ==
  IF s[1] < 253 THEN s[1]
  ELSE IF \A i \in 4 .. 1 + Width(s[1]) : s[i] = 0 THEN s[2] + 256 * s[3] ELSE Huge

After(s, n) == SubSeq(s, n + 1, Len(s))

\* A length, that many bytes, and what follows; too few bytes are an error.
From(s) == 1 + Width(s[1])
HasVarBytes(s) == HasVarInt(s) /\ From(s) + VarInt(s) <= Len(s)
Text(s) == SubSeq(s, From(s) + 1, From(s) + VarInt(s))
Rest(s) == After(s, From(s) + VarInt(s))

ReadInformational(m) == HasVarBytes(m) /\ Rest(m) = <<>>

FundSize == 57
\* The last bytes of Vout, EnforceAtHeightStart and EnforceAtHeightEnd: the
\* numbers must not exceed math.MaxInt.  (Mutant: only one fund is read.)
FundNumbers == {40, 48, 56}
ReadFreezeUtxoFirst(m) ==
  Len(m) >= FundSize /\ \A i \in FundNumbers : m[i] < 128
ReadFreezeUtxo(m) ==
  /\ Len(m) >= FundSize
  /\ Len(m) % FundSize = 0
  /\ \A i \in 1 .. Len(m) : i % FundSize \in FundNumbers => m[i] < 128

ReadConfiscateUtxo(m) == Len(m) >= 9 /\ HasVarBytes(After(m, 8)) /\ m[8] < 128

\* What follows the reason is ignored ...
ReadBanPeer(m) == HasVarBytes(m) /\ HasVarBytes(Rest(m))

\* ... but not here.
ReadUnbanPeer(m) == ReadBanPeer(m) /\ Rest(Rest(m)) = <<>>

ReadInvalidateBlock(m) ==
  /\ Len(m) >= 32
  /\ HasVarBytes(After(m, 32))
  /\ Text(After(m, 32)) # <<>>
  /\ Rest(After(m, 32)) = <<>>

ReadSetKeys(m) == Len(m) = 165

\* Mutant: a key without its last byte.
KeysReadShort(m) == [i \in 1 .. 5 |-> SubSeq(m, 33 * (i - 1) + 1, 33 * i - 1)]

KeysRead(m) == [i \in 1 .. 5 |-> SubSeq(m, 33 * (i - 1) + 1, 33 * i)]

\* ProcessAlertMessage has no interface for other types.
Read(type, m) ==
  \/ type = Word(1) /\ ReadInformational(m)
  \/ type \in {Word(2), Word(3)} /\ ReadFreezeUtxo(m)
  \/ type = Word(4) /\ ReadConfiscateUtxo(m)
  \/ type = Word(5) /\ ReadBanPeer(m)
  \/ type = Word(6) /\ ReadUnbanPeer(m)
  \/ type = Word(7) /\ ReadInvalidateBlock(m)
  \/ type = Word(8) /\ ReadSetKeys(m)

-----------------------------------------------------------------------------
(* Messages of a sync session *)

IGotSequenceNumber == 3

\* SyncMessage.Serialize, and NewSyncMessageFromBytes for a type with data
SyncMessage(type, a) == <<type>> \o SubSeq(a, 5, 8) \o a
MessageData(in) == After(in, 5)

\* Mutant: 253 is written as one byte.
VarIntBytesLoose(n) == IF n <= 253 THEN <<n>> ELSE <<253, n % 256, n \div 256>>

\* WriteIntBytes of go-sdk, for less than 65536 bytes
VarIntBytes(n) == IF n < 253 THEN <<n>> ELSE <<253, n % 256, n \div 256>>
Frame(message) == VarIntBytes(Len(message)) \o message

\* The data of the first message on a stream
Received(stream) == MessageData(Text(stream))

-----------------------------------------------------------------------------
(* What the tool writes (hack/publish.go) *)

FundSerialize(hash, vout, start, stop, expire) ==
  hash \o LE64(vout) \o LE64(start) \o LE64(stop) \o <<expire>>

InfoAlert(text) == [type |-> Word(1), message |-> text]
FreezeAlert(hash) == [type |-> Word(2), message |-> FundSerialize(hash, 0, 10000, 10100, 0)]
ConfiscateAlert(tx) == [type |-> Word(4), message |-> LE64(10000) \o tx]
InvalidateBlockAlert(hash) ==
  [type |-> Word(7), message |-> hash \o <<7, 116, 101, 115, 116, 105, 110, 103>>]

\* SignWithKeys: a draft becomes an alert
Signed(draft) ==
  LET a == [version |-> Word(1), sequence |-> Word(draft.number), timestamp |-> LE64(draft.second),
            type |-> draft.type, message |-> draft.message, signatures |-> <<>>]
  IN [a EXCEPT !.signatures =
        [i \in DOMAIN draft.signers |-> Sign(draft.signers[i], SerializeData(a))]]

\* What fits into a frame whose length takes two bytes (see VarIntBytes)
Raws == {raw \in Seq(Byte) : Len(raw) + 5 < Huge}

ASSUME WireAssumption ==
  /\ \A c \in Circulations : \A draft \in c :
       /\ Serialize(Signed(draft)) \in Raws
       /\ Len(Serialize(Signed(draft))) >= 20
  /\ Noise \subseteq Raws
  /\ GenesisRaw \in Raws /\ Len(GenesisRaw) >= 20
  /\ GenesisKeys \in Seq(Bytes(33))
  /\ MaxFaults \in Nat

-----------------------------------------------------------------------------
VARIABLES
  drafts,       \* alerts that publishers have in hand
  published,    \* what is on the topic
  rows,         \* rows[n]: the column Raw of alert_messages
  unprocessed,  \* unprocessed[n]: the rows that are not marked processed
  keyRows,      \* keyRows[n]: public_keys in the order of identifiers
  handling,     \* handling[n]: the alerts that goroutines have accepted
  up,           \* up[n]: the process runs
  faults        \* failures and crashes so far

tables == <<rows, unprocessed, keyRows>>
vars == <<drafts, published, tables, handling, up, faults>>

KeyRow == [key : Bytes(33), active : BOOLEAN]

\* An accepted alert: the bytes it was read from, whether the cron has them from
\* its row, how many writes of Do are done, and whether the lookup of the next key
\* has found no row.
Task == [raw : Raws, kept : BOOLEAN, writes : 0 .. 6, missing : BOOLEAN]

WireTypeOK ==
  /\ published \in SUBSET Raws
  /\ rows \in [Nodes -> SUBSET Raws]
  /\ unprocessed \in [Nodes -> SUBSET Raws]
  /\ keyRows \in [Nodes -> Seq(KeyRow)]
  /\ handling \in [Nodes -> SUBSET Task]
  /\ up \in [Nodes -> BOOLEAN]
  /\ faults \in 0 .. MaxFaults

Init ==
  /\ drafts \in Circulations
  /\ published = Noise
  /\ rows = [n \in Nodes |-> {GenesisRaw}]
  /\ unprocessed = [n \in Nodes |-> {}]
  /\ keyRows = [n \in Nodes |->
                 [i \in DOMAIN GenesisKeys |-> [key |-> GenesisKeys[i], active |-> TRUE]]]
  /\ handling = [n \in Nodes |-> {}]
  /\ up = [n \in Nodes |-> TRUE]
  /\ faults = 0

\* The tool checks an alert against the tables of its own node.
Publish(n, draft) ==
  /\ draft \in drafts
  /\ AreSignaturesValid(keyRows[n], Signed(draft))
  /\ drafts' = drafts \ {draft}
  /\ published' = published \cup {Serialize(Signed(draft))}
  /\ UNCHANGED <<tables, handling, up, faults>>

-----------------------------------------------------------------------------
(* An alert gets accepted *)

\* Mutant: the signatures are not in it.
RowUnsigned(a) == SerializeData(a)

\* The column Raw, which ReadRaw sets by writing the alert again
Row(a) == Serialize(a)

NewTask(raw, kept) == [raw |-> raw, kept |-> kept, writes |-> 0, missing |-> FALSE]

\* An alert that is at work is not taken up again: that a second goroutine may
\* do so, and insert a second row, is shown by AlertNode.
TakeUp(n, raw, kept) ==
  /\ Cardinality(UNION {{<<m, t>> : t \in handling[m]} : m \in Nodes}) < MaxAtWork
  /\ \A t \in handling[n] : t.raw # raw
  /\ handling' = [handling EXCEPT ![n] = @ \cup {NewTask(raw, kept)}]
  /\ UNCHANGED <<drafts, published, tables, up, faults>>

\* Sessions and gossip go for new alerts only.
Accept(n, raw) ==
  LET a == ReadRaw(raw) IN
  /\ Row(a) \notin rows[n]
  /\ TakeUp(n, raw, FALSE)
  /\ Read(a.type, a.message)

\* Read is called although there is no interface value, and the process dies.
Panic(n, raw) ==
  /\ ReadRaw(raw).type \notin TypeWords
  /\ up' = [up EXCEPT ![n] = FALSE]
  /\ handling' = [handling EXCEPT ![n] = {}]
  /\ UNCHANGED <<drafts, published, tables, faults>>

\* An alert that cannot be read or is not signed is dropped.
Handle(n, raw) ==
  /\ up[n]
  /\ CanReadRaw(raw)
  /\ Accept(n, raw) \/ Panic(n, raw)
  /\ AreSignaturesValid(keyRows[n], ReadRaw(raw))

\* At the commit, Subscribe takes the error for a missing duplicate as a failure
\* of the database and drops every new alert (AlertNode: OnlyRealErrorsDrop):
\* such nodes get alerts by sessions only.  Gossipers stand for the publishers'
\* peers on which the lookup answers the error that Subscribe tests for.
Gossip(n, raw) == n \in Gossipers /\ raw \in published /\ Handle(n, raw)

\* ProcessWantSequenceNumber of m sends its row, and n handles the data.
SyncFrom(n, m, raw) ==
  /\ raw \in rows[m] /\ up[m]
  /\ Handle(n, Received(Frame(SyncMessage(IGotSequenceNumber, raw))))

\* processAlerts reads the row again; the cron has one alert in hand at a time.
Retry(n, raw) ==
  /\ up[n]
  /\ raw \in unprocessed[n]
  /\ \A t \in handling[n] : ~t.kept
  /\ CanReadRaw(raw)
  /\ Read(ReadRaw(raw).type, ReadRaw(raw).message)
  /\ TakeUp(n, raw, TRUE)

-----------------------------------------------------------------------------
(* An accepted alert is performed and saved *)

SetsKeys(t) == ReadRaw(t.raw).type = Word(8)

\* ClearActivePublicKeys
ClearKeys(n, t) ==
  /\ t.writes = 0
  /\ keyRows' = [keyRows EXCEPT ![n] = [i \in DOMAIN keyRows[n] |->
                                         [keyRows[n][i] EXCEPT !.active = FALSE]]]

NextKey(t) == KeysRead(ReadRaw(t.raw).message)[t.writes]

\* The lookup of a key finds no row.  Another goroutine may insert the same key
\* before this one does: no index is unique.
FindNone(n, t) ==
  /\ SetsKeys(t) /\ t.writes \in 1 .. 5 /\ ~t.missing
  /\ \A i \in DOMAIN keyRows[n] : keyRows[n][i].key # NextKey(t)
  /\ handling' = [handling EXCEPT ![n] = (@ \ {t}) \cup {[t EXCEPT !.missing = TRUE]}]
  /\ UNCHANGED <<drafts, published, tables, up, faults>>

\* A row that the lookup finds stays and keeps its key: to save it is one step
\* with the lookup.
UpdateKey(n, t) ==
  /\ t.writes \in 1 .. 5 /\ ~t.missing
  /\ \E i \in DOMAIN keyRows[n] :
       /\ keyRows[n][i].key = NextKey(t)
       /\ keyRows' = [keyRows EXCEPT ![n][i].active = TRUE]

InsertKey(n, t) ==
  /\ t.writes \in 1 .. 5 /\ t.missing
  /\ keyRows' = [keyRows EXCEPT ![n] = Append(@, [key |-> NextKey(t), active |-> TRUE])]

\* Do of a set-keys alert: every write is a transaction of its own.
DoWrite(n, t) ==
  /\ SetsKeys(t)
  /\ ClearKeys(n, t) \/ UpdateKey(n, t) \/ InsertKey(n, t)
  /\ handling' = [handling EXCEPT ![n] =
                    (@ \ {t}) \cup {[t EXCEPT !.writes = @ + 1, !.missing = FALSE]}]
  /\ UNCHANGED <<drafts, published, rows, unprocessed, up, faults>>

\* Do has returned no error.  Of other alerts it writes nothing here.
DoDone(t) == SetsKeys(t) => t.writes = 6

Fault == faults < MaxFaults /\ faults' = faults + 1

Leave(n, t) ==
  /\ handling' = [handling EXCEPT ![n] = @ \ {t}]
  /\ UNCHANGED <<drafts, published, keyRows, up>>

\* The end of Subscribe and of ProcessGotSequenceNumber, or of a retry
Save(n, t) ==
  /\ DoDone(t)
  /\ rows' = [rows EXCEPT ![n] = @ \cup {Row(ReadRaw(t.raw))}]
  /\ unprocessed' = [unprocessed EXCEPT ![n] = @ \ {Row(ReadRaw(t.raw))}]
  /\ Leave(n, t)
  /\ UNCHANGED faults

\* Do has failed at its next write, and what it has written stays.
SaveUnprocessed(n, t) ==
  /\ ~t.kept
  /\ rows' = [rows EXCEPT ![n] = @ \cup {Row(ReadRaw(t.raw))}]
  /\ unprocessed' = [unprocessed EXCEPT ![n] = @ \cup {Row(ReadRaw(t.raw))}]
  /\ Leave(n, t)
  /\ Fault

\* Save fails, or Do fails in a retry, which does not save then.
SaveNothing(n, t) ==
  /\ Leave(n, t)
  /\ Fault
  /\ UNCHANGED <<rows, unprocessed>>

\* The process dies and is started again.
Crash(n) ==
  /\ handling[n] # {}
  /\ handling' = [handling EXCEPT ![n] = {}]
  /\ Fault
  /\ UNCHANGED <<drafts, published, tables, up>>

Restart(n) ==
  /\ ~up[n]
  /\ up' = [up EXCEPT ![n] = TRUE]
  /\ UNCHANGED <<drafts, published, tables, handling, faults>>

Next ==
  \E n \in Nodes :
    \/ \E draft \in drafts : Publish(n, draft)
    \/ \E raw \in published : Gossip(n, raw)
    \/ \E m \in Nodes \ {n} : \E raw \in rows[m] : SyncFrom(n, m, raw)
    \/ \E raw \in unprocessed[n] : Retry(n, raw)
    \/ \E t \in handling[n] :
         FindNone(n, t) \/ DoWrite(n, t) \/ Save(n, t) \/ SaveUnprocessed(n, t) \/ SaveNothing(n, t)
    \/ Crash(n)
    \/ Restart(n)

Spec == Init /\ [][Next]_vars

-----------------------------------------------------------------------------
(* The format, stated without the readers *)

\* n < 2^16 as a VarInt, in any of the lengths that go-sdk reads
VarInts(n) ==
  LET lo == n % 256 hi == n \div 256 IN
  {<<253, lo, hi>>, <<254, lo, hi, 0, 0>>, <<255, lo, hi, 0, 0, 0, 0, 0, 0>>}
    \cup {s \in {<<n>>} : n < 253}

IsVarBytes(s) ==
  \E i \in {1, 3, 5, 9} : i <= Len(s) /\ SubSeq(s, 1, i) \in VarInts(Len(s) - i)

IsFund(s) == Len(s) = FundSize /\ s[40] < 128 /\ s[48] < 128 /\ s[56] < 128

WellFormed(type, m) ==
  \/ type = Word(1) /\ IsVarBytes(m)
  \/ /\ type \in {Word(2), Word(3)}
     /\ \E k \in 1 .. Len(m) :
          Len(m) = 57 * k /\ \A i \in 1 .. k : IsFund(SubSeq(m, 57 * i - 56, 57 * i))
  \/ /\ type = Word(4)
     /\ Len(m) > 8 /\ m[8] < 128 /\ \E j \in 9 .. Len(m) : IsVarBytes(SubSeq(m, 9, j))
  \/ /\ type = Word(5)
     /\ \E j \in 1 .. Len(m) : \E k \in j .. Len(m) :
          IsVarBytes(SubSeq(m, 1, j)) /\ IsVarBytes(SubSeq(m, j + 1, k))
  \/ /\ type = Word(6)
     /\ \E j \in 1 .. Len(m) : IsVarBytes(SubSeq(m, 1, j)) /\ IsVarBytes(After(m, j))
  \/ /\ type = Word(7)
     /\ Len(m) > 32 /\ IsVarBytes(After(m, 32)) /\ After(m, 32) \notin VarInts(0)
  \/ type = Word(8) /\ Len(m) = 165

\* Header, a message of at least two bytes, three signatures
IsAlert(raw) ==
  Len(raw) >= 217 /\ WellFormed(TypeField(raw), SubSeq(raw, 21, Len(raw) - 195))

-----------------------------------------------------------------------------
(* Properties *)

\* Over any number of hops, by gossip and by sessions, a node keeps and serves
\* the bytes that were published, although every hop writes them anew.
RelayedUnchanged == \A n \in Nodes : rows[n] \subseteq published \cup {GenesisRaw}

\* Whatever a node keeps, the cron and the API can read again, and write again
\* as it is; only the row of the genesis alert, which has no message, not.
DecodesAgain ==
  \A n \in Nodes : \A raw \in rows[n] \ {GenesisRaw} :
    /\ CanReadRaw(raw)
    /\ Read(ReadRaw(raw).type, ReadRaw(raw).message)
    /\ Serialize(ReadRaw(raw)) = raw

\* The three signatures behind an alert were made with keys of these rows over
\* everything in front of them.
SignedWith(keys, raw) ==
  \A i \in 1 .. 3 :
    \E j \in DOMAIN keys :
      Verifies(keys[j].key,
               SubSeq(raw, Len(raw) - 65 * (4 - i) + 1, Len(raw) - 65 * (3 - i)),
               SubSeq(raw, 1, Len(raw) - 195))

\* What a node has stored or is about to perform
Admitted(n) == rows[n] \cup {t.raw : t \in handling[n]}

\* Nothing gets into a table, nor is performed, that was not admitted with three
\* signatures, each made with a key that was active then, over everything in
\* front of the signatures.
AuthenticRows ==
  [][\A n \in Nodes : \A raw \in Admitted(n)' \ Admitted(n) :
       SignedWith([i \in ActiveKeys(keyRows[n]) |-> keyRows[n][i]], raw)]_vars

\* Every key that a node has, and not from genesis, was written in a published
\* set-keys alert that keys signed which the node had before it: down to genesis
\* there is no other way in, whichever writes of however many set-keys alerts
\* were done when a write failed, another goroutine came in between, the process
\* died or the cron tried again.
ChainOfTrust ==
  \A n \in Nodes : \A i \in DOMAIN keyRows[n] :
    i > Len(GenesisKeys) =>
      \E raw \in published :
        /\ Len(raw) = 20 + 5 * 33 + 195 /\ TypeField(raw) = Word(8)
        /\ \E k \in 1 .. 5 : keyRows[n][i].key = SubSeq(raw, 33 * k - 12, 33 * k + 20)
        /\ SignedWith([j \in 1 .. i - 1 |-> keyRows[n][j]], raw)

\* Whoever handles a published alert reads it exactly if it has the format.
ReadsFormat ==
  [][\A raw \in published' \ published :
       CanReadRaw(raw) /\ Read(ReadRaw(raw).type, ReadRaw(raw).message) <=> IsAlert(raw)]_vars

\* Two messages written one after the other on a stream are read as the two.
FramesSeparate ==
  [][\A raw \in published' \ published, other \in published' \ Noise :
       LET next == Frame(SyncMessage(IGotSequenceNumber, other))
           stream == Frame(SyncMessage(IGotSequenceNumber, raw)) \o next IN
       HasVarBytes(stream) /\ Received(stream) = raw /\ Rest(stream) = next]_vars
=============================================================================
