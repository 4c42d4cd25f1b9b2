------------------------------ MODULE PeerSync ------------------------------
(***************************************************************************)
(* The replication of alerts between nodes of the alert system: the sync   *)
(* protocol of app/p2p/thread.go (one request in flight per stream), the   *)
(* peer discovery that starts it, and the gossip of app/p2p/server.go that *)
(* stores an alert whose predecessor is already stored.                    *)
(*                                                                         *)
(* A stream joins a client thread (StreamThread.Sync, run by               *)
(* discoverPeers) and a server thread (the stream handler).  Either one is *)
(* two goroutines: a reader that handles messages, and the caller that     *)
(* waits in a select for the reader, for a quit signal or for one minute.  *)
(* The caller may leave while the reader is still handling a message; the  *)
(* reader then still writes to the database.                               *)
(*                                                                         *)
(* An alert is its sequence number: the holders of the signing keys        *)
(* publish one alert per number.  Whether an alert's action succeeded, and *)
(* how often it is stored, is the subject of AlertNode.                    *)
(***************************************************************************)
EXTENDS Integers, Sequences, FiniteSets, FiniteSetsExt

CONSTANTS
  Nodes,        \* nodes of the network
  Streams,      \* streams that can be open at a time
  MaxSeq,       \* bound: the highest sequence number ever published
  MaxFaults,    \* bound: timeouts, lost connections, failures and crashes
  NotFoundErr   \* the error of a lookup by sequence number that finds no row

ASSUME PeerSyncAssumption ==
  /\ MaxSeq \in Nat
  /\ MaxFaults \in Nat
  /\ NotFoundErr \in {"ErrAlertNotFound", "ErrNoResults"}

Ends == {"client", "server"}
Threads == Streams \X Ends
Client(s) == <<s, "client">>
Server(s) == <<s, "server">>
Other(t) == <<t[1], IF t[2] = "client" THEN "server" ELSE "client">>

SeqNums == 0 .. MaxSeq
MessageTypes ==
  {"IWantLatest", "IGotLatest", "IWantSequenceNumber", "IGotSequenceNumber"}
SyncMessage == [type : MessageTypes, seq : Nat]
Msg(type, seq) == [type |-> type, seq |-> seq]

VARIABLES
  stored,      \* stored[n]: sequence numbers in the alert_messages table of n
  published,   \* sequence numbers of the alerts in circulation
  node,        \* node[t]: the node that runs thread t
  reader,      \* reader[t]: what the reader goroutine of t is doing
  main,        \* main[t]: whether ProcessSyncMessage of t is in its select
  open,        \* open[t]: the end of the stream held by t is not closed
  inbox,       \* inbox[t]: messages sent to t and not yet read
  msg,         \* msg[t]: the message that the reader of t is handling
  latest,      \* latest[t]: StreamThread.latestSequence
  myLatest,    \* myLatest[t]: StreamThread.myLatestSequence
  faults       \* faults so far

threadVars == <<node, reader, main, open, inbox, msg, latest, myLatest>>
vars == <<stored, published, threadVars, faults>>

\* A reader is "reading" from the stream, "handling" a message, blocked in
\* "done <- err" ("reporting"), or it has "ended".
ReaderStates == {"reading", "handling", "reporting", "ended"}
MainStates == {"selecting", "returned"}

TypeOK ==
  /\ stored \in [Nodes -> SUBSET SeqNums]
  /\ published \in SUBSET SeqNums
  /\ node \in [Threads -> Nodes]
  /\ reader \in [Threads -> ReaderStates]
  /\ main \in [Threads -> MainStates]
  /\ open \in [Threads -> BOOLEAN]
  /\ inbox \in [Threads -> Seq(SyncMessage)]
  /\ msg \in [Threads -> SyncMessage]
  /\ latest \in [Threads -> Nat]
  /\ myLatest \in [Threads -> Nat]
  /\ faults \in 0 .. MaxFaults

-----------------------------------------------------------------------------
(* The database and the stream *)

\* Mutants: the rows are counted; they are sorted the wrong way; one too low.
LatestCount(n) == Cardinality(stored[n])
LatestFirst(n) == Min(stored[n])
LatestBelow(n) == Max(stored[n]) - 1

\* GetLatestAlert: the row of the highest sequence number.
Latest(n) == Max(stored[n])

\* Mutants: the message is written twice; it stays in a buffer.
SendTwice(t, m) ==
  IF open[t] /\ open[Other(t)]
    THEN [inbox EXCEPT ![Other(t)] = @ \o <<m, m>>]
    ELSE inbox
SendBuffered(t, m) == inbox

\* stream.Write: fails on a stream this end has closed; bytes written to an
\* end that the peer has closed are discarded.
Send(t, m) ==
  IF open[t] /\ open[Other(t)]
    THEN [inbox EXCEPT ![Other(t)] = Append(@, m)]
    ELSE inbox

\* Mutant: the loop of the reader is left after an answer.
AfterWriteStop(t) == "reporting"

AfterWrite(t) == IF open[t] THEN "reading" ELSE "reporting"

\* Mutant: the sequence number is advanced before the alert is saved.
SaveAdvanced(t) == stored' = [stored EXCEPT ![node[t]] = @ \cup {msg[t].seq + 1}]

\* Save of an alert that was received on a stream.
Save(t) == stored' = [stored EXCEPT ![node[t]] = @ \cup {msg[t].seq}]

Fault == faults < MaxFaults /\ faults' = faults + 1

\* Nobody is using the stream any more; a reader blocked for ever on "done"
\* does not keep the stream.
Unused(s) ==
  \A t \in {Client(s), Server(s)} :
    main[t] = "returned" /\ reader[t] \in {"reporting", "ended"}

-----------------------------------------------------------------------------
(* A node starts from the database it finds: the genesis alert, or what an *)
(* earlier run of it stored.                                               *)

Init ==
  /\ \E height \in [Nodes -> SeqNums] : stored = [n \in Nodes |-> 0 .. height[n]]
  /\ published = UNION {stored[n] : n \in Nodes}
  /\ node \in [Threads -> Nodes]
  /\ \A s, t \in Threads : node[s] = node[t]
  /\ reader = [t \in Threads |-> "ended"]
  /\ main = [t \in Threads |-> "returned"]
  /\ open = [t \in Threads |-> FALSE]
  /\ inbox = [t \in Threads |-> <<>>]
  /\ msg = [t \in Threads |-> Msg("IWantLatest", 0)]
  /\ latest = [t \in Threads |-> 0]
  /\ myLatest = [t \in Threads |-> 0]
  /\ faults = 0

-----------------------------------------------------------------------------
(* Peer discovery *)

\* discoverPeers syncs with one peer at a time: NewStream, then Sync, which
\* reads the latest alert and writes IWantLatest.  The stream handler of the
\* peer starts ProcessSyncMessage on the other end.
OpenStream(s, i, j) ==
  LET start(f, c, v) == [f EXCEPT ![Client(s)] = c, ![Server(s)] = v] IN
  /\ i # j
  /\ Unused(s)
  /\ \A r \in Streams : node[Client(r)] = i => main[Client(r)] = "returned"
  /\ node' = start(node, i, j)
  /\ reader' = start(reader, "reading", "reading")
  /\ main' = start(main, "selecting", "selecting")
  /\ open' = start(open, TRUE, TRUE)
  /\ inbox' = start(inbox, <<>>, <<Msg("IWantLatest", 0)>>)
  /\ latest' = start(latest, 0, 0)
  /\ myLatest' = start(myLatest, Latest(i), 0)
  /\ UNCHANGED <<stored, published, msg, faults>>

-----------------------------------------------------------------------------
(* The reader goroutine *)

ReadMessage(t) ==
  /\ reader[t] = "reading"
  /\ open[t]
  /\ inbox[t] # <<>>
  /\ reader' = [reader EXCEPT ![t] = "handling"]
  /\ msg' = [msg EXCEPT ![t] = Head(inbox[t])]
  /\ inbox' = [inbox EXCEPT ![t] = Tail(inbox[t])]
  /\ UNCHANGED <<stored, published, node, main, open, latest, myLatest, faults>>

\* The read fails: this end is closed, or the peer closed its end and every
\* message it sent has been read.
ReadFails(t) ==
  /\ reader[t] = "reading"
  /\ open[t] => inbox[t] = <<>> /\ ~open[Other(t)]
  /\ reader' = [reader EXCEPT ![t] = "reporting"]
  /\ open' = [open EXCEPT ![t] = FALSE]
  /\ UNCHANGED <<stored, published, node, main, inbox, msg, latest, myLatest, faults>>

Handling(t, type) == reader[t] = "handling" /\ msg[t].type = type

ProcessWantLatest(t) ==
  LET a == Latest(node[t]) IN
  /\ Handling(t, "IWantLatest")
  /\ myLatest' = [myLatest EXCEPT ![t] = a]
  /\ inbox' = Send(t, Msg("IGotLatest", a))
  /\ reader' = [reader EXCEPT ![t] = AfterWrite(t)]
  /\ UNCHANGED <<stored, published, node, main, open, msg, latest, faults>>

\* The peer is ahead: ask for the next alert.
ProcessGotLatestBehind(t) ==
  LET a == Latest(node[t]) IN
  /\ Handling(t, "IGotLatest")
  /\ msg[t].seq > a
  /\ myLatest' = [myLatest EXCEPT ![t] = a]
  /\ latest' = [latest EXCEPT ![t] = msg[t].seq]
  /\ inbox' = Send(t, Msg("IWantSequenceNumber", a + 1))
  /\ reader' = [reader EXCEPT ![t] = AfterWrite(t)]
  /\ UNCHANGED <<stored, published, node, main, open, msg, faults>>

\* The peer has nothing new: latestSequence is only updated when it is level,
\* and the stream is closed when it is not above our own.
ProcessGotLatestLevel(t) ==
  LET a == Latest(node[t])
      known == IF msg[t].seq = a THEN a ELSE latest[t] IN
  /\ Handling(t, "IGotLatest")
  /\ msg[t].seq <= a
  /\ myLatest' = [myLatest EXCEPT ![t] = a]
  /\ latest' = [latest EXCEPT ![t] = known]
  /\ open' = [open EXCEPT ![t] = open[t] /\ a < known]
  /\ reader' = [reader EXCEPT ![t] = IF a >= known THEN "reporting" ELSE "reading"]
  /\ UNCHANGED <<stored, published, node, main, inbox, msg, faults>>

\* The alert is stored whatever is stored already; then either the sync is
\* complete and the stream is closed, or the next alert is requested.
ProcessGotSequenceNumber(t) ==
  /\ Handling(t, "IGotSequenceNumber")
  /\ Save(t)
  /\ myLatest' = [myLatest EXCEPT ![t] = msg[t].seq]
  /\ IF msg[t].seq = latest[t]
       THEN /\ open' = [open EXCEPT ![t] = FALSE]
            /\ reader' = [reader EXCEPT ![t] = "reporting"]
            /\ UNCHANGED inbox
       ELSE /\ inbox' = Send(t, Msg("IWantSequenceNumber", msg[t].seq + 1))
            /\ reader' = [reader EXCEPT ![t] = AfterWrite(t)]
            /\ UNCHANGED open
  /\ UNCHANGED <<published, node, main, msg, latest, faults>>

\* The requested alert is sent; after the last one this end is closed.
ProcessWantSequenceNumber(t) ==
  LET last == msg[t].seq = myLatest[t] IN
  /\ Handling(t, "IWantSequenceNumber")
  /\ msg[t].seq \in stored[node[t]]
  /\ inbox' = Send(t, Msg("IGotSequenceNumber", msg[t].seq))
  /\ open' = [open EXCEPT ![t] = open[t] /\ ~last]
  /\ reader' = [reader EXCEPT ![t] = IF last THEN "reporting" ELSE AfterWrite(t)]
  /\ UNCHANGED <<stored, published, node, main, msg, latest, myLatest, faults>>

\* The handler returns an error before it has stored or written anything: the
\* database fails, the alert is not valid for the active keys, cannot be read
\* or cannot be saved.
HandlerFails(t) ==
  /\ Fault
  /\ reader[t] = "handling"
  /\ reader' = [reader EXCEPT ![t] = "reporting"]
  /\ UNCHANGED <<stored, published, node, main, open, inbox, msg, latest, myLatest>>

-----------------------------------------------------------------------------
(* The caller: the select of ProcessSyncMessage, then stream.Close *)

Leave(t) ==
  /\ main[t] = "selecting"
  /\ main' = [main EXCEPT ![t] = "returned"]
  /\ open' = [open EXCEPT ![t] = FALSE]
  /\ UNCHANGED <<stored, published, node, inbox, msg, latest, myLatest>>

\* "done" is not buffered: the reader gets past it only while main selects.
Done(t) ==
  /\ reader[t] = "reporting"
  /\ Leave(t)
  /\ reader' = [reader EXCEPT ![t] = "ended"]
  /\ UNCHANGED faults

\* The quit signal or the timeout of a minute; the reader goes on by itself.
GiveUp(t) == Leave(t) /\ Fault /\ UNCHANGED reader

-----------------------------------------------------------------------------
(* The network, the publishers and the machines *)

\* The connection is lost with everything in transit.
Disconnect(s) ==
  /\ Fault
  /\ open[Client(s)] \/ open[Server(s)]
  /\ open' = [open EXCEPT ![Client(s)] = FALSE, ![Server(s)] = FALSE]
  /\ inbox' = [inbox EXCEPT ![Client(s)] = <<>>, ![Server(s)] = <<>>]
  /\ UNCHANGED <<stored, published, node, reader, main, msg, latest, myLatest>>

\* The process of node n dies and starts again; only its database survives.
Crash(n) ==
  LET of(f, v) == [t \in Threads |-> IF node[t] = n THEN v ELSE f[t]] IN
  /\ Fault
  /\ reader' = of(reader, "ended")
  /\ main' = of(main, "returned")
  /\ open' = of(open, FALSE)
  /\ inbox' = of(inbox, <<>>)
  /\ UNCHANGED <<stored, published, node, msg, latest, myLatest>>

\* The holders of the keys gossip an alert (hack/publish.go); they choose the
\* sequence number.
Publish(k) ==
  /\ k \notin published
  /\ published' = published \cup {k}
  /\ UNCHANGED <<stored, threadVars, faults>>

\* Subscribe: an alert is stored when the one before it is, it is not a
\* duplicate, and the error of the duplicate lookup is datastore.ErrNoResults.
\* Every other message is dropped.
Gossip(n, k) ==
  /\ k \in published
  /\ k - 1 \in stored[n]
  /\ k \notin stored[n]
  /\ NotFoundErr = "ErrNoResults"
  /\ stored' = [stored EXCEPT ![n] = @ \cup {k}]
  /\ UNCHANGED <<published, threadVars, faults>>

-----------------------------------------------------------------------------
ReaderStep(t) ==
  \/ ReadMessage(t)
  \/ ReadFails(t)
  \/ ProcessWantLatest(t)
  \/ ProcessGotLatestBehind(t)
  \/ ProcessGotLatestLevel(t)
  \/ ProcessGotSequenceNumber(t)
  \/ ProcessWantSequenceNumber(t)

Next ==
  \/ \E s \in Streams, i, j \in Nodes : OpenStream(s, i, j)
  \/ \E t \in Threads : ReaderStep(t) \/ HandlerFails(t) \/ Done(t) \/ GiveUp(t)
  \/ \E s \in Streams : Disconnect(s)
  \/ \E n \in Nodes : Crash(n)
  \/ \E k \in SeqNums : Publish(k)
  \/ \E n \in Nodes, k \in SeqNums : Gossip(n, k)

Spec == Init /\ [][Next]_vars

\* Goroutines that can run do run; discovery keeps finding every peer that
\* advertises the topic (RunPeerDiscovery repeats discoverPeers on a ticker).
\* Publishers, gossip and faults owe nothing.
Fairness ==
  /\ \A t \in Threads : WF_vars(ReaderStep(t)) /\ WF_vars(Done(t))
  /\ \A i, j \in Nodes : SF_vars(\E s \in Streams : OpenStream(s, i, j))

FairSpec == Spec /\ Fairness

-----------------------------------------------------------------------------
(* Properties *)

\* The table of every node is a prefix of the sequence of alerts: it holds
\* every alert up to its latest, so that "latest + 1" (thread.go:200 and 258)
\* never skips one, whatever races, faults and crashes there were.
GapFree == \A n \in Nodes : \E m \in SeqNums : stored[n] = 0 .. m

\* Nodes store only alerts that a publisher put in circulation: neither the
\* sync protocol nor gossip makes up a sequence number.
OnlyPublished == \A n \in Nodes : stored[n] \subseteq published

InTransit(t) == Len(inbox[t]) + IF reader[t] = "handling" THEN 1 ELSE 0

\* The protocol is half-duplex: on a stream at most one message is being
\* carried or handled, so a thread never handles an answer to a question that
\* it has not asked since its last one.
HalfDuplex ==
  \A s \in Streams : InTransit(Client(s)) + InTransit(Server(s)) <= 1

\* A server is asked only for alerts that it stores: ProcessWantSequenceNumber
\* never answers ErrAlertNotFound to a correct client.
RequestsServable ==
  \A t \in Threads :
    /\ \A i \in 1 .. Len(inbox[t]) :
         inbox[t][i].type = "IWantSequenceNumber" => inbox[t][i].seq \in stored[node[t]]
    /\ Handling(t, "IWantSequenceNumber") => msg[t].seq \in stored[node[t]]

\* The two ends of an open stream never both wait for the other one to
\* speak: a session ends without the timeout of one minute having to fire.
NoStandstill ==
  \A s \in Streams :
    ~ \A t \in {Client(s), Server(s)} : reader[t] = "reading" /\ open[t] /\ inbox[t] = <<>>

\* A session that ends without any fault has brought the client at least to
\* where the server was when it was asked for its latest alert.
CompleteSync ==
  \A s \in Streams :
    /\ faults = 0
    /\ main[Client(s)] = "returned"
    /\ reader[Client(s)] = "ended"
    => myLatest[Server(s)] \in stored[node[Client(s)]]

\* Refinement: seen from outside, the tables of the nodes are logs that grow
\* by the next alert in circulation and by nothing else.
Log == INSTANCE AlertLog WITH height <- [n \in Nodes |-> Latest(n)]
ImplementsAlertLog == Log!Spec

\* What one node stores every node eventually stores (README.md:118, a node
\* syncs up from its peers).
CatchUp ==
  \A i, j \in Nodes : \A k \in SeqNums :
    k \in stored[i] ~> k \in stored[j]

\* Every session ends, although no timeout is ever obliged to fire.
SessionsEnd ==
  \A t \in Threads : main[t] = "selecting" ~> main[t] = "returned"
=============================================================================
