--------------------------- MODULE PeerSync_proofs ---------------------------
(***************************************************************************)
(* Proofs about PeerSync for any network: the types, the gap-free table of *)
(* every node (the central promise of the protocol) and that nodes store   *)
(* only published alerts.                                                  *)
(*                                                                         *)
(* GapFree is not inductive: a handler stores whatever sequence number the *)
(* message carries.  It is preserved because every message that carries an *)
(* alert, and every request for one, is about a number whose predecessor   *)
(* the client already stores (MessagesOK), and tables only grow.           *)
(***************************************************************************)
EXTENDS PeerSync, TLAPS

\* A message that thread t may find in its inbox.
MessageOK(t, m) ==
  /\ m.type = "IGotSequenceNumber" =>
       m.seq \in published /\ m.seq - 1 \in stored[node[t]]
  /\ m.type = "IWantSequenceNumber" => m.seq - 1 \in stored[node[Other(t)]]

MessagesOK ==
  \A t \in Threads :
    /\ \A i \in 1 .. Len(inbox[t]) : MessageOK(t, inbox[t][i])
    /\ reader[t] = "handling" => MessageOK(t, msg[t])

IInv == TypeOK /\ GapFree /\ OnlyPublished /\ MessagesOK

-----------------------------------------------------------------------------
(* Lemmas about the operators *)

LEMMA OtherThread ==
  ASSUME NEW t \in Threads
  PROVE  Other(t) \in Threads /\ Other(Other(t)) = t /\ Other(t) # t
  BY DEF Threads, Ends, Other

LEMMA StreamThreads ==
  ASSUME NEW s \in Streams
  PROVE  Client(s) \in Threads /\ Server(s) \in Threads
  BY DEF Threads, Ends, Client, Server

LEMMA MaxOfInterval ==
  ASSUME NEW m \in Nat
  PROVE  Max(0 .. m) = m
<1>1. m \in 0 .. m /\ \A y \in 0 .. m : m >= y
  OBVIOUS
<1>2. \A x \in 0 .. m : (\A y \in 0 .. m : x >= y) => x = m
  OBVIOUS
<1> QED
  BY <1>1, <1>2 DEF Max

LEMMA LatestStored ==
  ASSUME TypeOK, GapFree, NEW n \in Nodes
  PROVE  Latest(n) \in stored[n] /\ Latest(n) \in Nat /\ Latest(n) <= MaxSeq
<1>1. PICK m \in SeqNums : stored[n] = 0 .. m
  BY DEF GapFree
<1>2. Latest(n) = m
  BY <1>1, MaxOfInterval, PeerSyncAssumption DEF Latest, SeqNums
<1> QED
  BY <1>1, <1>2, PeerSyncAssumption DEF SeqNums

\* Sending adds at most the message, at the end of the peer's inbox.
LEMMA SendAdds ==
  ASSUME TypeOK, NEW t \in Threads, NEW m \in SyncMessage
  PROVE  /\ Send(t, m) \in [Threads -> Seq(SyncMessage)]
         /\ \A u \in Threads : \A i \in 1 .. Len(Send(t, m)[u]) :
              \/ i \in 1 .. Len(inbox[u]) /\ Send(t, m)[u][i] = inbox[u][i]
              \/ u = Other(t) /\ Send(t, m)[u][i] = m
<1>1. inbox \in [Threads -> Seq(SyncMessage)] /\ Other(t) \in Threads
  BY OtherThread DEF TypeOK
<1>2. CASE open[t] /\ open[Other(t)]
  <2>1. Send(t, m) = [inbox EXCEPT ![Other(t)] = Append(@, m)]
    BY <1>2 DEF Send
  <2>2. Append(inbox[Other(t)], m) \in Seq(SyncMessage)
    BY <1>1
  <2>3. \A i \in 1 .. Len(Append(inbox[Other(t)], m)) :
          \/ /\ i \in 1 .. Len(inbox[Other(t)])
             /\ Append(inbox[Other(t)], m)[i] = inbox[Other(t)][i]
          \/ Append(inbox[Other(t)], m)[i] = m
    BY <1>1
  <2> QED
    BY <1>1, <2>1, <2>2, <2>3
<1>3. CASE ~(open[t] /\ open[Other(t)])
  BY <1>1, <1>3 DEF Send
<1> QED
  BY <1>2, <1>3

\* A table that gains the successor of an alert it holds stays gap-free.
LEMMA StoreNext ==
  ASSUME TypeOK, GapFree, NEW n \in Nodes, NEW k \in SeqNums, k - 1 \in stored[n],
         stored' = [stored EXCEPT ![n] = @ \cup {k}]
  PROVE  GapFree'
<1>1. PICK m \in SeqNums : stored[n] = 0 .. m
  BY DEF GapFree
<1>2. m \in Nat /\ k \in Nat /\ k <= m + 1
  BY <1>1, PeerSyncAssumption DEF SeqNums
<1>3. (0 .. m) \cup {k} = IF k <= m THEN 0 .. m ELSE 0 .. k
  BY <1>2
<1>4. \E top \in SeqNums : stored'[n] = 0 .. top
  BY <1>1, <1>3 DEF TypeOK
<1>5. \A other \in Nodes \ {n} : stored'[other] = stored[other]
  BY DEF TypeOK
<1> QED
  BY <1>4, <1>5 DEF GapFree

\* Messages stay right while tables and circulation grow, when every message
\* after the step was there before it or is right after it.
LEMMA MessagesKept ==
  ASSUME TypeOK, MessagesOK, node' = node,
         published \subseteq published',
         \A n \in Nodes : stored[n] \subseteq stored'[n],
         \A t \in Threads : \A i \in 1 .. Len(inbox'[t]) :
           \/ \E j \in 1 .. Len(inbox[t]) : inbox'[t][i] = inbox[t][j]
           \/ MessageOK(t, inbox[t][i])',
         \A t \in Threads : reader'[t] = "handling" =>
           \/ reader[t] = "handling" /\ msg'[t] = msg[t]
           \/ \E j \in 1 .. Len(inbox[t]) : msg'[t] = inbox[t][j]
  PROVE  MessagesOK'
<1>1. ASSUME NEW t \in Threads, NEW i \in 1 .. Len(inbox'[t])
      PROVE  MessageOK(t, inbox[t][i])'
  <2>1. CASE MessageOK(t, inbox[t][i])'
    BY <2>1
  <2>2. CASE \E j \in 1 .. Len(inbox[t]) : inbox'[t][i] = inbox[t][j]
    <3>1. PICK j \in 1 .. Len(inbox[t]) : inbox'[t][i] = inbox[t][j]
      BY <2>2
    <3>2. MessageOK(t, inbox[t][j])
      BY <3>1 DEF MessagesOK
    <3> QED
      BY <3>1, <3>2, OtherThread DEF MessageOK, TypeOK
  <2> QED
    BY <1>1, <2>1, <2>2
<1>2. ASSUME NEW t \in Threads, reader'[t] = "handling"
      PROVE  MessageOK(t, msg[t])'
  <2>1. MessageOK(t, msg'[t])
    BY <1>2 DEF MessagesOK
  <2> QED
    BY <2>1, OtherThread DEF MessageOK, TypeOK
<1> QED
  BY <1>1, <1>2 DEF MessagesOK

-----------------------------------------------------------------------------
(* The invariant holds initially and every step preserves it *)

LEMMA InitIInv == Init => IInv
<1> SUFFICES ASSUME Init PROVE IInv
  OBVIOUS
<1>1. PICK height \in [Nodes -> SeqNums] : stored = [n \in Nodes |-> 0 .. height[n]]
  BY DEF Init
<1>2. \A n \in Nodes : height[n] \in SeqNums /\ stored[n] = 0 .. height[n]
  BY <1>1
<1>3. stored \in [Nodes -> SUBSET SeqNums]
  BY <1>1, <1>2, PeerSyncAssumption DEF SeqNums
<1>4. published \in SUBSET SeqNums /\ OnlyPublished
  BY <1>3 DEF Init, OnlyPublished
<1>5. GapFree
  BY <1>2 DEF GapFree
<1>6. TypeOK
  BY <1>3, <1>4, PeerSyncAssumption
     DEF Init, TypeOK, ReaderStates, MainStates, SyncMessage, MessageTypes, Msg
<1>7. MessagesOK
  BY DEF Init, MessagesOK
<1> QED
  BY <1>4, <1>5, <1>6, <1>7 DEF IInv

\* Steps that change neither a table nor the circulation.
LEMMA TablesKept ==
  ASSUME GapFree, OnlyPublished, stored' = stored, published' = published
  PROVE  GapFree' /\ OnlyPublished'
  BY DEF GapFree, OnlyPublished

LEMMA OpenStreamStep ==
  ASSUME IInv, NEW s \in Streams, NEW i \in Nodes, NEW j \in Nodes, OpenStream(s, i, j)
  PROVE  IInv'
<1> USE StreamThreads DEF IInv
<1>1. Msg("IWantLatest", 0) \in SyncMessage
  BY DEF Msg, SyncMessage, MessageTypes
<1>2. /\ <<Msg("IWantLatest", 0)>> \in Seq(SyncMessage)
      /\ <<>> \in Seq(SyncMessage)
      /\ Latest(i) \in Nat
  BY <1>1, LatestStored
<1>3. TypeOK'
  BY <1>2 DEF TypeOK, OpenStream, ReaderStates, MainStates
<1>4. GapFree' /\ OnlyPublished'
  BY TablesKept DEF OpenStream
<1>5. MessagesOK'
  <2>1. ASSUME NEW t \in Threads, t[1] # s
        PROVE  /\ inbox'[t] = inbox[t] /\ reader'[t] = reader[t] /\ msg'[t] = msg[t]
               /\ node'[t] = node[t] /\ node'[Other(t)] = node[Other(t)]
    BY <2>1, OtherThread DEF OpenStream, TypeOK, Client, Server, Other
  <2>2. ASSUME NEW t \in Threads, t[1] = s
        PROVE  /\ reader'[t] = "reading"
               /\ inbox'[t] = <<>> \/ inbox'[t] = <<Msg("IWantLatest", 0)>>
    <3>1. t = Client(s) \/ t = Server(s)
      BY <2>2 DEF Client, Server, Threads, Ends
    <3>2. Client(s) # Server(s)
      BY DEF Client, Server
    <3> QED
      BY <3>1, <3>2 DEF OpenStream, TypeOK
  <2>3. ASSUME NEW t \in Threads, t[1] = s
        PROVE  \A k \in 1 .. Len(inbox'[t]) : MessageOK(t, inbox[t][k])'
    BY <2>2, <2>3 DEF MessageOK, Msg
  <2>4. ASSUME NEW t \in Threads, t[1] # s
        PROVE  /\ \A k \in 1 .. Len(inbox'[t]) : MessageOK(t, inbox[t][k])'
               /\ reader'[t] = "handling" => MessageOK(t, msg[t])'
    <3>1. stored' = stored /\ published' = published
      BY DEF OpenStream
    <3>2. ASSUME NEW k \in 1 .. Len(inbox'[t])
          PROVE  MessageOK(t, inbox[t][k])'
      <4>1. MessageOK(t, inbox[t][k])
        BY <2>1, <2>4, <3>2 DEF MessagesOK
      <4> QED
        BY <2>1, <2>4, <3>1, <4>1 DEF MessageOK
    <3>3. ASSUME reader'[t] = "handling" PROVE MessageOK(t, msg[t])'
      <4>1. MessageOK(t, msg[t])
        BY <2>1, <2>4, <3>3 DEF MessagesOK
      <4> QED
        BY <2>1, <2>4, <3>1, <4>1 DEF MessageOK
    <3> QED
      BY <3>2, <3>3
  <2> QED
    BY <2>2, <2>3, <2>4 DEF MessagesOK
<1> QED
  BY <1>3, <1>4, <1>5

LEMMA ReadMessageStep ==
  ASSUME IInv, NEW t \in Threads, ReadMessage(t)
  PROVE  IInv'
<1> USE DEF IInv
<1>1. inbox[t] \in Seq(SyncMessage) /\ inbox[t] # <<>>
  BY DEF ReadMessage, TypeOK
<1>2. /\ Head(inbox[t]) = inbox[t][1] /\ 1 \in 1 .. Len(inbox[t])
      /\ Head(inbox[t]) \in SyncMessage
      /\ Tail(inbox[t]) \in Seq(SyncMessage)
      /\ \A i \in 1 .. Len(Tail(inbox[t])) :
           i + 1 \in 1 .. Len(inbox[t]) /\ Tail(inbox[t])[i] = inbox[t][i + 1]
  BY <1>1
<1>3. TypeOK'
  BY <1>2 DEF TypeOK, ReadMessage, ReaderStates
<1>4. GapFree' /\ OnlyPublished'
  BY TablesKept DEF ReadMessage
<1>5. \A u \in Threads : \A i \in 1 .. Len(inbox'[u]) :
        \E j \in 1 .. Len(inbox[u]) : inbox'[u][i] = inbox[u][j]
  <2>1. ASSUME NEW u \in Threads, u # t, NEW i \in 1 .. Len(inbox'[u])
        PROVE  \E j \in 1 .. Len(inbox[u]) : inbox'[u][i] = inbox[u][j]
    BY <2>1 DEF ReadMessage, TypeOK
  <2>2. inbox'[t] = Tail(inbox[t])
    BY DEF ReadMessage, TypeOK
  <2>3. \A i \in 1 .. Len(inbox'[t]) : \E j \in 1 .. Len(inbox[t]) : inbox'[t][i] = inbox[t][j]
    BY <1>2, <2>2
  <2> QED
    BY <2>1, <2>3
<1>6. \A u \in Threads : reader'[u] = "handling" =>
        \/ reader[u] = "handling" /\ msg'[u] = msg[u]
        \/ \E j \in 1 .. Len(inbox[u]) : msg'[u] = inbox[u][j]
  BY <1>2 DEF ReadMessage, TypeOK
<1>7. MessagesOK'
  BY <1>5, <1>6, MessagesKept DEF ReadMessage
<1> QED
  BY <1>3, <1>4, <1>7

\* Handlers that write a message m and change no table.
LEMMA AnswerStep ==
  ASSUME IInv, NEW t \in Threads, NEW m \in SyncMessage, MessageOK(Other(t), m),
         inbox' = Send(t, m), TypeOK',
         reader' \in [Threads -> ReaderStates],
         \A u \in Threads : reader'[u] = "handling" => reader[u] = "handling",
         UNCHANGED <<stored, published, node, msg>>
  PROVE  IInv'
<1> USE DEF IInv
<1>1. GapFree' /\ OnlyPublished'
  BY TablesKept
<1>2. ASSUME NEW u \in Threads, NEW i \in 1 .. Len(inbox'[u])
      PROVE  \/ \E j \in 1 .. Len(inbox[u]) : inbox'[u][i] = inbox[u][j]
             \/ MessageOK(u, inbox[u][i])'
  <2>1. CASE i \in 1 .. Len(inbox[u]) /\ Send(t, m)[u][i] = inbox[u][i]
    BY <2>1
  <2>2. CASE u = Other(t) /\ Send(t, m)[u][i] = m
    BY <2>2 DEF MessageOK
  <2> QED
    BY <1>2, <2>1, <2>2, SendAdds
<1>3. MessagesOK'
  BY <1>2, MessagesKept
<1> QED
  BY <1>1, <1>3

LEMMA WantLatestStep ==
  ASSUME IInv, NEW t \in Threads, ProcessWantLatest(t)
  PROVE  IInv'
<1> DEFINE a == Latest(node[t])
           m == Msg("IGotLatest", a)
<1> USE DEF IInv
<1>1. a \in Nat
  BY LatestStored DEF TypeOK
<1>2. m \in SyncMessage /\ MessageOK(Other(t), m)
  BY <1>1 DEF Msg, SyncMessage, MessageTypes, MessageOK
<1>3. TypeOK'
  BY <1>1, <1>2, SendAdds DEF TypeOK, ProcessWantLatest, AfterWrite, ReaderStates
<1>4. \A u \in Threads : reader'[u] = "handling" => reader[u] = "handling"
  BY DEF ProcessWantLatest, AfterWrite, TypeOK
<1> QED
  BY <1>2, <1>3, <1>4, AnswerStep DEF ProcessWantLatest, TypeOK

LEMMA GotLatestBehindStep ==
  ASSUME IInv, NEW t \in Threads, ProcessGotLatestBehind(t)
  PROVE  IInv'
<1> DEFINE a == Latest(node[t])
           m == Msg("IWantSequenceNumber", a + 1)
<1> USE DEF IInv
<1>1. a \in Nat /\ a \in stored[node[t]]
  BY LatestStored DEF TypeOK
<1>2. m \in SyncMessage /\ MessageOK(Other(t), m)
  BY <1>1, OtherThread DEF Msg, SyncMessage, MessageTypes, MessageOK
<1>3. TypeOK'
  BY <1>1, <1>2, SendAdds
     DEF TypeOK, ProcessGotLatestBehind, AfterWrite, ReaderStates, SyncMessage
<1>4. \A u \in Threads : reader'[u] = "handling" => reader[u] = "handling"
  BY DEF ProcessGotLatestBehind, AfterWrite, TypeOK
<1> QED
  BY <1>2, <1>3, <1>4, AnswerStep DEF ProcessGotLatestBehind, TypeOK

LEMMA WantSequenceNumberStep ==
  ASSUME IInv, NEW t \in Threads, ProcessWantSequenceNumber(t)
  PROVE  IInv'
<1> DEFINE m == Msg("IGotSequenceNumber", msg[t].seq)
<1> USE DEF IInv
<1>1. msg[t].seq \in Nat /\ msg[t].seq \in published
  BY DEF TypeOK, SyncMessage, ProcessWantSequenceNumber, OnlyPublished
<1>2. msg[t].seq - 1 \in stored[node[Other(t)]]
  BY DEF MessagesOK, MessageOK, ProcessWantSequenceNumber, Handling
<1>3. m \in SyncMessage /\ MessageOK(Other(t), m)
  BY <1>1, <1>2, OtherThread DEF Msg, SyncMessage, MessageTypes, MessageOK
<1>4. TypeOK'
  BY <1>3, SendAdds DEF TypeOK, ProcessWantSequenceNumber, AfterWrite, ReaderStates
<1>5. \A u \in Threads : reader'[u] = "handling" => reader[u] = "handling"
  BY DEF ProcessWantSequenceNumber, AfterWrite, TypeOK
<1> QED
  BY <1>3, <1>4, <1>5, AnswerStep DEF ProcessWantSequenceNumber, TypeOK

LEMMA GotSequenceNumberStep ==
  ASSUME IInv, NEW t \in Threads, ProcessGotSequenceNumber(t)
  PROVE  IInv'
<1> DEFINE k == msg[t].seq
           m == Msg("IWantSequenceNumber", k + 1)
<1> USE DEF IInv
<1>1. k \in published /\ k \in SeqNums /\ k \in Nat /\ k - 1 \in stored[node[t]]
  BY PeerSyncAssumption
     DEF MessagesOK, MessageOK, ProcessGotSequenceNumber, Save, Handling, TypeOK, SyncMessage, SeqNums
<1>2. /\ node[t] \in Nodes
      /\ stored' = [stored EXCEPT ![node[t]] = @ \cup {k}]
      /\ published' = published /\ node' = node /\ msg' = msg
  BY DEF ProcessGotSequenceNumber, Save, TypeOK
<1>3. GapFree'
  BY <1>1, <1>2, StoreNext
<1>4. OnlyPublished' /\ \A n \in Nodes : stored[n] \subseteq stored'[n]
  BY <1>1, <1>2 DEF OnlyPublished, TypeOK
<1>5. m \in SyncMessage
  BY <1>1 DEF Msg, SyncMessage, MessageTypes
<1>6. inbox' = inbox \/ inbox' = Send(t, m)
  BY DEF ProcessGotSequenceNumber, Save
<1>7. TypeOK'
  <2>1. inbox' \in [Threads -> Seq(SyncMessage)]
    BY <1>5, <1>6, SendAdds DEF TypeOK
  <2>2. reader' \in [Threads -> ReaderStates] /\ open' \in [Threads -> BOOLEAN]
    BY DEF ProcessGotSequenceNumber, Save, TypeOK, AfterWrite, ReaderStates
  <2> QED
    BY <1>1, <1>2, <2>1, <2>2 DEF ProcessGotSequenceNumber, Save, TypeOK
<1>8. MessageOK(Other(t), m)'
  BY <1>1, <1>2, OtherThread DEF MessageOK, Msg, TypeOK
<1>8a. \A u \in Threads : \A i \in 1 .. Len(Send(t, m)[u]) :
         \/ i \in 1 .. Len(inbox[u]) /\ Send(t, m)[u][i] = inbox[u][i]
         \/ u = Other(t) /\ Send(t, m)[u][i] = m
  <2>1. TypeOK
    OBVIOUS
  <2> QED
    BY <1>5, <2>1, SendAdds
<1>9. ASSUME NEW u \in Threads, NEW i \in 1 .. Len(inbox'[u])
      PROVE  \/ \E j \in 1 .. Len(inbox[u]) : inbox'[u][i] = inbox[u][j]
             \/ MessageOK(u, inbox[u][i])'
  <2>1. CASE i \in 1 .. Len(inbox[u]) /\ inbox'[u][i] = inbox[u][i]
    BY <2>1
  <2>2. CASE u = Other(t) /\ inbox'[u][i] = m
    <3>1. m' = m
      BY <1>2
    <3>2. MessageOK(u, m)'
      BY <1>8, <2>2, <3>1
    <3> QED
      BY <2>2, <3>1, <3>2
  <2>3. CASE inbox' = inbox
    BY <1>9, <2>1, <2>3
  <2>4. CASE inbox' = Send(t, m)
    <3>1. \/ i \in 1 .. Len(inbox[u]) /\ Send(t, m)[u][i] = inbox[u][i]
          \/ u = Other(t) /\ Send(t, m)[u][i] = m
      <4>1. i \in 1 .. Len(Send(t, m)[u])
        BY <1>9, <2>4
      <4> QED
        BY <1>8a, <4>1
    <3> QED
      BY <2>1, <2>2, <2>4, <3>1
  <2> QED
    BY <1>6, <2>3, <2>4
<1>10. \A u \in Threads : reader'[u] = "handling" => reader[u] = "handling"
  BY DEF ProcessGotSequenceNumber, Save, AfterWrite, TypeOK
<1>11. MessagesOK'
  BY <1>2, <1>4, <1>9, <1>10, MessagesKept
<1> QED
  BY <1>3, <1>4, <1>7, <1>11

\* Steps that change no table and at most drop messages.
LEMMA QuietStep ==
  ASSUME IInv, TypeOK',
         \A t \in Threads : inbox'[t] = inbox[t] \/ inbox'[t] = <<>>,
         \A t \in Threads : reader'[t] = "handling" => reader[t] = "handling",
         UNCHANGED <<stored, published, node, msg>>
  PROVE  IInv'
<1> USE DEF IInv
<1>1. GapFree' /\ OnlyPublished'
  BY TablesKept
<1>2. MessagesOK'
  BY MessagesKept
<1> QED
  BY <1>1, <1>2

LEMMA ReadFailsStep ==
  ASSUME IInv, NEW t \in Threads, ReadFails(t)
  PROVE  IInv'
<1>1. TypeOK'
  BY DEF IInv, TypeOK, ReadFails, ReaderStates
<1>2. \A u \in Threads : reader'[u] = "handling" => reader[u] = "handling"
  BY DEF IInv, TypeOK, ReadFails
<1> QED
  BY <1>1, <1>2, QuietStep DEF ReadFails

LEMMA GotLatestLevelStep ==
  ASSUME IInv, NEW t \in Threads, ProcessGotLatestLevel(t)
  PROVE  IInv'
<1>1. Latest(node[t]) \in Nat
  BY LatestStored DEF IInv, TypeOK
<1>2. TypeOK'
  BY <1>1 DEF IInv, TypeOK, ProcessGotLatestLevel, ReaderStates
<1>3. \A u \in Threads : reader'[u] = "handling" => reader[u] = "handling"
  BY DEF IInv, TypeOK, ProcessGotLatestLevel
<1> QED
  BY <1>2, <1>3, QuietStep DEF ProcessGotLatestLevel

LEMMA FaultType ==
  ASSUME TypeOK, Fault
  PROVE  faults' \in 0 .. MaxFaults
  BY PeerSyncAssumption DEF TypeOK, Fault

LEMMA HandlerFailsStep ==
  ASSUME IInv, NEW t \in Threads, HandlerFails(t)
  PROVE  IInv'
<1>1. TypeOK'
  BY FaultType DEF IInv, TypeOK, HandlerFails, ReaderStates
<1>2. \A u \in Threads : reader'[u] = "handling" => reader[u] = "handling"
  BY DEF IInv, TypeOK, HandlerFails
<1> QED
  BY <1>1, <1>2, QuietStep DEF HandlerFails

LEMMA DoneStep ==
  ASSUME IInv, NEW t \in Threads, Done(t)
  PROVE  IInv'
<1>1. TypeOK'
  BY DEF IInv, TypeOK, Done, Leave, ReaderStates, MainStates
<1>2. \A u \in Threads : reader'[u] = "handling" => reader[u] = "handling"
  BY DEF IInv, TypeOK, Done
<1> QED
  BY <1>1, <1>2, QuietStep DEF Done, Leave

LEMMA GiveUpStep ==
  ASSUME IInv, NEW t \in Threads, GiveUp(t)
  PROVE  IInv'
<1>1. TypeOK'
  BY FaultType DEF IInv, TypeOK, GiveUp, Leave, MainStates
<1> QED
  BY <1>1, QuietStep DEF GiveUp, Leave

LEMMA DisconnectStep ==
  ASSUME IInv, NEW s \in Streams, Disconnect(s)
  PROVE  IInv'
<1>1. Client(s) \in Threads /\ Server(s) \in Threads /\ <<>> \in Seq(SyncMessage)
  BY StreamThreads
<1>2. TypeOK'
  BY <1>1, FaultType DEF IInv, TypeOK, Disconnect
<1>3. \A t \in Threads : inbox'[t] = inbox[t] \/ inbox'[t] = <<>>
  BY <1>1 DEF IInv, TypeOK, Disconnect
<1> QED
  BY <1>2, <1>3, QuietStep DEF Disconnect

LEMMA CrashStep ==
  ASSUME IInv, NEW n \in Nodes, Crash(n)
  PROVE  IInv'
<1>1. <<>> \in Seq(SyncMessage)
  OBVIOUS
<1>2. TypeOK'
  BY <1>1, FaultType DEF IInv, TypeOK, Crash, ReaderStates, MainStates
<1>3. /\ \A t \in Threads : inbox'[t] = inbox[t] \/ inbox'[t] = <<>>
      /\ \A t \in Threads : reader'[t] = "handling" => reader[t] = "handling"
  BY DEF IInv, TypeOK, Crash
<1> QED
  BY <1>2, <1>3, QuietStep DEF Crash

LEMMA PublishStep ==
  ASSUME IInv, NEW k \in SeqNums, Publish(k)
  PROVE  IInv'
<1>1. TypeOK'
  BY DEF IInv, TypeOK, Publish, threadVars
<1>2. GapFree' /\ OnlyPublished'
  BY DEF IInv, GapFree, OnlyPublished, Publish
<1>3. MessagesOK'
  BY MessagesKept DEF IInv, Publish, threadVars
<1> QED
  BY <1>1, <1>2, <1>3 DEF IInv

LEMMA GossipStep ==
  ASSUME IInv, NEW n \in Nodes, NEW k \in SeqNums, Gossip(n, k)
  PROVE  IInv'
<1>1. stored' = [stored EXCEPT ![n] = @ \cup {k}] /\ published' = published
  BY DEF Gossip
<1>2. TypeOK'
  BY <1>1 DEF IInv, TypeOK, Gossip, threadVars
<1>3. GapFree'
  BY <1>1, StoreNext DEF IInv, Gossip
<1>4. OnlyPublished' /\ \A i \in Nodes : stored[i] \subseteq stored'[i]
  BY <1>1 DEF IInv, OnlyPublished, TypeOK, Gossip
<1>5. MessagesOK'
  BY <1>1, <1>4, MessagesKept DEF IInv, Gossip, threadVars
<1> QED
  BY <1>2, <1>3, <1>4, <1>5 DEF IInv

LEMMA NextIInv == IInv /\ [Next]_vars => IInv'
<1> SUFFICES ASSUME IInv, [Next]_vars PROVE IInv'
  OBVIOUS
<1>1. ASSUME NEW s \in Streams, NEW i \in Nodes, NEW j \in Nodes, OpenStream(s, i, j)
      PROVE  IInv'
  BY <1>1, OpenStreamStep
<1>2. ASSUME NEW t \in Threads, ReaderStep(t) PROVE IInv'
  BY <1>2, ReadMessageStep, ReadFailsStep, WantLatestStep, GotLatestBehindStep,
     GotLatestLevelStep, GotSequenceNumberStep, WantSequenceNumberStep DEF ReaderStep
<1>3. ASSUME NEW t \in Threads, HandlerFails(t) \/ Done(t) \/ GiveUp(t) PROVE IInv'
  BY <1>3, HandlerFailsStep, DoneStep, GiveUpStep
<1>4. ASSUME NEW s \in Streams, Disconnect(s) PROVE IInv'
  BY <1>4, DisconnectStep
<1>5. ASSUME NEW n \in Nodes, Crash(n) PROVE IInv'
  BY <1>5, CrashStep
<1>6. ASSUME NEW k \in SeqNums, Publish(k) PROVE IInv'
  BY <1>6, PublishStep
<1>7. ASSUME NEW n \in Nodes, NEW k \in SeqNums, Gossip(n, k) PROVE IInv'
  BY <1>7, GossipStep
<1>8. CASE UNCHANGED vars
  <2>1. TypeOK'
    BY <1>8 DEF vars, threadVars, IInv, TypeOK
  <2> QED
    BY <1>8, <2>1, QuietStep DEF vars, threadVars
<1> QED
  BY <1>1, <1>2, <1>3, <1>4, <1>5, <1>6, <1>7, <1>8 DEF Next

LEMMA IInvHolds == Spec => []IInv
  BY InitIInv, NextIInv, PTL DEF Spec

-----------------------------------------------------------------------------
(* The theorems *)

\* The variables keep their types: in particular no handler ever stores a
\* sequence number that nobody could have published.
THEOREM TypeCorrect == Spec => []TypeOK
<1>1. IInv => TypeOK
  BY DEF IInv
<1> QED
  BY <1>1, IInvHolds, PTL

\* The table of every node is gap-free (thread.go:200, 258; server.go:522-529),
\* for any number of nodes and streams, any alerts published in any order and
\* any number of timeouts, lost connections, failures and crashes.
THEOREM GapFreeTables == Spec => []GapFree
<1>1. IInv => GapFree
  BY DEF IInv
<1> QED
  BY <1>1, IInvHolds, PTL

\* Nodes store only published alerts.
THEOREM StoredWasPublished == Spec => []OnlyPublished
<1>1. IInv => OnlyPublished
  BY DEF IInv
<1> QED
  BY <1>1, IInvHolds, PTL

-----------------------------------------------------------------------------
(* Refinement: PeerSync implements AlertLog *)

LEMMA InitRefines == Init => Log!Init
<1> SUFFICES ASSUME Init PROVE Log!Init
  OBVIOUS
<1>1. PICK height \in [Nodes -> SeqNums] : stored = [n \in Nodes |-> 0 .. height[n]]
  BY DEF Init
<1>2. ASSUME NEW n \in Nodes PROVE Latest(n) = height[n] /\ stored[n] = 0 .. height[n]
  BY <1>1, <1>2, MaxOfInterval, PeerSyncAssumption DEF Latest, SeqNums
<1>3. [n \in Nodes |-> Latest(n)] = height
  BY <1>1, <1>2
<1>4. published \in SUBSET SeqNums /\ \A n \in Nodes : stored[n] \subseteq published
  BY InitIInv DEF IInv, TypeOK, OnlyPublished
<1> QED
  BY <1>2, <1>3, <1>4 DEF Log!Init, Log!SeqNums, SeqNums

\* Storing an alert whose predecessor is stored appends to the log, or finds
\* the alert there.
LEMMA StoreRefines ==
  ASSUME IInv, NEW n \in Nodes, NEW k \in SeqNums, k \in published, k - 1 \in stored[n],
         stored' = [stored EXCEPT ![n] = @ \cup {k}], published' = published
  PROVE  [Log!Append(n)]_(Log!vars)
<1>1. PICK m \in SeqNums : stored[n] = 0 .. m
  BY DEF IInv, GapFree
<1>2. m \in Nat /\ k \in Nat /\ k <= m + 1
  BY <1>1, PeerSyncAssumption DEF SeqNums
<1>3. CASE k <= m
  <2>1. stored' = stored
    BY <1>1, <1>2, <1>3 DEF IInv, TypeOK
  <2> QED
    BY <2>1 DEF Log!vars, Latest
<1>4. CASE k = m + 1
  <2>1. stored'[n] = 0 .. k /\ \A i \in Nodes \ {n} : stored'[i] = stored[i]
    BY <1>1, <1>2, <1>4 DEF IInv, TypeOK
  <2>2. Latest(n) = m /\ Latest(n)' = k
    BY <1>1, <1>2, <2>1, MaxOfInterval DEF Latest
  <2>3. \A i \in Nodes \ {n} : Latest(i)' = Latest(i)
    BY <2>1 DEF Latest
  <2>4. [i \in Nodes |-> Latest(i)]' = [[i \in Nodes |-> Latest(i)] EXCEPT ![n] = @ + 1]
    BY <1>4, <2>2, <2>3
  <2> QED
    BY <1>4, <2>2, <2>4 DEF Log!Append
<1> QED
  BY <1>2, <1>3, <1>4

LEMMA NextRefines == IInv /\ [Next]_vars => [Log!Next]_(Log!vars)
<1> SUFFICES ASSUME IInv, [Next]_vars PROVE [Log!Next]_(Log!vars)
  OBVIOUS
<1>1. CASE stored' = stored /\ published' = published
  BY <1>1 DEF Log!vars, Latest
<1>2. ASSUME NEW k \in SeqNums, Publish(k) PROVE Log!Publish(k)
  BY <1>2 DEF Publish, Log!Publish, Latest
<1>3. ASSUME NEW n \in Nodes, NEW k \in SeqNums, Gossip(n, k)
      PROVE  [Log!Append(n)]_(Log!vars)
  BY <1>3, StoreRefines DEF Gossip
<1>4. ASSUME NEW t \in Threads, ProcessGotSequenceNumber(t)
      PROVE  [Log!Append(node[t])]_(Log!vars)
  <2>1. msg[t].seq \in published /\ msg[t].seq - 1 \in stored[node[t]]
    BY <1>4 DEF IInv, MessagesOK, MessageOK, ProcessGotSequenceNumber, Save, Handling
  <2> QED
    BY <1>4, <2>1, StoreRefines DEF IInv, TypeOK, ProcessGotSequenceNumber, Save
<1>5. \/ stored' = stored /\ published' = published
      \/ \E k \in SeqNums : Publish(k)
      \/ \E n \in Nodes, k \in SeqNums : Gossip(n, k)
      \/ \E t \in Threads : ProcessGotSequenceNumber(t)
  BY DEF Next, vars, ReaderStep, OpenStream, ReadMessage, ReadFails, ProcessWantLatest,
         ProcessGotLatestBehind, ProcessGotLatestLevel, ProcessWantSequenceNumber,
         HandlerFails, Done, GiveUp, Leave, Disconnect, Crash
<1>6. \A t \in Threads : node[t] \in Nodes
  BY DEF IInv, TypeOK
<1> QED
  BY <1>1, <1>2, <1>3, <1>4, <1>5, <1>6 DEF Log!Next, Log!SeqNums, SeqNums

\* The tables of all nodes, seen through their latest sequence numbers, behave
\* as the logs of AlertLog: whatever happens on streams and in processes, a
\* node only ever moves to the next published alert, and never back.
THEOREM LogRefinement == Spec => ImplementsAlertLog
  BY InitRefines, NextRefines, IInvHolds, PTL DEF Spec, ImplementsAlertLog, Log!Spec
=============================================================================
