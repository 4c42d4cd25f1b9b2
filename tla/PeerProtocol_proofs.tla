------------------------ MODULE PeerProtocol_proofs ------------------------
(***************************************************************************)
(* Proofs about the conversation on a stream of PeerSync, for any network: *)
(* at most one message is under way, a server is asked only for alerts     *)
(* that it stores, the two ends never wait for one another, a session      *)
(* without a fault brings the client level with the server, and a session  *)
(* takes a bounded number of steps.                                        *)
(*                                                                         *)
(* None of these is inductive but the first.  Together they follow from    *)
(* what the message under way says about latestSequence of the client and  *)
(* myLatestSequence of the server (Conversation), which is the only place  *)
(* where the two ends are compared.                                        *)
(***************************************************************************)
EXTENDS PeerSync_proofs, SequenceTheorems

\* The reader still takes part in the conversation.
Active(t) == reader[t] \in {"reading", "handling"}

\* Nothing is under way to t; one message is; that message.
Silent(t) == inbox[t] = <<>> /\ reader[t] # "handling"
Holds(t) ==
  \/ Len(inbox[t]) = 1 /\ reader[t] # "handling"
  \/ inbox[t] = <<>> /\ reader[t] = "handling"
Held(t) == IF reader[t] = "handling" THEN msg[t] ELSE inbox[t][1]
HoldsType(t, type) == Holds(t) /\ Held(t).type = type

\* Below, c is the client thread of a stream and v its server thread.
OneSpeaks(c, v) ==
  \/ Silent(c) /\ Silent(v)
  \/ Holds(c) /\ Silent(v)
  \/ Silent(c) /\ Holds(v)

\* The client has no goal until it learns the latest alert of the server; from
\* then on its goal is that alert, and no request or answer is above it.
Conversation(c, v) ==
  /\ Holds(c) => Held(c).type \in {"IGotLatest", "IGotSequenceNumber"}
  /\ Holds(v) => Held(v).type \in {"IWantLatest", "IWantSequenceNumber"}
  /\ HoldsType(v, "IWantLatest") => latest[c] = 0
  /\ HoldsType(c, "IGotLatest") => latest[c] = 0 /\ Held(c).seq = myLatest[v]
  /\ HoldsType(v, "IWantSequenceNumber") =>
       Held(v).seq <= latest[c] /\ latest[c] = myLatest[v]
  /\ HoldsType(c, "IGotSequenceNumber") =>
       Held(c).seq <= latest[c] /\ latest[c] = myLatest[v]

\* The server stores what it has announced, and what the client aims at.
Announced(c, v) ==
  /\ myLatest[v] \in stored[node[v]]
  /\ latest[c] \in stored[node[v]]

\* While both ends take part, one of them has a message to read or to answer.
Moving(c, v) ==
  Active(c) /\ open[c] /\ Active(v) /\ open[v] => Holds(c) \/ Holds(v)

\* Without a fault only the protocol closes a stream: the server after the
\* last answer, the client when it is level.
Faultless(c, v) ==
  faults = 0 =>
    /\ Active(c) => open[c]
    /\ Active(v) => open[v]
    /\ HoldsType(v, "IWantLatest") => Active(c)
    /\ Active(c) /\ ~Active(v) =>
         HoldsType(c, "IGotSequenceNumber") /\ Held(c).seq = latest[c]
    /\ ~Active(c) => myLatest[v] \in stored[node[c]]

StreamOK(c, v) ==
  /\ OneSpeaks(c, v)
  /\ Conversation(c, v)
  /\ Announced(c, v)
  /\ Moving(c, v)
  /\ Faultless(c, v)

ProtocolInv == \A s \in Streams : StreamOK(Client(s), Server(s))

-----------------------------------------------------------------------------
(* Lemmas about the operators *)

LEMMA Ends2 ==
  ASSUME NEW s \in Streams
  PROVE  /\ Client(s) \in Threads /\ Server(s) \in Threads /\ Client(s) # Server(s)
         /\ Other(Client(s)) = Server(s) /\ Other(Server(s)) = Client(s)
  BY DEF Threads, Ends, Client, Server, Other

LEMMA StreamOf ==
  ASSUME NEW t \in Threads
  PROVE  \E s \in Streams : t = Client(s) \/ t = Server(s)
  BY DEF Threads, Ends, Client, Server

LEMMA OtherStreams ==
  ASSUME NEW s \in Streams, NEW r \in Streams, r # s
  PROVE  {Client(r), Server(r)} \cap {Client(s), Server(s)} = {}
  BY DEF Client, Server

LEMMA LatestTable ==
  ASSUME TypeOK, GapFree, NEW n \in Nodes
  PROVE  Latest(n) \in Nat /\ stored[n] = 0 .. Latest(n)
<1>1. PICK m \in SeqNums : stored[n] = 0 .. m
  BY DEF GapFree
<1>2. Latest(n) = m
  BY <1>1, MaxOfInterval, PeerSyncAssumption DEF Latest, SeqNums
<1> QED
  BY <1>1, <1>2, PeerSyncAssumption DEF SeqNums

LEMMA SendWhere ==
  ASSUME TypeOK, NEW t \in Threads, NEW m \in SyncMessage, NEW u \in Threads
  PROVE  Send(t, m)[u] = IF u = Other(t) /\ open[t] /\ open[u]
                           THEN Append(inbox[u], m)
                           ELSE inbox[u]
<1>1. Other(t) \in Threads /\ inbox \in [Threads -> Seq(SyncMessage)]
  BY OtherThread DEF TypeOK
<1> QED
  BY <1>1 DEF Send

LEMMA MsgFields ==
  ASSUME NEW type \in MessageTypes, NEW seq \in Nat
  PROVE  /\ Msg(type, seq) \in SyncMessage
         /\ Msg(type, seq).type = type /\ Msg(type, seq).seq = seq
  BY DEF Msg, SyncMessage

LEMMA NothingHeld == Len(<<>>) # 1
  OBVIOUS

\* Nothing changes on a thread but possibly the table behind it.
SameThread(t) ==
  /\ node'[t] = node[t] /\ reader'[t] = reader[t] /\ open'[t] = open[t]
  /\ inbox'[t] = inbox[t] /\ msg'[t] = msg[t]
  /\ latest'[t] = latest[t] /\ myLatest'[t] = myLatest[t]

Grows ==
  /\ \A n \in Nodes : stored[n] \subseteq stored'[n]
  /\ faults' = 0 => faults = 0

LEMMA StreamKept ==
  ASSUME TypeOK, Grows, NEW c \in Threads, NEW v \in Threads,
         SameThread(c), SameThread(v), StreamOK(c, v)
  PROVE  StreamOK(c, v)'
<1>1. node[c] \in Nodes /\ node[v] \in Nodes
  BY DEF TypeOK
<1>2. stored[node[c]] \subseteq stored'[node'[c]] /\ stored[node[v]] \subseteq stored'[node'[v]]
  BY <1>1 DEF Grows, SameThread
<1>3. OneSpeaks(c, v)' /\ Conversation(c, v)' /\ Moving(c, v)'
  BY DEF StreamOK, OneSpeaks, Conversation, Moving, Silent, Holds, Held, HoldsType, Active,
         SameThread
<1>4. Announced(c, v)'
  BY <1>2 DEF StreamOK, Announced, SameThread
<1>5. Faultless(c, v)'
  BY <1>2 DEF StreamOK, Faultless, HoldsType, Holds, Held, Active, SameThread, Grows
<1> QED
  BY <1>3, <1>4, <1>5 DEF StreamOK

\* A step on one stream.
LEMMA OneStream ==
  ASSUME TypeOK, ProtocolInv, Grows, NEW s \in Streams,
         \A u \in Threads \ {Client(s), Server(s)} : SameThread(u),
         StreamOK(Client(s), Server(s))'
  PROVE  ProtocolInv'
<1>1. ASSUME NEW r \in Streams, r # s
      PROVE  StreamOK(Client(r), Server(r))'
  <2>1. SameThread(Client(r)) /\ SameThread(Server(r))
    BY <1>1, Ends2, OtherStreams
  <2> QED
    BY <2>1, Ends2, StreamKept DEF ProtocolInv
<1> QED
  BY <1>1 DEF ProtocolInv

-----------------------------------------------------------------------------
(* The handlers: what a step of one end does to its stream *)

\* c and v are the two ends of a stream.
Joined(c, v) ==
  c \in Threads /\ v \in Threads /\ c # v /\ Other(c) = v /\ Other(v) = c

\* While one end handles a message nothing else is under way, and the message
\* tells which end it is.
LEMMA HandlingAlone ==
  ASSUME TypeOK, NEW c, NEW v, Joined(c, v), StreamOK(c, v),
         reader[c] = "handling" \/ reader[v] = "handling"
  PROVE  /\ inbox[c] = <<>> /\ inbox[v] = <<>>
         /\ reader[c] = "handling" => /\ reader[v] # "handling"
                                      /\ msg[c].type \in {"IGotLatest", "IGotSequenceNumber"}
         /\ reader[v] = "handling" => /\ reader[c] # "handling"
                                      /\ msg[v].type \in {"IWantLatest", "IWantSequenceNumber"}
<1>1. inbox[c] \in Seq(SyncMessage) /\ inbox[v] \in Seq(SyncMessage)
  BY DEF Joined, TypeOK
<1>2. inbox[c] = <<>> /\ inbox[v] = <<>>
  BY <1>1 DEF StreamOK, OneSpeaks, Silent, Holds
<1>3. ~(reader[c] = "handling" /\ reader[v] = "handling")
  BY <1>1 DEF StreamOK, OneSpeaks, Silent, Holds
<1> QED
  BY <1>2, <1>3 DEF StreamOK, Conversation, Holds, Held

\* The handler on t has ended and has tried to send m: what is under way now.
LEMMA AnswerSent ==
  ASSUME TypeOK, NEW t \in Threads, NEW u \in Threads, u = Other(t), u # t,
         inbox[t] = <<>>, inbox[u] = <<>>, reader[u] # "handling",
         NEW m \in SyncMessage, inbox' = Send(t, m),
         NEW x \in {"reading", "reporting"}, reader' = [reader EXCEPT ![t] = x]
  PROVE  /\ Silent(t)'
         /\ open[t] /\ open[u] => Holds(u)' /\ Held(u)' = m
         /\ ~(open[t] /\ open[u]) => Silent(u)'
         /\ reader'[u] = reader[u]
         /\ Active(t)' <=> x = "reading"
<1>1. inbox'[t] = <<>> /\ inbox'[u] = IF open[t] /\ open[u] THEN <<m>> ELSE <<>>
  <2>1. Send(t, m)[t] = <<>>
    BY SendWhere
  <2>2. Append(<<>>, m) = <<m>>
    OBVIOUS
  <2>3. Send(t, m)[u] = IF open[t] /\ open[u] THEN <<m>> ELSE <<>>
    BY <2>2, SendWhere
  <2> QED
    BY <2>1, <2>3
<1>2. reader'[t] = x /\ reader'[u] = reader[u]
  BY DEF TypeOK
<1>3. Len(<<m>>) = 1 /\ <<m>>[1] = m /\ <<m>> # <<>>
  OBVIOUS
<1> QED
  BY <1>1, <1>2, <1>3 DEF Silent, Holds, Held, Active

LEMMA AfterWriteValue ==
  ASSUME NEW t
  PROVE  AfterWrite(t) \in {"reading", "reporting"} /\ (AfterWrite(t) = "reading" <=> open[t])
  BY DEF AfterWrite

LEMMA WantLatestStream ==
  ASSUME IInv, NEW c, NEW v, Joined(c, v), StreamOK(c, v), ProcessWantLatest(v)
  PROVE  StreamOK(c, v)' /\ \A u \in Threads \ {c, v} : SameThread(u)
<1>1. PICK a \in Nat : a = Latest(node[v]) /\ a \in stored[node[v]]
  BY LatestStored DEF IInv, TypeOK, Joined
<1>2. PICK m \in SyncMessage : m = Msg("IGotLatest", a) /\ m.type = "IGotLatest" /\ m.seq = a
  BY MsgFields DEF MessageTypes
<1>3. /\ TypeOK /\ c \in Threads /\ v \in Threads /\ c # v /\ c = Other(v)
      /\ reader[v] = "handling" /\ msg[v].type = "IWantLatest"
      /\ inbox' = Send(v, m) /\ reader' = [reader EXCEPT ![v] = AfterWrite(v)]
      /\ UNCHANGED <<stored, published, node, open, msg, latest, faults>>
      /\ myLatest'[v] = a /\ myLatest' = [myLatest EXCEPT ![v] = a]
  BY <1>1, <1>2 DEF ProcessWantLatest, Handling, Joined, IInv, TypeOK
<1>4. inbox[c] = <<>> /\ inbox[v] = <<>> /\ reader[c] # "handling"
  BY <1>3, HandlingAlone
<1>5. HoldsType(v, "IWantLatest") /\ latest[c] = 0
  BY <1>3, <1>4 DEF HoldsType, Holds, Held, StreamOK, Conversation
<1>6. /\ Silent(v)'
      /\ open[v] /\ open[c] => Holds(c)' /\ Held(c)' = m
      /\ ~(open[v] /\ open[c]) => Silent(c)'
      /\ reader'[c] = reader[c]
      /\ Active(v)' <=> open[v]
  BY <1>3, <1>4, AnswerSent, AfterWriteValue
<1>7. ~Holds(v)' /\ (Silent(c)' => ~Holds(c)')
  BY <1>6, NothingHeld DEF Silent, Holds
<1>8. OneSpeaks(c, v)' /\ Conversation(c, v)'
  BY <1>2, <1>3, <1>5, <1>6, <1>7 DEF OneSpeaks, Conversation, HoldsType
<1>9. Announced(c, v)' /\ Moving(c, v)'
  BY <1>1, <1>3, <1>5, <1>6, <1>7 DEF StreamOK, Announced, Moving
<1>10. Faultless(c, v)'
  BY <1>1, <1>3, <1>4, <1>5, <1>6, <1>7 DEF StreamOK, Faultless, HoldsType, Active
<1>11. \A u \in Threads \ {c, v} : SameThread(u)
  BY <1>3, SendWhere DEF SameThread, TypeOK
<1> QED
  BY <1>8, <1>9, <1>10, <1>11 DEF StreamOK

LEMMA GotLatestBehindStream ==
  ASSUME IInv, NEW c, NEW v, Joined(c, v), StreamOK(c, v), ProcessGotLatestBehind(c)
  PROVE  StreamOK(c, v)' /\ \A u \in Threads \ {c, v} : SameThread(u)
<1>1. PICK a \in Nat : a = Latest(node[c]) /\ a \in stored[node[c]]
  BY LatestStored DEF IInv, TypeOK, Joined
<1>2. PICK m \in SyncMessage :
        m = Msg("IWantSequenceNumber", a + 1) /\ m.type = "IWantSequenceNumber" /\ m.seq = a + 1
  BY MsgFields DEF MessageTypes
<1>3. /\ TypeOK /\ c \in Threads /\ v \in Threads /\ c # v /\ v = Other(c)
      /\ reader[c] = "handling" /\ msg[c].type = "IGotLatest"
      /\ msg[c].seq > a /\ msg[c].seq \in Nat
      /\ inbox' = Send(c, m) /\ reader' = [reader EXCEPT ![c] = AfterWrite(c)]
      /\ UNCHANGED <<stored, published, node, open, msg, faults>>
      /\ latest'[c] = msg[c].seq /\ latest' = [latest EXCEPT ![c] = msg[c].seq]
      /\ myLatest'[v] = myLatest[v] /\ myLatest' = [myLatest EXCEPT ![c] = a]
  BY <1>1, <1>2 DEF ProcessGotLatestBehind, Handling, Joined, IInv, TypeOK, SyncMessage
<1>4. inbox[c] = <<>> /\ inbox[v] = <<>> /\ reader[v] # "handling"
  BY <1>3, HandlingAlone
<1>5. HoldsType(c, "IGotLatest") /\ Held(c) = msg[c] /\ msg[c].seq = myLatest[v]
  BY <1>3, <1>4 DEF HoldsType, Holds, Held, StreamOK, Conversation
<1>6. /\ Silent(c)'
      /\ open[c] /\ open[v] => Holds(v)' /\ Held(v)' = m
      /\ ~(open[c] /\ open[v]) => Silent(v)'
      /\ reader'[v] = reader[v]
      /\ Active(c)' <=> open[c]
  BY <1>3, <1>4, AnswerSent, AfterWriteValue
<1>7. ~Holds(c)' /\ (Silent(v)' => ~Holds(v)')
  BY <1>6, NothingHeld DEF Silent, Holds
<1>8. OneSpeaks(c, v)' /\ Conversation(c, v)'
  BY <1>1, <1>2, <1>3, <1>5, <1>6, <1>7 DEF OneSpeaks, Conversation, HoldsType
<1>9. Announced(c, v)' /\ Moving(c, v)'
  BY <1>1, <1>3, <1>5, <1>6, <1>7 DEF StreamOK, Announced, Moving
<1>10. Faultless(c, v)'
  BY <1>1, <1>2, <1>3, <1>4, <1>5, <1>6, <1>7 DEF StreamOK, Faultless, HoldsType, Active
<1>11. \A u \in Threads \ {c, v} : SameThread(u)
  BY <1>3, SendWhere DEF SameThread, TypeOK
<1> QED
  BY <1>8, <1>9, <1>10, <1>11 DEF StreamOK

\* A client that has not aimed at anything yet is level with the server as soon
\* as the server announces nothing above its own latest alert.
LEMMA GotLatestLevelStream ==
  ASSUME IInv, NEW c, NEW v, Joined(c, v), StreamOK(c, v), ProcessGotLatestLevel(c)
  PROVE  StreamOK(c, v)' /\ \A u \in Threads \ {c, v} : SameThread(u)
<1>1. PICK a \in Nat : a = Latest(node[c]) /\ stored[node[c]] = 0 .. a
  BY LatestTable DEF IInv, TypeOK, Joined
<1>2. /\ TypeOK /\ c \in Threads /\ v \in Threads /\ c # v
      /\ reader[c] = "handling" /\ msg[c].type = "IGotLatest"
      /\ msg[c].seq <= a /\ msg[c].seq \in Nat
      /\ UNCHANGED <<stored, published, node, inbox, msg, faults>>
      /\ myLatest'[v] = myLatest[v] /\ myLatest' = [myLatest EXCEPT ![c] = a]
  BY <1>1 DEF ProcessGotLatestLevel, Joined, Handling, IInv, TypeOK, SyncMessage
<1>3. inbox[c] = <<>> /\ inbox[v] = <<>> /\ reader[v] # "handling"
  BY <1>2, HandlingAlone
<1>4. latest[c] = 0 /\ msg[c].seq = myLatest[v] /\ myLatest[v] \in stored[node[v]]
  BY <1>2, <1>3 DEF HoldsType, Holds, Held, StreamOK, Conversation, Announced
<1>5. PICK known \in Nat :
        /\ known <= a
        /\ known = latest[c] \/ known = msg[c].seq
        /\ latest' = [latest EXCEPT ![c] = known]
        /\ reader' = [reader EXCEPT ![c] = "reporting"]
        /\ open' = [open EXCEPT ![c] = FALSE]
  <2>1. PICK known \in Nat :
          /\ known = IF msg[c].seq = a THEN a ELSE latest[c]
          /\ known <= a
          /\ known = latest[c] \/ known = msg[c].seq
    BY <1>2, <1>4
  <2>2. /\ latest' = [latest EXCEPT ![c] = known]
        /\ open' = [open EXCEPT ![c] = open[c] /\ a < known]
        /\ reader' = [reader EXCEPT ![c] = IF a >= known THEN "reporting" ELSE "reading"]
    BY <1>1, <2>1 DEF ProcessGotLatestLevel
  <2>3. reader' = [reader EXCEPT ![c] = "reporting"]
    BY <2>1, <2>2
  <2>4. (open[c] /\ a < known) = FALSE
    BY <2>1
  <2>5. open' = [open EXCEPT ![c] = FALSE]
    BY <2>2, <2>4, Zenon
  <2> QED
    BY <2>1, <2>2, <2>3, <2>5
<1>6. /\ reader'[c] = "reporting" /\ reader'[v] = reader[v]
      /\ latest'[c] = known
      /\ open'[c] = FALSE /\ open'[v] = open[v]
  BY <1>2, <1>5 DEF TypeOK
<1>7. Silent(c)' /\ Silent(v)' /\ ~Holds(c)' /\ ~Holds(v)' /\ ~Active(c)'
  BY <1>2, <1>3, <1>6, NothingHeld DEF Silent, Holds, Active
<1>8. OneSpeaks(c, v)' /\ Conversation(c, v)' /\ Moving(c, v)'
  BY <1>7 DEF OneSpeaks, Conversation, HoldsType, Moving
<1>9. Announced(c, v)'
  BY <1>2, <1>4, <1>5, <1>6 DEF StreamOK, Announced
<1>10. Faultless(c, v)'
  <2>1. myLatest[v] \in stored[node[c]]
    BY <1>1, <1>2, <1>4
  <2> QED
    BY <1>2, <1>6, <1>7, <2>1 DEF StreamOK, Faultless, HoldsType, Active
<1>11. \A u \in Threads \ {c, v} : SameThread(u)
  BY <1>2, <1>5 DEF SameThread, TypeOK
<1> QED
  BY <1>8, <1>9, <1>10, <1>11 DEF StreamOK

\* The last answer leaves the client level with the server's announcement; any
\* other one makes it ask for an alert that the announcement covers.
LEMMA GotSequenceNumberStream ==
  ASSUME IInv, NEW c, NEW v, Joined(c, v), StreamOK(c, v), ProcessGotSequenceNumber(c)
  PROVE  StreamOK(c, v)' /\ \A u \in Threads \ {c, v} : SameThread(u)
<1>1. PICK k \in Nat : k = msg[c].seq
  BY DEF IInv, TypeOK, SyncMessage, Joined
<1>2. /\ TypeOK /\ c \in Threads /\ v \in Threads /\ c # v /\ v = Other(c)
      /\ reader[c] = "handling" /\ msg[c].type = "IGotSequenceNumber"
      /\ node[c] \in Nodes /\ stored' = [stored EXCEPT ![node[c]] = @ \cup {k}]
      /\ UNCHANGED <<published, node, msg, latest, faults>>
      /\ myLatest'[v] = myLatest[v] /\ myLatest' = [myLatest EXCEPT ![c] = k]
  BY <1>1 DEF ProcessGotSequenceNumber, Save, Handling, Joined, IInv, TypeOK
<1>3. k \in stored'[node[c]] /\ \A n \in Nodes : stored[n] \subseteq stored'[n]
  BY <1>2 DEF TypeOK
<1>4. inbox[c] = <<>> /\ inbox[v] = <<>> /\ reader[v] # "handling"
  BY <1>2, HandlingAlone
<1>5. /\ HoldsType(c, "IGotSequenceNumber") /\ Held(c) = msg[c]
      /\ k <= latest[c] /\ latest[c] = myLatest[v] /\ latest[c] \in Nat
  BY <1>1, <1>2, <1>4 DEF HoldsType, Holds, Held, StreamOK, Conversation, TypeOK
<1>6. Announced(c, v)'
  BY <1>2, <1>3 DEF StreamOK, Announced, TypeOK
<1>7. CASE k = latest[c]
  <2>1. /\ open' = [open EXCEPT ![c] = FALSE] /\ reader' = [reader EXCEPT ![c] = "reporting"]
        /\ inbox' = inbox
    BY <1>1, <1>7 DEF ProcessGotSequenceNumber
  <2>2. /\ open'[c] = FALSE /\ open'[v] = open[v]
        /\ reader'[c] = "reporting" /\ reader'[v] = reader[v]
    BY <1>2, <2>1 DEF TypeOK
  <2>3. Silent(c)' /\ Silent(v)' /\ ~Holds(c)' /\ ~Holds(v)' /\ ~Active(c)'
    BY <1>4, <2>1, <2>2, NothingHeld DEF Silent, Holds, Active
  <2>4. OneSpeaks(c, v)' /\ Conversation(c, v)' /\ Moving(c, v)'
    BY <2>3 DEF OneSpeaks, Conversation, HoldsType, Moving
  <2>5. Faultless(c, v)'
    BY <1>2, <1>3, <1>5, <1>7, <2>2, <2>3 DEF StreamOK, Faultless, HoldsType, Active
  <2>6. \A u \in Threads \ {c, v} : SameThread(u)
    BY <1>2, <2>1 DEF SameThread, TypeOK
  <2> QED
    BY <1>6, <2>4, <2>5, <2>6 DEF StreamOK
<1>8. CASE k # latest[c]
  <2>1. PICK m \in SyncMessage :
          /\ m = Msg("IWantSequenceNumber", k + 1)
          /\ m.type = "IWantSequenceNumber" /\ m.seq = k + 1
    BY MsgFields DEF MessageTypes
  <2>2. /\ inbox' = Send(c, m) /\ reader' = [reader EXCEPT ![c] = AfterWrite(c)]
        /\ open' = open
    BY <1>1, <1>8, <2>1 DEF ProcessGotSequenceNumber
  <2>3. /\ Silent(c)'
        /\ open[c] /\ open[v] => Holds(v)' /\ Held(v)' = m
        /\ ~(open[c] /\ open[v]) => Silent(v)'
        /\ reader'[v] = reader[v]
        /\ Active(c)' <=> open[c]
    BY <1>2, <1>4, <2>2, AnswerSent, AfterWriteValue
  <2>4. ~Holds(c)' /\ (Silent(v)' => ~Holds(v)')
    BY <2>3, NothingHeld DEF Silent, Holds
  <2>5. m.seq <= latest[c]
    BY <1>5, <1>8, <2>1
  <2>6. OneSpeaks(c, v)' /\ Conversation(c, v)' /\ Moving(c, v)'
    BY <1>2, <1>5, <2>1, <2>2, <2>3, <2>4, <2>5
       DEF OneSpeaks, Conversation, HoldsType, StreamOK, Moving
  <2>7. Faultless(c, v)'
    BY <1>1, <1>2, <1>5, <1>8, <2>1, <2>2, <2>3, <2>4 DEF StreamOK, Faultless, HoldsType, Active
  <2>8. \A u \in Threads \ {c, v} : SameThread(u)
    BY <1>2, <2>2, SendWhere DEF SameThread, TypeOK
  <2> QED
    BY <1>6, <2>6, <2>7, <2>8 DEF StreamOK
<1> QED
  BY <1>7, <1>8

\* The server leaves only after the answer that ends the session of the client.
LEMMA WantSequenceNumberStream ==
  ASSUME IInv, NEW c, NEW v, Joined(c, v), StreamOK(c, v), ProcessWantSequenceNumber(v)
  PROVE  StreamOK(c, v)' /\ \A u \in Threads \ {c, v} : SameThread(u)
<1>1. PICK k \in Nat : k = msg[v].seq
  BY DEF IInv, TypeOK, SyncMessage, Joined
<1>2. PICK m \in SyncMessage :
        m = Msg("IGotSequenceNumber", k) /\ m.type = "IGotSequenceNumber" /\ m.seq = k
  BY MsgFields DEF MessageTypes
<1>3. PICK x \in {"reading", "reporting"} :
        /\ x = IF k = myLatest[v] THEN "reporting" ELSE AfterWrite(v)
        /\ x = "reading" <=> open[v] /\ k # myLatest[v]
  BY DEF AfterWrite
<1>4. /\ TypeOK /\ c \in Threads /\ v \in Threads /\ c # v /\ c = Other(v)
      /\ reader[v] = "handling" /\ msg[v].type = "IWantSequenceNumber"
      /\ inbox' = Send(v, m)
      /\ UNCHANGED <<stored, published, node, msg, latest, myLatest, faults>>
  BY <1>1, <1>2 DEF ProcessWantSequenceNumber, Handling, Joined, IInv
<1>5. /\ reader' = [reader EXCEPT ![v] = x]
      /\ open' = [open EXCEPT ![v] = open[v] /\ k # myLatest[v]]
  BY <1>1, <1>3 DEF ProcessWantSequenceNumber
<1>6. open'[c] = open[c] /\ (open'[v] <=> x = "reading")
  BY <1>3, <1>4, <1>5 DEF TypeOK
<1>7. inbox[c] = <<>> /\ inbox[v] = <<>> /\ reader[c] # "handling"
  BY <1>4, HandlingAlone
<1>8. /\ HoldsType(v, "IWantSequenceNumber") /\ Held(v) = msg[v]
      /\ k <= latest[c] /\ latest[c] = myLatest[v]
  BY <1>1, <1>4, <1>7 DEF HoldsType, Holds, Held, StreamOK, Conversation
<1>9. /\ Silent(v)'
      /\ open[v] /\ open[c] => Holds(c)' /\ Held(c)' = m
      /\ ~(open[v] /\ open[c]) => Silent(c)'
      /\ reader'[c] = reader[c]
      /\ Active(v)' <=> x = "reading"
  BY <1>4, <1>5, <1>7, AnswerSent
<1>10. ~Holds(v)' /\ (Silent(c)' => ~Holds(c)')
  BY <1>9, NothingHeld DEF Silent, Holds
<1>11. OneSpeaks(c, v)' /\ Conversation(c, v)' /\ Announced(c, v)'
  BY <1>2, <1>4, <1>8, <1>9, <1>10 DEF OneSpeaks, Conversation, HoldsType, StreamOK, Announced
<1>12. Moving(c, v)'
  BY <1>3, <1>6, <1>9 DEF Moving
<1>13. Faultless(c, v)'
  BY <1>2, <1>3, <1>4, <1>6, <1>7, <1>8, <1>9, <1>10 DEF StreamOK, Faultless, HoldsType, Active
<1>14. \A u \in Threads \ {c, v} : SameThread(u)
  BY <1>4, <1>5, SendWhere DEF SameThread, TypeOK
<1> QED
  BY <1>11, <1>12, <1>13, <1>14 DEF StreamOK

-----------------------------------------------------------------------------
(* The other steps *)

LEMMA ReadMessageStream ==
  ASSUME IInv, NEW c, NEW v, Joined(c, v), StreamOK(c, v), NEW t \in {c, v}, ReadMessage(t)
  PROVE  StreamOK(c, v)' /\ \A u \in Threads \ {c, v} : SameThread(u)
<1> DEFINE u == Other(t)
<1>1. /\ TypeOK /\ t \in Threads /\ u \in Threads /\ t # u /\ u \in {c, v}
      /\ reader[t] = "reading" /\ open[t] /\ inbox[t] # <<>> /\ inbox[t] \in Seq(SyncMessage)
      /\ reader' = [reader EXCEPT ![t] = "handling"]
      /\ msg' = [msg EXCEPT ![t] = Head(inbox[t])]
      /\ inbox' = [inbox EXCEPT ![t] = Tail(inbox[t])]
      /\ UNCHANGED <<stored, published, node, open, latest, myLatest, faults>>
  BY DEF ReadMessage, Joined, IInv, TypeOK
<1> HIDE DEF u
<1>2. Holds(t) /\ Silent(u) /\ Len(inbox[t]) = 1
  <2>1. ~Silent(t)
    BY <1>1 DEF Silent
  <2>2. Holds(t) /\ Silent(u)
    BY <1>1, <2>1 DEF StreamOK, OneSpeaks
  <2> QED
    BY <1>1, <2>2 DEF Holds
<1>3. Tail(inbox[t]) = <<>> /\ Head(inbox[t]) = inbox[t][1]
  <2>1. Tail(inbox[t]) \in Seq(SyncMessage) /\ Len(Tail(inbox[t])) = 0
    BY <1>1, <1>2
  <2>2. Tail(inbox[t]) = <<>>
    BY <2>1, EmptySeq
  <2> QED
    BY <1>1, <2>2
<1>4. /\ reader'[t] = "handling" /\ inbox'[t] = <<>> /\ msg'[t] = inbox[t][1]
      /\ reader'[u] = reader[u] /\ inbox'[u] = inbox[u] /\ msg'[u] = msg[u]
  BY <1>1, <1>3 DEF TypeOK
<1>5. /\ Holds(t)' /\ Held(t)' = Held(t)
      /\ Silent(u)' /\ ~Holds(u)' /\ ~Holds(u)
      /\ Active(t)' /\ Active(t) /\ (Active(u)' <=> Active(u))
  BY <1>1, <1>2, <1>4, NothingHeld DEF Holds, Held, Silent, Active
<1>6. OneSpeaks(c, v)' /\ Conversation(c, v)' /\ Announced(c, v)' /\ Moving(c, v)'
  BY <1>1, <1>2, <1>5 DEF StreamOK, OneSpeaks, Conversation, HoldsType, Announced, Moving
<1>7. Faultless(c, v)'
  BY <1>1, <1>2, <1>5 DEF StreamOK, Faultless, HoldsType
<1>8. \A w \in Threads \ {c, v} : SameThread(w)
  BY <1>1 DEF SameThread, TypeOK
<1> QED
  BY <1>6, <1>7, <1>8 DEF StreamOK

\* An end may stop taking part, close its end or lose what was under way to it.
Recedes(t) ==
  /\ node'[t] = node[t] /\ msg'[t] = msg[t]
  /\ latest'[t] = latest[t] /\ myLatest'[t] = myLatest[t]
  /\ reader'[t] = reader[t] \/ reader'[t] \in {"reporting", "ended"}
  /\ open'[t] => open[t]
  /\ inbox'[t] = inbox[t] \/ (inbox'[t] = <<>> /\ ~open'[t])

LEMMA RecedeKeeps ==
  ASSUME TypeOK, NEW c, NEW v, Joined(c, v), StreamOK(c, v), Recedes(c), Recedes(v),
         stored' = stored
  PROVE  OneSpeaks(c, v)' /\ Conversation(c, v)' /\ Announced(c, v)' /\ Moving(c, v)'
<1>1. ASSUME NEW t \in {c, v}
      PROVE  /\ Holds(t)' => Holds(t) /\ Held(t)' = Held(t)
             /\ Silent(t) => Silent(t)'
             /\ Holds(t) => Silent(t)' \/ Holds(t)'
  <2>1. Holds(t) \/ Silent(t)
    BY DEF StreamOK, OneSpeaks
  <2> QED
    BY <2>1, NothingHeld DEF Recedes, Holds, Held, Silent
<1>2. ASSUME NEW t \in {c, v}, Active(t)', open'[t]
      PROVE  Active(t) /\ open[t] /\ (Holds(t) => Holds(t)')
  BY <1>2 DEF Recedes, Active, Holds
<1>3. OneSpeaks(c, v)' /\ Conversation(c, v)'
  BY <1>1 DEF StreamOK, OneSpeaks, Conversation, HoldsType, Recedes
<1>4. Announced(c, v)' /\ Moving(c, v)'
  BY <1>2 DEF StreamOK, Announced, Moving, Recedes
<1> QED
  BY <1>3, <1>4

\* Faults, whatever they close or lose: Faultless promises nothing any more.
LEMMA FaultStream ==
  ASSUME TypeOK, NEW c, NEW v, Joined(c, v), StreamOK(c, v), Recedes(c), Recedes(v),
         stored' = stored, Fault
  PROVE  StreamOK(c, v)'
<1>1. faults' # 0
  BY PeerSyncAssumption DEF Fault, TypeOK
<1>2. Faultless(c, v)'
  BY <1>1 DEF Faultless
<1> QED
  BY <1>2, RecedeKeeps DEF StreamOK

LEMMA ReadFailsStream ==
  ASSUME IInv, NEW c, NEW v, Joined(c, v), StreamOK(c, v), NEW t \in {c, v}, ReadFails(t)
  PROVE  StreamOK(c, v)' /\ \A u \in Threads \ {c, v} : SameThread(u)
<1>1. /\ TypeOK /\ t \in Threads /\ c \in Threads /\ v \in Threads /\ c # v
      /\ Other(c) = v /\ Other(v) = c
      /\ reader[t] = "reading" /\ (open[t] => inbox[t] = <<>> /\ ~open[Other(t)])
      /\ reader' = [reader EXCEPT ![t] = "reporting"] /\ open' = [open EXCEPT ![t] = FALSE]
      /\ UNCHANGED <<stored, published, node, inbox, msg, latest, myLatest, faults>>
  BY DEF ReadFails, Joined, IInv
<1>2. Recedes(c) /\ Recedes(v) /\ \A u \in Threads \ {c, v} : SameThread(u)
  BY <1>1 DEF Recedes, SameThread, TypeOK
<1>3. OneSpeaks(c, v)' /\ Conversation(c, v)' /\ Announced(c, v)' /\ Moving(c, v)'
  BY <1>1, <1>2, RecedeKeeps
<1>4. Faultless(c, v)'
  <2> SUFFICES ASSUME faults = 0
               PROVE  Faultless(c, v)'
    BY <1>1 DEF Faultless
  <2>1. CASE t = c
    <3>1. Active(c) /\ open[c] /\ inbox[c] = <<>> /\ ~open[v]
      BY <1>1, <2>1 DEF Active, StreamOK, Faultless
    <3>2. Holds(c)
      BY <3>1 DEF StreamOK, Faultless, HoldsType
    <3> QED
      BY <1>1, <2>1, <3>1, <3>2, NothingHeld DEF Holds
  <2>2. CASE t = v
    <3>1. Active(v) /\ open[v] /\ inbox[v] = <<>> /\ ~open[c]
      BY <1>1, <2>2 DEF Active, StreamOK, Faultless
    <3>2. ~Active(c) /\ myLatest[v] \in stored[node[c]]
      BY <3>1 DEF StreamOK, Faultless
    <3>3. reader'[c] = reader[c] /\ reader'[v] = "reporting"
      BY <1>1, <2>2 DEF TypeOK
    <3>4. ~Active(c)' /\ ~Active(v)' /\ ~Holds(v)'
      BY <1>1, <3>1, <3>2, <3>3, NothingHeld DEF Active, Holds
    <3> QED
      BY <1>1, <3>2, <3>4 DEF Faultless, HoldsType
  <2> QED
    BY <2>1, <2>2
<1> QED
  BY <1>2, <1>3, <1>4 DEF StreamOK

LEMMA DoneStream ==
  ASSUME IInv, NEW c, NEW v, Joined(c, v), StreamOK(c, v), NEW t \in {c, v}, Done(t)
  PROVE  StreamOK(c, v)' /\ \A u \in Threads \ {c, v} : SameThread(u)
<1>1. /\ TypeOK /\ t \in Threads /\ c \in Threads /\ v \in Threads /\ c # v
      /\ reader[t] = "reporting"
      /\ reader' = [reader EXCEPT ![t] = "ended"] /\ open' = [open EXCEPT ![t] = FALSE]
      /\ UNCHANGED <<stored, published, node, inbox, msg, latest, myLatest, faults>>
  BY DEF Done, Leave, Joined, IInv
<1>2. Recedes(c) /\ Recedes(v) /\ \A u \in Threads \ {c, v} : SameThread(u)
  BY <1>1 DEF Recedes, SameThread, TypeOK
<1>3. OneSpeaks(c, v)' /\ Conversation(c, v)' /\ Announced(c, v)' /\ Moving(c, v)'
  BY <1>1, <1>2, RecedeKeeps
<1>4. \A u \in {c, v} : /\ Active(u)' <=> Active(u)
                        /\ Active(u) => open'[u] = open[u]
                        /\ Holds(u)' <=> Holds(u)
                        /\ Held(u)' = Held(u)
  BY <1>1 DEF Active, Holds, Held, TypeOK
<1>5. Faultless(c, v)'
  BY <1>1, <1>4 DEF StreamOK, Faultless, HoldsType
<1> QED
  BY <1>2, <1>3, <1>5 DEF StreamOK

LEMMA HandlerFailsStream ==
  ASSUME IInv, NEW c, NEW v, Joined(c, v), StreamOK(c, v), NEW t \in {c, v},
         HandlerFails(t) \/ GiveUp(t)
  PROVE  StreamOK(c, v)' /\ \A u \in Threads \ {c, v} : SameThread(u)
<1>1. /\ TypeOK /\ t \in Threads /\ c \in Threads /\ v \in Threads
      /\ \/ reader' = [reader EXCEPT ![t] = "reporting"] /\ open' = open
         \/ reader' = reader /\ open' = [open EXCEPT ![t] = FALSE]
      /\ UNCHANGED <<stored, published, node, inbox, msg, latest, myLatest>>
      /\ Fault
  BY DEF HandlerFails, GiveUp, Leave, Joined, IInv
<1>2. Recedes(c) /\ Recedes(v) /\ \A u \in Threads \ {c, v} : SameThread(u)
  BY <1>1 DEF Recedes, SameThread, TypeOK
<1> QED
  BY <1>1, <1>2, FaultStream

LEMMA DisconnectStream ==
  ASSUME IInv, NEW s \in Streams, StreamOK(Client(s), Server(s)), Disconnect(s)
  PROVE  /\ StreamOK(Client(s), Server(s))'
         /\ \A u \in Threads \ {Client(s), Server(s)} : SameThread(u)
<1>1. PICK c \in Threads, v \in Threads : c = Client(s) /\ v = Server(s) /\ Joined(c, v)
  BY Ends2 DEF Joined
<1>2. /\ TypeOK /\ Fault
      /\ open' = [open EXCEPT ![c] = FALSE, ![v] = FALSE]
      /\ inbox' = [inbox EXCEPT ![c] = <<>>, ![v] = <<>>]
      /\ UNCHANGED <<stored, published, node, reader, msg, latest, myLatest>>
  BY <1>1 DEF Disconnect, IInv
<1>3. Recedes(c) /\ Recedes(v) /\ \A u \in Threads \ {c, v} : SameThread(u)
  BY <1>1, <1>2 DEF Recedes, SameThread, TypeOK, Joined
<1> QED
  BY <1>1, <1>2, <1>3, FaultStream

LEMMA CrashStream ==
  ASSUME IInv, NEW s \in Streams, StreamOK(Client(s), Server(s)), NEW n \in Nodes, Crash(n)
  PROVE  StreamOK(Client(s), Server(s))'
<1>1. PICK c \in Threads, v \in Threads : c = Client(s) /\ v = Server(s) /\ Joined(c, v)
  BY Ends2 DEF Joined
<1>2. \A t \in Threads : Recedes(t)
  BY DEF Crash, IInv, TypeOK, Recedes
<1> QED
  BY <1>1, <1>2, FaultStream DEF Crash, IInv

\* A stream is used again only when neither end takes part any more; whatever
\* an earlier session left on it is gone.
LEMMA OpenStreamStream ==
  ASSUME IInv, NEW s \in Streams, NEW i \in Nodes, NEW j \in Nodes, OpenStream(s, i, j)
  PROVE  /\ StreamOK(Client(s), Server(s))'
         /\ \A u \in Threads \ {Client(s), Server(s)} : SameThread(u)
<1>1. PICK c \in Threads, v \in Threads : c = Client(s) /\ v = Server(s) /\ c # v
  BY Ends2
<1>2. PICK m \in SyncMessage : m = Msg("IWantLatest", 0) /\ m.type = "IWantLatest"
  BY MsgFields DEF MessageTypes
<1>3. /\ node' = [node EXCEPT ![c] = i, ![v] = j]
      /\ reader' = [reader EXCEPT ![c] = "reading", ![v] = "reading"]
      /\ open' = [open EXCEPT ![c] = TRUE, ![v] = TRUE]
      /\ inbox' = [inbox EXCEPT ![c] = <<>>, ![v] = <<m>>]
      /\ latest' = [latest EXCEPT ![c] = 0, ![v] = 0]
      /\ myLatest' = [myLatest EXCEPT ![c] = Latest(i), ![v] = 0]
      /\ UNCHANGED <<stored, msg, faults>>
  BY <1>1, <1>2 DEF OpenStream
<1>4. 0 \in stored[j]
  BY LatestTable DEF IInv
<1>5. /\ reader'[c] = "reading" /\ reader'[v] = "reading" /\ open'[c] /\ open'[v]
      /\ inbox'[c] = <<>> /\ inbox'[v] = <<m>>
      /\ latest'[c] = 0 /\ myLatest'[v] = 0 /\ node'[v] = j
  BY <1>1, <1>3 DEF IInv, TypeOK
<1>6. Len(<<m>>) = 1 /\ <<m>>[1] = m
  OBVIOUS
<1>7. /\ Silent(c)' /\ ~Holds(c)' /\ Holds(v)' /\ Held(v)' = m
      /\ Active(c)' /\ Active(v)'
  BY <1>5, <1>6, NothingHeld DEF Silent, Holds, Held, Active
<1>8. StreamOK(c, v)'
  BY <1>2, <1>3, <1>4, <1>5, <1>7
     DEF StreamOK, OneSpeaks, Conversation, HoldsType, Announced, Moving, Faultless
<1>9. \A u \in Threads \ {c, v} : SameThread(u)
  BY <1>3 DEF SameThread, IInv, TypeOK
<1> QED
  BY <1>1, <1>8, <1>9

-----------------------------------------------------------------------------
(* The invariant holds initially and every step preserves it *)

LEMMA InitProtocol == Init => ProtocolInv
<1> SUFFICES ASSUME Init, NEW s \in Streams
             PROVE  StreamOK(Client(s), Server(s))
  BY DEF ProtocolInv
<1>1. PICK c \in Threads, v \in Threads : c = Client(s) /\ v = Server(s)
  BY Ends2
<1>2. /\ reader[c] = "ended" /\ reader[v] = "ended" /\ inbox[c] = <<>> /\ inbox[v] = <<>>
      /\ latest[c] = 0 /\ myLatest[v] = 0
  BY DEF Init
<1>3. node[c] \in Nodes /\ node[v] \in Nodes
  BY DEF Init
<1>4. \A n \in Nodes : 0 \in stored[n]
  BY InitIInv, LatestTable DEF IInv
<1>5. Silent(c) /\ Silent(v) /\ ~Holds(c) /\ ~Holds(v) /\ ~Active(c) /\ ~Active(v)
  BY <1>2, NothingHeld DEF Silent, Holds, Active
<1>6. OneSpeaks(c, v) /\ Conversation(c, v) /\ Moving(c, v)
  BY <1>5 DEF OneSpeaks, Conversation, HoldsType, Moving
<1>7. Announced(c, v) /\ Faultless(c, v)
  BY <1>2, <1>3, <1>4, <1>5 DEF Announced, Faultless, HoldsType
<1> QED
  BY <1>1, <1>6, <1>7 DEF StreamOK

LEMMA TablesGrow ==
  ASSUME IInv, [Next]_vars
  PROVE  Grows
<1>1. faults' = faults \/ faults' = faults + 1
  BY DEF Next, vars, ReaderStep, OpenStream, ReadMessage, ReadFails, ProcessWantLatest,
         ProcessGotLatestBehind, ProcessGotLatestLevel, ProcessGotSequenceNumber,
         ProcessWantSequenceNumber, HandlerFails, Done, GiveUp, Leave, Disconnect, Crash,
         Publish, Gossip, Fault
<1>2. faults' = 0 => faults = 0
  BY <1>1 DEF IInv, TypeOK
<1>3. \/ stored' = stored
      \/ \E n \in Nodes, k \in Nat : stored' = [stored EXCEPT ![n] = @ \cup {k}]
  <2>1. ASSUME NEW t \in Threads, ProcessGotSequenceNumber(t)
        PROVE  \E n \in Nodes, k \in Nat : stored' = [stored EXCEPT ![n] = @ \cup {k}]
    BY <2>1 DEF ProcessGotSequenceNumber, Save, IInv, TypeOK, SyncMessage
  <2>2. ASSUME NEW n \in Nodes, NEW k \in SeqNums, Gossip(n, k)
        PROVE  \E i \in Nodes, x \in Nat : stored' = [stored EXCEPT ![i] = @ \cup {x}]
    <3>1. k \in Nat
      BY PeerSyncAssumption DEF SeqNums
    <3>2. stored' = [stored EXCEPT ![n] = @ \cup {k}]
      BY <2>2 DEF Gossip
    <3> QED
      BY <3>1, <3>2
  <2> QED
    BY <2>1, <2>2
    DEF Next, vars, ReaderStep, OpenStream, ReadMessage, ReadFails, ProcessWantLatest,
        ProcessGotLatestBehind, ProcessGotLatestLevel, ProcessWantSequenceNumber,
        HandlerFails, Done, GiveUp, Leave, Disconnect, Crash, Publish
<1>4. \A n \in Nodes : stored[n] \subseteq stored'[n]
  <2>1. CASE stored' = stored
    BY <2>1
  <2>2. ASSUME NEW n \in Nodes, NEW k \in Nat, stored' = [stored EXCEPT ![n] = @ \cup {k}]
        PROVE  \A i \in Nodes : stored[i] \subseteq stored'[i]
    BY <2>2 DEF IInv, TypeOK
  <2> QED
    BY <1>3, <2>1, <2>2
<1> QED
  BY <1>2, <1>4 DEF Grows

\* Steps that leave every thread alone.
LEMMA ThreadsKept ==
  ASSUME TypeOK, ProtocolInv, Grows, UNCHANGED threadVars
  PROVE  ProtocolInv'
<1>1. \A u \in Threads : SameThread(u)
  BY DEF threadVars, SameThread
<1> QED
  BY <1>1, Ends2, StreamKept DEF ProtocolInv

LEMMA ThreadStepStream ==
  ASSUME IInv, NEW c, NEW v, Joined(c, v), StreamOK(c, v), NEW t \in {c, v},
         ReaderStep(t) \/ HandlerFails(t) \/ Done(t) \/ GiveUp(t)
  PROVE  StreamOK(c, v)' /\ \A u \in Threads \ {c, v} : SameThread(u)
<1>1. reader[t] = "handling" =>
        /\ t = c => msg[t].type \in {"IGotLatest", "IGotSequenceNumber"}
        /\ t = v => msg[t].type \in {"IWantLatest", "IWantSequenceNumber"}
  BY HandlingAlone DEF IInv
<1>2. CASE ReadMessage(t)
  BY <1>2, ReadMessageStream
<1>3. CASE ReadFails(t)
  BY <1>3, ReadFailsStream
<1>4. CASE ProcessWantLatest(t)
  <2>1. t = v
    BY <1>1, <1>4 DEF ProcessWantLatest, Handling
  <2> QED
    BY <1>4, <2>1, WantLatestStream
<1>5. CASE ProcessGotLatestBehind(t)
  <2>1. t = c
    BY <1>1, <1>5 DEF ProcessGotLatestBehind, Handling
  <2> QED
    BY <1>5, <2>1, GotLatestBehindStream
<1>6. CASE ProcessGotLatestLevel(t)
  <2>1. t = c
    BY <1>1, <1>6 DEF ProcessGotLatestLevel, Handling
  <2> QED
    BY <1>6, <2>1, GotLatestLevelStream
<1>7. CASE ProcessGotSequenceNumber(t)
  <2>1. t = c
    BY <1>1, <1>7 DEF ProcessGotSequenceNumber, Handling
  <2> QED
    BY <1>7, <2>1, GotSequenceNumberStream
<1>8. CASE ProcessWantSequenceNumber(t)
  <2>1. t = v
    BY <1>1, <1>8 DEF ProcessWantSequenceNumber, Handling
  <2> QED
    BY <1>8, <2>1, WantSequenceNumberStream
<1>9. CASE HandlerFails(t) \/ GiveUp(t)
  BY <1>9, HandlerFailsStream
<1>10. CASE Done(t)
  BY <1>10, DoneStream
<1> QED
  BY <1>2, <1>3, <1>4, <1>5, <1>6, <1>7, <1>8, <1>9, <1>10 DEF ReaderStep

LEMMA ThreadStep ==
  ASSUME IInv, ProtocolInv, Grows, NEW t \in Threads,
         ReaderStep(t) \/ HandlerFails(t) \/ Done(t) \/ GiveUp(t)
  PROVE  ProtocolInv'
<1>1. PICK s \in Streams : t \in {Client(s), Server(s)}
  BY StreamOf
<1>2. PICK c \in Threads, v \in Threads : c = Client(s) /\ v = Server(s) /\ Joined(c, v)
  BY Ends2 DEF Joined
<1>3. TypeOK /\ StreamOK(c, v) /\ t \in {c, v}
  BY <1>1, <1>2 DEF IInv, ProtocolInv
<1>4. StreamOK(c, v)' /\ \A u \in Threads \ {c, v} : SameThread(u)
  BY <1>2, <1>3, ThreadStepStream
<1> QED
  BY <1>2, <1>3, <1>4, OneStream

LEMMA NextProtocol == IInv /\ ProtocolInv /\ [Next]_vars => ProtocolInv'
<1> SUFFICES ASSUME IInv, ProtocolInv, [Next]_vars
             PROVE  ProtocolInv'
  OBVIOUS
<1>1. Grows /\ TypeOK
  BY TablesGrow DEF IInv
<1>2. ASSUME NEW s \in Streams, NEW i \in Nodes, NEW j \in Nodes, OpenStream(s, i, j)
      PROVE  ProtocolInv'
  BY <1>1, <1>2, OpenStreamStream, OneStream
<1>3. ASSUME NEW t \in Threads, ReaderStep(t) \/ HandlerFails(t) \/ Done(t) \/ GiveUp(t)
      PROVE  ProtocolInv'
  BY <1>1, <1>3, ThreadStep
<1>4. ASSUME NEW s \in Streams, Disconnect(s)
      PROVE  ProtocolInv'
  <2>1. StreamOK(Client(s), Server(s))
    BY DEF ProtocolInv
  <2> QED
    BY <1>1, <1>4, <2>1, DisconnectStream, OneStream
<1>5. ASSUME NEW n \in Nodes, Crash(n)
      PROVE  ProtocolInv'
  BY <1>5, CrashStream DEF ProtocolInv
<1>6. CASE UNCHANGED threadVars
  BY <1>1, <1>6, ThreadsKept
<1> QED
  BY <1>2, <1>3, <1>4, <1>5, <1>6 DEF Next, Publish, Gossip, vars

LEMMA ProtocolInvariance == Spec => [](IInv /\ ProtocolInv)
  BY InitProtocol, InitIInv, NextProtocol, NextIInv, PTL DEF Spec

-----------------------------------------------------------------------------
(* The theorems *)

\* On every stream at most one message is carried or handled, so that a thread
\* never handles an answer to a question it has not asked since its last one
\* (thread.go: each handler writes once and goes back to reading).
THEOREM OneMessagePerStream == Spec => []HalfDuplex
<1>1. IInv /\ ProtocolInv => HalfDuplex
  <2> SUFFICES ASSUME IInv, ProtocolInv, NEW s \in Streams
               PROVE  InTransit(Client(s)) + InTransit(Server(s)) <= 1
    BY DEF HalfDuplex
  <2>1. Len(<<>>) = 0
    OBVIOUS
  <2>2. /\ Silent(Client(s)) \/ Holds(Client(s))
        /\ Silent(Server(s)) \/ Holds(Server(s))
        /\ Silent(Client(s)) \/ Silent(Server(s))
    BY DEF ProtocolInv, StreamOK, OneSpeaks
  <2>3. ASSUME NEW t
        PROVE  (Silent(t) => InTransit(t) = 0) /\ (Holds(t) => InTransit(t) = 1)
    <3>1. Silent(t) => InTransit(t) = 0
      BY <2>1 DEF Silent, InTransit
    <3>2. CASE Len(inbox[t]) = 1 /\ reader[t] # "handling"
      BY <3>1, <3>2 DEF InTransit
    <3>3. CASE inbox[t] = <<>> /\ reader[t] = "handling"
      BY <2>1, <3>1, <3>3 DEF InTransit
    <3> QED
      BY <3>1, <3>2, <3>3 DEF Holds
  <2>4. /\ InTransit(Client(s)) = 0 \/ InTransit(Client(s)) = 1
        /\ InTransit(Server(s)) = 0 \/ InTransit(Server(s)) = 1
        /\ InTransit(Client(s)) = 0 \/ InTransit(Server(s)) = 0
    BY <2>2, <2>3
  <2> QED
    BY <2>4
<1> QED
  BY <1>1, ProtocolInvariance, PTL

\* A server is asked only for alerts that it stores, whatever the client and
\* the server stored meanwhile: processWantSequenceNumber (thread.go) never
\* answers ErrAlertNotFound to a client that runs this code.
THEOREM ServersCanAnswer == Spec => []RequestsServable
<1>1. IInv /\ ProtocolInv => RequestsServable
  <2>1. ASSUME IInv, ProtocolInv, NEW t \in Threads
        PROVE  /\ HoldsType(t, "IWantSequenceNumber") => Held(t).seq \in stored[node[t]]
               /\ Holds(t) \/ Silent(t)
    <3>1. PICK s \in Streams : t = Client(s) \/ t = Server(s)
      BY StreamOf
    <3>2. PICK c \in Threads, v \in Threads : c = Client(s) /\ v = Server(s)
      BY Ends2
    <3>3. StreamOK(c, v)
      BY <2>1, <3>2 DEF ProtocolInv
    <3>4. CASE t = c
      BY <3>3, <3>4 DEF StreamOK, OneSpeaks, Conversation, HoldsType
    <3>5. CASE t = v
      <4>1. ASSUME HoldsType(v, "IWantSequenceNumber")
            PROVE  Held(v).seq \in stored[node[v]]
        <5>1. Held(v) \in SyncMessage
          BY <2>1, <4>1 DEF IInv, TypeOK, HoldsType, Holds, Held
        <5>2. Held(v).seq \in Nat
          BY <5>1 DEF SyncMessage
        <5>3. Held(v).seq <= latest[c] /\ latest[c] \in stored[node[v]]
          BY <3>3, <4>1 DEF StreamOK, Conversation, Announced
        <5>4. node[v] \in Nodes
          BY <2>1 DEF IInv, TypeOK
        <5> QED
          BY <2>1, <5>2, <5>3, <5>4, LatestTable DEF IInv
      <4> QED
        BY <3>3, <3>5, <4>1 DEF StreamOK, OneSpeaks
    <3> QED
      BY <3>1, <3>2, <3>4, <3>5
  <2>2. ASSUME IInv, ProtocolInv, NEW t \in Threads, NEW i \in 1 .. Len(inbox[t]),
               inbox[t][i].type = "IWantSequenceNumber"
        PROVE  inbox[t][i].seq \in stored[node[t]]
    <3>1. Len(inbox[t]) \in Nat /\ Len(inbox[t]) # 0 /\ inbox[t] # <<>>
      BY <2>2, EmptySeq DEF IInv, TypeOK
    <3>2. Holds(t) /\ i = 1 /\ Held(t) = inbox[t][i]
      BY <2>1, <2>2, <3>1 DEF Holds, Silent, Held
    <3> QED
      BY <2>1, <2>2, <3>2 DEF HoldsType
  <2>3. ASSUME IInv, ProtocolInv, NEW t \in Threads, Handling(t, "IWantSequenceNumber")
        PROVE  msg[t].seq \in stored[node[t]]
    <3>1. Holds(t) /\ Held(t) = msg[t]
      BY <2>1, <2>3 DEF Handling, Silent, Held
    <3> QED
      BY <2>1, <2>3, <3>1 DEF HoldsType, Handling
  <2> QED
    BY <2>2, <2>3 DEF RequestsServable
<1> QED
  BY <1>1, ProtocolInvariance, PTL

\* The two ends of a stream never both wait for the other one to speak: no
\* session needs the timeout of a minute (thread.go) to end.
THEOREM NeverBothWait == Spec => []NoStandstill
<1>1. IInv /\ ProtocolInv => NoStandstill
  <2> SUFFICES ASSUME IInv, ProtocolInv, NEW s \in Streams,
                      \A t \in {Client(s), Server(s)} :
                        reader[t] = "reading" /\ open[t] /\ inbox[t] = <<>>
               PROVE  FALSE
    BY DEF NoStandstill
  <2>1. Moving(Client(s), Server(s))
    BY DEF ProtocolInv, StreamOK
  <2> QED
    BY <2>1, NothingHeld DEF Moving, Active, Holds
<1> QED
  BY <1>1, ProtocolInvariance, PTL

\* A session that ends without any fault has brought the client at least to
\* the latest alert that the server announced on it.
THEOREM SessionsComplete == Spec => []CompleteSync
<1>1. IInv /\ ProtocolInv => CompleteSync
  BY DEF ProtocolInv, StreamOK, Faultless, Active, CompleteSync
<1> QED
  BY <1>1, ProtocolInvariance, PTL

-----------------------------------------------------------------------------
(* Sessions take a bounded number of steps *)

\* The steps that the goroutines of a stream can take on account of a message
\* that is being handled: two for a request and its answer to be handled, two
\* for them to be read, and that for every alert up to the goal.  Before the
\* client has a goal there may be any number of alerts to fetch.
MessageSteps(m, goal) ==
  LET left == IF m.type \in {"IWantLatest", "IGotLatest"} THEN MaxSeq ELSE goal - m.seq
      turn == IF m.type \in {"IWantLatest", "IWantSequenceNumber"} THEN 4 ELSE 2
  IN 4 * left + turn

\* The steps on account of what is under way to t on the stream of client c
Ahead(c, t) ==
  IF Holds(t)
    THEN MessageSteps(Held(t), latest[c]) + (IF reader[t] = "handling" THEN 0 ELSE 1)
    ELSE 0

\* ... and those in which the two goroutines of t end
ThreadSteps(t) ==
  (IF Active(t) THEN 2 ELSE IF reader[t] = "reporting" THEN 1 ELSE 0)
    + (IF main[t] = "selecting" THEN 1 ELSE 0)

StepsLeft(c, v) == Ahead(c, c) + Ahead(c, v) + ThreadSteps(c) + ThreadSteps(v)

LEMMA ThreadStepsNat ==
  ASSUME NEW t
  PROVE  ThreadSteps(t) \in 0 .. 3
  BY DEF ThreadSteps

\* What the invariant says of the message under way bounds the steps ahead.
LEMMA AheadNat ==
  ASSUME IInv, NEW c, NEW v, Joined(c, v), StreamOK(c, v), NEW t \in {c, v}
  PROVE  /\ Ahead(c, t) \in 0 .. 4 * MaxSeq + 5
         /\ ~Holds(t) => Ahead(c, t) = 0
         /\ Holds(t) /\ reader[t] = "handling" =>
              Ahead(c, t) = MessageSteps(Held(t), latest[c])
         /\ Holds(t) => MessageSteps(Held(t), latest[c]) \in 2 .. 4 * MaxSeq + 4
<1>1. /\ MaxSeq \in Nat /\ t \in Threads
      /\ inbox[t] \in Seq(SyncMessage) /\ msg[t] \in SyncMessage
      /\ node[v] \in Nodes
  BY PeerSyncAssumption DEF Joined, IInv, TypeOK
<1>2. latest[c] \in 0 .. MaxSeq
  BY <1>1 DEF StreamOK, Announced, IInv, TypeOK, SeqNums
<1>3. CASE ~Holds(t)
  BY <1>1, <1>3 DEF Ahead
<1>4. CASE Holds(t)
  <2>1. Held(t) \in SyncMessage
    <3>1. CASE reader[t] = "handling"
      BY <1>1, <3>1 DEF Held
    <3>2. CASE reader[t] # "handling"
      <4>1. Len(inbox[t]) = 1
        BY <1>4, <3>2 DEF Holds
      <4>2. inbox[t][1] \in SyncMessage
        BY <1>1, <4>1, ElementOfSeq
      <4> QED
        BY <3>2, <4>2 DEF Held
    <3> QED
      BY <3>1, <3>2
  <2>2. Held(t).type \in MessageTypes /\ Held(t).seq \in Nat
    BY <2>1 DEF SyncMessage
  <2>3. Held(t).type \in {"IWantSequenceNumber", "IGotSequenceNumber"} => Held(t).seq <= latest[c]
    BY <1>4 DEF StreamOK, Conversation, HoldsType
  <2>4. MessageSteps(Held(t), latest[c]) \in 2 .. 4 * MaxSeq + 4
    BY <1>1, <1>2, <2>2, <2>3 DEF MessageSteps, MessageTypes
  <2> QED
    BY <1>1, <1>4, <2>4 DEF Ahead
<1> QED
  BY <1>3, <1>4

LEMMA StepsLeftNat ==
  ASSUME IInv, NEW c, NEW v, Joined(c, v), StreamOK(c, v)
  PROVE  StepsLeft(c, v) \in 0 .. 4 * MaxSeq + 11
<1>1. /\ Ahead(c, c) \in 0 .. 4 * MaxSeq + 5 /\ Ahead(c, v) \in 0 .. 4 * MaxSeq + 5
      /\ Ahead(c, c) = 0 \/ Ahead(c, v) = 0
  <2>1. ~Holds(c) \/ ~Holds(v)
    BY NothingHeld DEF StreamOK, OneSpeaks, Silent, Holds
  <2> QED
    BY <2>1, AheadNat
<1>2. ThreadSteps(c) \in 0 .. 3 /\ ThreadSteps(v) \in 0 .. 3
  BY ThreadStepsNat
<1>3. MaxSeq \in Nat
  BY PeerSyncAssumption
<1> QED
  BY <1>1, <1>2, <1>3 DEF StepsLeft

\* A handler ends on t: what it may have sent takes less than what it handled.
LEMMA AnswerShortens ==
  ASSUME IInv, NEW c, NEW v, Joined(c, v), StreamOK(c, v),
         NEW t \in {c, v}, NEW u \in {c, v}, u = Other(t), reader[t] = "handling",
         NEW x \in {"reading", "reporting"}, reader' = [reader EXCEPT ![t] = x],
         main' = main,
         \/ inbox' = inbox
         \/ \E m \in SyncMessage :
              /\ inbox' = Send(t, m)
              /\ MessageSteps(m, latest'[c]) \in Nat
              /\ MessageSteps(m, latest'[c]) + 1 < MessageSteps(msg[t], latest[c])
  PROVE  StepsLeft(c, v)' < StepsLeft(c, v)
<1>1. TypeOK /\ t \in Threads /\ u \in Threads /\ t # u /\ {t, u} = {c, v}
  BY DEF IInv, Joined
<1>2. inbox[t] = <<>> /\ inbox[u] = <<>> /\ reader[u] # "handling"
  BY <1>1, HandlingAlone
<1>3. Holds(t) /\ Held(t) = msg[t] /\ ~Holds(u)
  BY <1>2, NothingHeld DEF Holds, Held
<1>4. /\ Ahead(c, t) = MessageSteps(msg[t], latest[c])
      /\ Ahead(c, t) \in Nat /\ Ahead(c, t) >= 2
      /\ Ahead(c, u) = 0
  <2>1. MaxSeq \in Nat
    BY PeerSyncAssumption
  <2> QED
    BY <1>3, <2>1, AheadNat
<1>5. reader'[t] = x /\ reader'[u] = reader[u]
  BY <1>1 DEF TypeOK
<1>6. /\ Ahead(c, t)' = 0
      /\ Ahead(c, u)' \in Nat /\ Ahead(c, u)' < Ahead(c, t)
  <2>1. CASE inbox' = inbox
    <3>1. ~Holds(t)' /\ ~Holds(u)'
      BY <1>2, <1>5, <2>1, NothingHeld DEF Holds
    <3> QED
      BY <1>4, <3>1 DEF Ahead
  <2>2. ASSUME NEW m \in SyncMessage, inbox' = Send(t, m),
               MessageSteps(m, latest'[c]) \in Nat,
               MessageSteps(m, latest'[c]) + 1 < MessageSteps(msg[t], latest[c])
        PROVE  /\ Ahead(c, t)' = 0
               /\ Ahead(c, u)' \in Nat /\ Ahead(c, u)' < Ahead(c, t)
    <3>1. /\ Silent(t)'
          /\ Holds(u)' => Held(u)' = m
      <4>1. /\ Silent(t)'
            /\ open[t] /\ open[u] => Holds(u)' /\ Held(u)' = m
            /\ ~(open[t] /\ open[u]) => Silent(u)'
        BY <1>1, <1>2, <2>2, AnswerSent
      <4>2. Silent(u)' => ~Holds(u)'
        BY NothingHeld DEF Silent, Holds
      <4> QED
        BY <4>1, <4>2
    <3>2. ~Holds(t)'
      BY <3>1, NothingHeld DEF Silent, Holds
    <3>3. Ahead(c, t)' = 0
      BY <3>2 DEF Ahead
    <3>4. Ahead(c, u)' = 0 \/ Ahead(c, u)' = MessageSteps(m, latest'[c]) + 1
      <4>1. CASE ~Holds(u)'
        BY <4>1 DEF Ahead
      <4>2. CASE Holds(u)'
        <5>1. MessageSteps(Held(u), latest[c])' = MessageSteps(m, latest'[c])
          BY <3>1, <4>2 DEF MessageSteps
        <5> QED
          BY <1>2, <1>5, <4>2, <5>1 DEF Ahead
      <4> QED
        BY <4>1, <4>2
    <3> QED
      BY <1>4, <2>2, <3>3, <3>4
  <2> QED
    BY <2>1, <2>2
<1>7. ThreadSteps(t)' <= ThreadSteps(t) /\ ThreadSteps(u)' = ThreadSteps(u)
  BY <1>1, <1>5 DEF ThreadSteps, Active, TypeOK
<1>8. /\ ThreadSteps(t) \in 0 .. 3 /\ ThreadSteps(t)' \in 0 .. 3
      /\ ThreadSteps(u) \in 0 .. 3
  <2>1. ThreadSteps(t) \in 0 .. 3 /\ ThreadSteps(u) \in 0 .. 3
    BY ThreadStepsNat
  <2>2. ThreadSteps(t)' \in 0 .. 3
    BY DEF ThreadSteps
  <2> QED
    BY <2>1, <2>2
<1> DEFINE a == Ahead(c, t)  b == Ahead(c, u)  e == ThreadSteps(t)  f == ThreadSteps(u)
<1>9. StepsLeft(c, v) = a + b + e + f /\ StepsLeft(c, v)' = a' + b' + e' + f'
  <2>1. CASE t = c /\ u = v
    BY <2>1 DEF StepsLeft
  <2>2. CASE t = v /\ u = c
    BY <1>4, <1>6, <1>7, <1>8, <2>2 DEF StepsLeft
  <2> QED
    BY <1>1, <2>1, <2>2
<1> QED
  BY <1>4, <1>6, <1>7, <1>8, <1>9

\* The numbers in the protocol, as the handlers meet them.
LEMMA MessageStepsOf ==
  ASSUME NEW m \in SyncMessage, NEW goal \in Nat
  PROVE  /\ m.type = "IWantLatest" => MessageSteps(m, goal) = 4 * MaxSeq + 4
         /\ m.type = "IGotLatest" => MessageSteps(m, goal) = 4 * MaxSeq + 2
         /\ m.type = "IWantSequenceNumber" => MessageSteps(m, goal) = 4 * (goal - m.seq) + 4
         /\ m.type = "IGotSequenceNumber" => MessageSteps(m, goal) = 4 * (goal - m.seq) + 2
  BY DEF MessageSteps

LEMMA HandlersShorten ==
  ASSUME IInv, NEW c, NEW v, Joined(c, v), StreamOK(c, v), NEW t \in {c, v},
         \/ ProcessWantLatest(t)
         \/ ProcessGotLatestBehind(t)
         \/ ProcessGotLatestLevel(t)
         \/ ProcessGotSequenceNumber(t)
         \/ ProcessWantSequenceNumber(t)
  PROVE  StepsLeft(c, v)' < StepsLeft(c, v)
<1>1. PICK u \in {c, v} : u = Other(t)
  BY DEF Joined
<1>2. /\ TypeOK /\ t \in Threads /\ c \in Threads /\ reader[t] = "handling" /\ main' = main
      /\ MaxSeq \in Nat /\ latest[c] \in Nat
  BY PeerSyncAssumption DEF ProcessWantLatest, ProcessGotLatestBehind, ProcessGotLatestLevel,
     ProcessGotSequenceNumber, ProcessWantSequenceNumber, Handling, IInv, TypeOK, Joined
<1>3. PICK g \in SyncMessage : g = msg[t]
  BY <1>2 DEF TypeOK
<1>4. g.seq \in Nat
  BY DEF SyncMessage
<1>5. inbox[t] = <<>>
  BY <1>2, HandlingAlone
<1>6. /\ Holds(t) /\ Held(t) = g
      /\ g.type \in {"IGotLatest", "IGotSequenceNumber"} => t = c
      /\ g.type \in {"IWantLatest", "IWantSequenceNumber"} => t = v
  BY <1>2, <1>3, <1>5, HandlingAlone DEF Holds, Held
<1>7. AfterWrite(t) \in {"reading", "reporting"}
  BY AfterWriteValue
<1> DEFINE Answers == \E m \in SyncMessage :
             /\ inbox' = Send(t, m)
             /\ MessageSteps(m, latest'[c]) \in Nat
             /\ MessageSteps(m, latest'[c]) + 1 < MessageSteps(msg[t], latest[c])
           EndsIn(x) == x \in {"reading", "reporting"} /\ reader' = [reader EXCEPT ![t] = x]
<1>8. ASSUME Answers \/ inbox' = inbox, \E x : EndsIn(x)
      PROVE  StepsLeft(c, v)' < StepsLeft(c, v)
  BY <1>1, <1>2, <1>8, AnswerShortens
<1>9. CASE ProcessWantLatest(t)
  <2>1. PICK a \in Nat : a = Latest(node[t])
    BY <1>2, LatestStored DEF IInv, TypeOK
  <2>2. PICK m \in SyncMessage : m = Msg("IGotLatest", a) /\ m.type = "IGotLatest"
    BY MsgFields DEF MessageTypes
  <2>3. /\ inbox' = Send(t, m) /\ latest' = latest
        /\ EndsIn(AfterWrite(t)) /\ g.type = "IWantLatest"
    BY <1>3, <1>7, <1>9, <2>1, <2>2 DEF ProcessWantLatest, Handling
  <2>4. /\ MessageSteps(m, latest[c]) = 4 * MaxSeq + 2
        /\ MessageSteps(g, latest[c]) = 4 * MaxSeq + 4
    BY <1>2, <2>2, <2>3, MessageStepsOf
  <2>5. Answers
    BY <1>2, <1>3, <2>3, <2>4
  <2> HIDE DEF Answers
  <2> QED
    BY <1>8, <2>3, <2>5
<1>10. CASE ProcessGotLatestBehind(t)
  <2>1. PICK a \in Nat : a = Latest(node[t])
    BY <1>2, LatestStored DEF IInv, TypeOK
  <2>2. PICK m \in SyncMessage : /\ m = Msg("IWantSequenceNumber", a + 1)
                                 /\ m.type = "IWantSequenceNumber" /\ m.seq = a + 1
    BY MsgFields DEF MessageTypes
  <2>3. /\ inbox' = Send(t, m) /\ latest' = [latest EXCEPT ![t] = g.seq]
        /\ EndsIn(AfterWrite(t)) /\ g.type = "IGotLatest" /\ g.seq > a
    BY <1>3, <1>7, <1>10, <2>1, <2>2 DEF ProcessGotLatestBehind, Handling
  <2>4. t = c /\ latest'[c] = g.seq
    BY <1>2, <1>6, <2>3 DEF TypeOK
  <2>5. g.seq <= MaxSeq
    <3>1. g.seq = myLatest[v] /\ myLatest[v] \in stored[node[v]] /\ node[v] \in Nodes
      BY <1>6, <2>3, <2>4 DEF StreamOK, Conversation, Announced, HoldsType, IInv, TypeOK, Joined
    <3> QED
      BY <1>2, <3>1 DEF TypeOK, SeqNums
  <2>6. /\ MessageSteps(m, g.seq) = 4 * (g.seq - (a + 1)) + 4
        /\ MessageSteps(g, latest[c]) = 4 * MaxSeq + 2
    BY <1>2, <1>4, <2>2, <2>3, MessageStepsOf
  <2>7. Answers
    BY <1>2, <1>3, <1>4, <2>3, <2>4, <2>5, <2>6
  <2> HIDE DEF Answers
  <2> QED
    BY <1>8, <2>3, <2>7
<1>11. CASE ProcessGotLatestLevel(t)
  <2>1. PICK x \in {"reading", "reporting"} : reader' = [reader EXCEPT ![t] = x]
    BY <1>11 DEF ProcessGotLatestLevel
  <2> QED
    BY <1>8, <1>11, <2>1 DEF ProcessGotLatestLevel
<1>12. CASE ProcessGotSequenceNumber(t)
  <2>1. g.type = "IGotSequenceNumber" /\ latest' = latest
    BY <1>3, <1>12 DEF ProcessGotSequenceNumber, Handling
  <2>2. t = c /\ g.seq <= latest[c]
    BY <1>6, <2>1 DEF StreamOK, Conversation, HoldsType
  <2>3. CASE g.seq = latest[c]
    <3>1. inbox' = inbox /\ EndsIn("reporting")
      BY <1>3, <1>12, <2>2, <2>3 DEF ProcessGotSequenceNumber
    <3> HIDE DEF Answers
    <3> QED
      BY <1>8, <3>1
  <2>4. CASE g.seq # latest[c]
    <3>1. PICK m \in SyncMessage : /\ m = Msg("IWantSequenceNumber", g.seq + 1)
                                   /\ m.type = "IWantSequenceNumber" /\ m.seq = g.seq + 1
      BY <1>4, MsgFields DEF MessageTypes
    <3>2. inbox' = Send(t, m) /\ EndsIn(AfterWrite(t))
      BY <1>3, <1>7, <1>12, <2>2, <2>4, <3>1 DEF ProcessGotSequenceNumber
    <3>3. /\ MessageSteps(m, latest[c]) = 4 * (latest[c] - (g.seq + 1)) + 4
          /\ MessageSteps(g, latest[c]) = 4 * (latest[c] - g.seq) + 2
      BY <1>2, <2>1, <3>1, MessageStepsOf
    <3>4. Answers
      BY <1>2, <1>3, <1>4, <2>1, <2>2, <2>4, <3>2, <3>3
    <3> HIDE DEF Answers
    <3> QED
      BY <1>8, <3>2, <3>4
  <2> QED
    BY <2>3, <2>4
<1>13. CASE ProcessWantSequenceNumber(t)
  <2>1. g.type = "IWantSequenceNumber" /\ latest' = latest
    BY <1>3, <1>13 DEF ProcessWantSequenceNumber, Handling
  <2>2. g.seq <= latest[c]
    BY <1>6, <2>1 DEF StreamOK, Conversation, HoldsType
  <2>3. PICK m \in SyncMessage : /\ m = Msg("IGotSequenceNumber", g.seq)
                                 /\ m.type = "IGotSequenceNumber" /\ m.seq = g.seq
    BY <1>4, MsgFields DEF MessageTypes
  <2>4. inbox' = Send(t, m) /\ \E x : EndsIn(x)
    BY <1>3, <1>7, <1>13, <2>3 DEF ProcessWantSequenceNumber
  <2>5. /\ MessageSteps(m, latest[c]) = 4 * (latest[c] - g.seq) + 2
        /\ MessageSteps(g, latest[c]) = 4 * (latest[c] - g.seq) + 4
    BY <1>2, <2>1, <2>3, MessageStepsOf
  <2>6. Answers
    BY <1>2, <1>3, <1>4, <2>1, <2>2, <2>4, <2>5
  <2> HIDE DEF Answers
  <2> QED
    BY <1>8, <2>4, <2>6
<1> QED
  BY <1>9, <1>10, <1>11, <1>12, <1>13

LEMMA ReadMessageShortens ==
  ASSUME IInv, NEW c, NEW v, Joined(c, v), StreamOK(c, v), NEW t \in {c, v}, ReadMessage(t)
  PROVE  StepsLeft(c, v)' < StepsLeft(c, v)
<1>1. PICK u \in {c, v} : u = Other(t) /\ u # t /\ {t, u} = {c, v}
  BY DEF Joined
<1>2. /\ TypeOK /\ t \in Threads /\ u \in Threads
      /\ reader[t] = "reading" /\ inbox[t] # <<>> /\ inbox[t] \in Seq(SyncMessage)
      /\ reader' = [reader EXCEPT ![t] = "handling"]
      /\ msg' = [msg EXCEPT ![t] = Head(inbox[t])]
      /\ inbox' = [inbox EXCEPT ![t] = Tail(inbox[t])]
      /\ UNCHANGED <<main, latest>>
  BY DEF ReadMessage, Joined, IInv, TypeOK
<1>3. Holds(t) /\ ~Holds(u) /\ Len(inbox[t]) = 1 /\ Silent(u)
  <2>1. ~Silent(t)
    BY <1>2 DEF Silent
  <2>2. Holds(t) /\ Silent(u)
    BY <1>1, <2>1 DEF StreamOK, OneSpeaks
  <2> QED
    BY <1>2, <2>2, NothingHeld DEF Holds, Silent
<1>4. Tail(inbox[t]) = <<>> /\ Head(inbox[t]) = inbox[t][1]
  <2>1. Tail(inbox[t]) \in Seq(SyncMessage) /\ Len(Tail(inbox[t])) = 0
    BY <1>2, <1>3
  <2>2. Tail(inbox[t]) = <<>>
    BY <2>1, EmptySeq
  <2> QED
    BY <1>2, <2>2
<1>5. /\ reader'[t] = "handling" /\ inbox'[t] = <<>> /\ msg'[t] = inbox[t][1]
      /\ reader'[u] = reader[u] /\ inbox'[u] = inbox[u]
  BY <1>1, <1>2, <1>4 DEF TypeOK
<1>6. /\ Holds(t)' /\ Held(t)' = Held(t) /\ ~Holds(u)'
  BY <1>2, <1>3, <1>5, NothingHeld DEF Holds, Held, Silent
<1>7. /\ Ahead(c, t)' = MessageSteps(Held(t), latest[c])
      /\ Ahead(c, t) = MessageSteps(Held(t), latest[c]) + 1
      /\ Ahead(c, u) = 0 /\ Ahead(c, u)' = 0
  <2>1. MessageSteps(Held(t), latest[c])' = MessageSteps(Held(t), latest[c])
    BY <1>2, <1>6 DEF MessageSteps
  <2>2. MessageSteps(Held(t), latest[c]) \in Nat
    <3>1. MaxSeq \in Nat
      BY PeerSyncAssumption
    <3> QED
      BY <1>3, <3>1, AheadNat
  <2> QED
    BY <1>2, <1>3, <1>5, <1>6, <2>1, <2>2 DEF Ahead
<1>8. MessageSteps(Held(t), latest[c]) \in Nat
  <2>1. MaxSeq \in Nat
    BY PeerSyncAssumption
  <2> QED
    BY <1>3, <2>1, AheadNat
<1>9. ThreadSteps(t)' = ThreadSteps(t) /\ ThreadSteps(u)' = ThreadSteps(u)
  BY <1>2, <1>5 DEF ThreadSteps, Active
<1>10. ThreadSteps(t) \in 0 .. 3 /\ ThreadSteps(u) \in 0 .. 3
  BY ThreadStepsNat
<1>11. CASE t = c /\ u = v
  BY <1>7, <1>8, <1>9, <1>10, <1>11 DEF StepsLeft
<1>12. CASE t = v /\ u = c
  BY <1>7, <1>8, <1>9, <1>10, <1>12 DEF StepsLeft
<1> QED
  BY <1>1, <1>11, <1>12

\* No thread comes back, and what is under way is at most lost.
LEMMA RecedeShortens ==
  ASSUME IInv, NEW c, NEW v, Joined(c, v), StreamOK(c, v), Recedes(c), Recedes(v),
         ThreadSteps(c)' <= ThreadSteps(c), ThreadSteps(v)' <= ThreadSteps(v)
  PROVE  /\ StepsLeft(c, v)' <= StepsLeft(c, v)
         /\ ThreadSteps(c)' < ThreadSteps(c) \/ ThreadSteps(v)' < ThreadSteps(v) =>
              StepsLeft(c, v)' < StepsLeft(c, v)
<1>1. ASSUME NEW t \in {c, v}
      PROVE  Ahead(c, t) \in Nat /\ (Ahead(c, t)' = Ahead(c, t) \/ Ahead(c, t)' = 0)
  <2>1. Ahead(c, t) \in Nat
    <3>1. MaxSeq \in Nat
      BY PeerSyncAssumption
    <3> QED
      BY <3>1, AheadNat
  <2>2. CASE Holds(t)'
    <3>1. /\ Holds(t) /\ Held(t)' = Held(t)
          /\ reader'[t] = "handling" <=> reader[t] = "handling"
      <4>1. Holds(t) \/ Silent(t)
        BY DEF StreamOK, OneSpeaks
      <4> QED
        BY <2>2, <4>1, NothingHeld DEF Recedes, Holds, Held, Silent
    <3>2. MessageSteps(Held(t), latest[c])' = MessageSteps(Held(t), latest[c])
      BY <3>1 DEF MessageSteps, Recedes
    <3> QED
      BY <2>1, <2>2, <3>1, <3>2 DEF Ahead
  <2>3. CASE ~Holds(t)'
    BY <2>1, <2>3 DEF Ahead
  <2> QED
    BY <2>2, <2>3
<1>2. /\ ThreadSteps(c) \in 0 .. 3 /\ ThreadSteps(v) \in 0 .. 3
      /\ ThreadSteps(c)' \in 0 .. 3 /\ ThreadSteps(v)' \in 0 .. 3
  <2>1. ThreadSteps(c) \in 0 .. 3 /\ ThreadSteps(v) \in 0 .. 3
    BY ThreadStepsNat
  <2>2. ThreadSteps(c)' \in 0 .. 3 /\ ThreadSteps(v)' \in 0 .. 3
    BY DEF ThreadSteps
  <2> QED
    BY <2>1, <2>2
<1> QED
  BY <1>1, <1>2 DEF StepsLeft

LEMMA LeavingShortens ==
  ASSUME IInv, NEW c, NEW v, Joined(c, v), StreamOK(c, v), NEW t \in {c, v},
         ReadFails(t) \/ Done(t) \/ HandlerFails(t) \/ GiveUp(t)
  PROVE  StepsLeft(c, v)' < StepsLeft(c, v)
<1>1. TypeOK /\ t \in Threads /\ c \in Threads /\ v \in Threads /\ c # v
  BY DEF IInv, Joined
<1>2. /\ UNCHANGED <<node, inbox, msg, latest, myLatest>>
      /\ open' = open \/ open' = [open EXCEPT ![t] = FALSE]
      /\ \/ /\ Active(t) /\ main' = main
            /\ reader' = [reader EXCEPT ![t] = "reporting"]
         \/ /\ reader[t] = "reporting" /\ main' = [main EXCEPT ![t] = "returned"]
            /\ reader' = [reader EXCEPT ![t] = "ended"]
         \/ /\ main[t] = "selecting" /\ main' = [main EXCEPT ![t] = "returned"]
            /\ reader' = reader
  BY DEF ReadFails, Done, HandlerFails, GiveUp, Leave, Active
<1>3. Recedes(c) /\ Recedes(v)
  BY <1>1, <1>2 DEF Recedes, TypeOK
<1>4. ASSUME NEW u \in {c, v}, u # t
      PROVE  ThreadSteps(u)' = ThreadSteps(u)
  <2>1. reader'[u] = reader[u] /\ main'[u] = main[u]
    BY <1>1, <1>2, <1>4 DEF TypeOK
  <2> QED
    BY <2>1 DEF ThreadSteps, Active
<1>5. ThreadSteps(t)' < ThreadSteps(t)
  BY <1>1, <1>2 DEF ThreadSteps, Active, TypeOK
<1>6. ThreadSteps(c) \in 0 .. 3 /\ ThreadSteps(v) \in 0 .. 3 /\ ThreadSteps(t)' \in 0 .. 3
  <2>1. ThreadSteps(c) \in 0 .. 3 /\ ThreadSteps(v) \in 0 .. 3
    BY ThreadStepsNat
  <2>2. ThreadSteps(t)' \in 0 .. 3
    BY DEF ThreadSteps
  <2> QED
    BY <2>1, <2>2
<1>7. ThreadSteps(c)' <= ThreadSteps(c) /\ ThreadSteps(v)' <= ThreadSteps(v)
  BY <1>1, <1>4, <1>5, <1>6
<1> QED
  BY <1>3, <1>5, <1>7, RecedeShortens

LEMMA ThreadShortens ==
  ASSUME IInv, NEW c, NEW v, Joined(c, v), StreamOK(c, v), NEW t \in {c, v},
         ReaderStep(t) \/ Done(t) \/ HandlerFails(t) \/ GiveUp(t)
  PROVE  StepsLeft(c, v)' < StepsLeft(c, v)
BY HandlersShorten, ReadMessageShortens, LeavingShortens DEF ReaderStep

LEMMA SameSteps ==
  ASSUME NEW c, NEW v, SameThread(c), SameThread(v), main'[c] = main[c], main'[v] = main[v]
  PROVE  StepsLeft(c, v)' = StepsLeft(c, v)
<1>1. ASSUME NEW t \in {c, v}
      PROVE  Ahead(c, t)' = Ahead(c, t) /\ ThreadSteps(t)' = ThreadSteps(t)
  <2>1. (Holds(t)' <=> Holds(t)) /\ Held(t)' = Held(t)
    BY DEF SameThread, Holds, Held
  <2> QED
    BY <2>1 DEF SameThread, Ahead, MessageSteps, ThreadSteps, Active
<1> QED
  BY <1>1 DEF StepsLeft

\* On every stream only so many steps are left to its goroutines.
StepsBounded ==
  \A s \in Streams : StepsLeft(Client(s), Server(s)) \in 0 .. 4 * MaxSeq + 11

\* Steps of the network and of the machines, and of the other streams.
LEMMA OthersShorten ==
  ASSUME IInv, ProtocolInv, StepsBounded', [Next]_vars, NEW s \in Streams,
         ~ \E i, j \in Nodes : OpenStream(s, i, j)
  PROVE  StepsLeft(Client(s), Server(s))' <= StepsLeft(Client(s), Server(s))
<1>1. PICK c \in Threads, v \in Threads : c = Client(s) /\ v = Server(s) /\ Joined(c, v)
  BY Ends2 DEF Joined
<1>2. StreamOK(c, v) /\ TypeOK
  BY <1>1 DEF ProtocolInv, IInv
<1>3. StepsLeft(c, v) \in Nat
  <2>1. MaxSeq \in Nat
    BY PeerSyncAssumption
  <2> QED
    BY <1>1, <1>2, <2>1, StepsLeftNat
<1>4. ASSUME SameThread(c), SameThread(v), main'[c] = main[c], main'[v] = main[v]
      PROVE  StepsLeft(c, v)' <= StepsLeft(c, v)
  BY <1>3, <1>4, SameSteps
<1>5. ASSUME NEW r \in Streams, NEW i \in Nodes, NEW j \in Nodes, OpenStream(r, i, j)
      PROVE  StepsLeft(c, v)' <= StepsLeft(c, v)
  <2>1. r # s
    BY <1>5
  <2>2. SameThread(c) /\ SameThread(v)
    BY <1>1, <1>5, <2>1, OtherStreams, OpenStreamStream
  <2>3. main'[c] = main[c] /\ main'[v] = main[v]
    BY <1>1, <1>2, <1>5, <2>1, OtherStreams DEF OpenStream, TypeOK
  <2> QED
    BY <1>4, <2>2, <2>3
<1>6. ASSUME NEW t \in Threads, ReaderStep(t) \/ HandlerFails(t) \/ Done(t) \/ GiveUp(t)
      PROVE  StepsLeft(c, v)' <= StepsLeft(c, v)
  <2>1. CASE t \in {c, v}
    <3>1. StepsLeft(c, v)' < StepsLeft(c, v)
      BY <1>1, <1>2, <1>6, <2>1, ThreadShortens
    <3>2. StepsLeft(c, v)' \in Int
      BY <1>1, PeerSyncAssumption DEF StepsBounded
    <3> QED
      BY <1>3, <3>1, <3>2
  <2>2. CASE t \notin {c, v}
    <3>1. PICK r \in Streams : t \in {Client(r), Server(r)}
      BY StreamOf
    <3>2. PICK x \in Threads, y \in Threads : x = Client(r) /\ y = Server(r) /\ Joined(x, y)
      BY Ends2 DEF Joined
    <3>3. StreamOK(x, y) /\ t \in {x, y} /\ c \notin {x, y} /\ v \notin {x, y}
      BY <1>1, <2>2, <3>1, <3>2, OtherStreams DEF ProtocolInv
    <3>4. SameThread(c) /\ SameThread(v)
      BY <1>6, <3>2, <3>3, ThreadStepStream
    <3>5. main' = main \/ main' = [main EXCEPT ![t] = "returned"]
      BY <1>6 DEF ReaderStep, ReadMessage, ReadFails, ProcessWantLatest, ProcessGotLatestBehind,
         ProcessGotLatestLevel, ProcessGotSequenceNumber, ProcessWantSequenceNumber,
         HandlerFails, Done, GiveUp, Leave
    <3>6. main'[c] = main[c] /\ main'[v] = main[v]
      BY <1>2, <2>2, <3>5 DEF TypeOK
    <3> QED
      BY <1>4, <3>4, <3>6
  <2> QED
    BY <2>1, <2>2
<1>7. ASSUME NEW r \in Streams, Disconnect(r)
      PROVE  StepsLeft(c, v)' <= StepsLeft(c, v)
  <2>1. Recedes(c) /\ Recedes(v)
    <3>1. PICK x \in Threads, y \in Threads : x = Client(r) /\ y = Server(r) /\ x # y
      BY Ends2
    <3>2. /\ open' = [open EXCEPT ![x] = FALSE, ![y] = FALSE]
          /\ inbox' = [inbox EXCEPT ![x] = <<>>, ![y] = <<>>]
          /\ UNCHANGED <<node, reader, msg, latest, myLatest>>
      BY <1>7, <3>1 DEF Disconnect
    <3> QED
      BY <1>2, <3>1, <3>2 DEF Recedes, TypeOK
  <2>2. ThreadSteps(c)' = ThreadSteps(c) /\ ThreadSteps(v)' = ThreadSteps(v)
    BY <1>7 DEF Disconnect, ThreadSteps, Active
  <2>3. ThreadSteps(c) \in 0 .. 3 /\ ThreadSteps(v) \in 0 .. 3
    BY ThreadStepsNat
  <2>4. ThreadSteps(c)' <= ThreadSteps(c) /\ ThreadSteps(v)' <= ThreadSteps(v)
    BY <2>2, <2>3
  <2> QED
    BY <1>1, <1>2, <2>1, <2>4, RecedeShortens
<1>8. ASSUME NEW n \in Nodes, Crash(n)
      PROVE  StepsLeft(c, v)' <= StepsLeft(c, v)
  <2>1. Recedes(c) /\ Recedes(v)
    BY <1>2, <1>8 DEF Crash, Recedes, TypeOK
  <2>2. ASSUME NEW t \in {c, v}
        PROVE  ThreadSteps(t)' <= ThreadSteps(t)
    <3>1. /\ reader'[t] = reader[t] \/ reader'[t] = "ended"
          /\ main'[t] = main[t] \/ main'[t] = "returned"
      BY <1>1, <1>8 DEF Crash
    <3> QED
      BY <3>1 DEF ThreadSteps, Active
  <2> QED
    BY <1>1, <1>2, <2>1, <2>2, RecedeShortens
<1>9. ASSUME UNCHANGED threadVars
      PROVE  StepsLeft(c, v)' <= StepsLeft(c, v)
  <2>1. SameThread(c) /\ SameThread(v) /\ main' = main
    BY <1>9 DEF threadVars, SameThread
  <2> QED
    BY <1>4, <2>1
<1> QED
  BY <1>1, <1>5, <1>6, <1>7, <1>8, <1>9 DEF Next, Publish, Gossip, vars

\* Every step that a goroutine of a session takes brings its end nearer, and no
\* other step puts it off: not the alerts that are published or stored while the
\* session runs, for its goal is fixed, and not what the peer does.
SessionsShorten ==
  [][\A s \in Streams :
       \/ \E i, j \in Nodes : OpenStream(s, i, j)
       \/ /\ StepsLeft(Client(s), Server(s))' <= StepsLeft(Client(s), Server(s))
          /\ \A t \in {Client(s), Server(s)} :
               ReaderStep(t) \/ Done(t) =>
                 StepsLeft(Client(s), Server(s))' < StepsLeft(Client(s), Server(s))]_vars

\* The goroutines of a session take at most four steps for each alert and eleven
\* more, whatever their peer, publishers, faults and other sessions do: what is
\* left of SessionsEnd is that goroutines which can run do run, and that one of
\* the two can run until the session has ended (NeverBothWait).
THEOREM SessionsAreBounded == Spec => []StepsBounded /\ SessionsShorten
<1> DEFINE Shorten ==
      \A s \in Streams :
        \/ \E i, j \in Nodes : OpenStream(s, i, j)
        \/ /\ StepsLeft(Client(s), Server(s))' <= StepsLeft(Client(s), Server(s))
           /\ \A t \in {Client(s), Server(s)} :
                ReaderStep(t) \/ Done(t) =>
                  StepsLeft(Client(s), Server(s))' < StepsLeft(Client(s), Server(s))
<1>1. IInv /\ ProtocolInv => StepsBounded
  BY Ends2, StepsLeftNat DEF StepsBounded, ProtocolInv, Joined
<1>2. IInv /\ ProtocolInv /\ StepsBounded' /\ [Next]_vars => Shorten
  <2> SUFFICES ASSUME IInv, ProtocolInv, StepsBounded', [Next]_vars, NEW s \in Streams,
                      ~ \E i, j \in Nodes : OpenStream(s, i, j)
               PROVE  /\ StepsLeft(Client(s), Server(s))' <= StepsLeft(Client(s), Server(s))
                      /\ \A t \in {Client(s), Server(s)} :
                           ReaderStep(t) \/ Done(t) =>
                             StepsLeft(Client(s), Server(s))' < StepsLeft(Client(s), Server(s))
    OBVIOUS
  <2>1. Joined(Client(s), Server(s)) /\ StreamOK(Client(s), Server(s))
    BY Ends2 DEF Joined, ProtocolInv
  <2> QED
    BY <2>1, OthersShorten, ThreadShortens
<1> HIDE DEF Shorten
<1>3. Spec => []StepsBounded
  BY <1>1, ProtocolInvariance, PTL
<1>4. Spec => [][Shorten]_vars
  BY <1>2, <1>3, ProtocolInvariance, PTL DEF Spec
<1> QED
  BY <1>3, <1>4 DEF Shorten, SessionsShorten
=============================================================================
