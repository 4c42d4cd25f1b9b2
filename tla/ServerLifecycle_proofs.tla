----------------------- MODULE ServerLifecycle_proofs -----------------------
(***************************************************************************)
(* Proofs about ServerLifecycle, for any peers and any number of incoming  *)
(* streams: the types, Stop never waits for a receiver, and the process    *)
(* serves only after a discovery round has counted two peers.              *)
(***************************************************************************)
EXTENDS ServerLifecycle, TLAPS

\* A quit channel is empty until Stop sends on it: nobody else does, and Stop
\* sends on each once.
Unsent ==
  /\ sig \in {"off", "notify", "wait", "close", "forget", "web", "quit1"}
       => quit["discovery"] = 0
  /\ sig \in {"off", "notify", "wait", "close", "forget", "web", "quit1", "quit2"}
       => quit["processing"] = 0
  /\ sig \in {"off", "notify", "wait", "close", "forget", "web", "quit1", "quit2", "quit3"}
       => quit["initialization"] = 0

\* main leaves the loop of Start when connected is set, which is for good and
\* comes with the number of peers; the signal goroutine starts after Start.
PastStart == main \in {"join", "joined", "subscribe", "subscribed", "return", "spawn", "serve",
                      "listen", "idle"}
BeforeServe == main \in {"dht", "waiting", "join", "joined", "subscribe", "subscribed", "return", "spawn"}

Counted ==
  /\ connected \/ disc = "complete" => activePeers >= 2
  /\ PastStart => connected
  /\ sig # "off" => connected
  /\ BeforeServe => sig = "off"

IInv == TypeOK /\ Unsent /\ Counted

LEMMA InitIInv == Init => IInv
<1> SUFFICES ASSUME Init
             PROVE  IInv
  OBVIOUS
<1>1. connected \in BOOLEAN /\ ctxDone \in BOOLEAN /\ host \in BOOLEAN
  BY DEF Init
<1>2. TypeOK
  BY <1>1 DEF Init, TypeOK
<1>3. Unsent
  BY DEF Init, Unsent, Channels
<1>4. Counted
  BY DEF Init, Counted, PastStart, BeforeServe
<1> QED
  BY <1>2, <1>3, <1>4 DEF IInv

-----------------------------------------------------------------------------
(* Steps that leave the quit channels, what Counted speaks of and the signal *)
(* goroutine alone                                                           *)

LEMMA QuietStep ==
  ASSUME IInv, TypeOK',
         UNCHANGED <<connected, activePeers, quit, sig>>,
         PastStart' => PastStart, BeforeServe' => BeforeServe,
         disc' = "complete" => disc = "complete"
  PROVE  IInv'
  BY DEF IInv, Unsent, Counted

\* A receive takes a token that Unsent allows to be there.
LEMMA TakeStep ==
  ASSUME IInv, TypeOK', NEW c \in Channels, Take(c),
         UNCHANGED <<connected, activePeers, sig, main>>,
         disc' = "complete" => disc = "complete"
  PROVE  IInv'
<1>1. quit \in [Channels -> 0 .. 1]
  BY DEF IInv, TypeOK
<1>2. \A d \in Channels : quit[d] = 0 => quit'[d] = 0
  BY <1>1 DEF Take
<1>3. Unsent'
  BY <1>2 DEF IInv, Unsent, Channels
<1>4. Counted'
  BY DEF IInv, Counted, PastStart, BeforeServe
<1> QED
  BY <1>3, <1>4 DEF IInv

LEMMA TakeTypes ==
  ASSUME TypeOK, NEW c \in Channels, Take(c)
  PROVE  quit' \in [Channels -> 0 .. 1]
  BY DEF TypeOK, Take

-----------------------------------------------------------------------------
(* main *)

LEMMA MainTypes ==
  ASSUME TypeOK, MainStep \/ BootstrapFails \/ ServeReturns
  PROVE  TypeOK'
<1> USE DEF TypeOK, shared
<1>1. CASE Bootstrapped
  BY <1>1 DEF Bootstrapped
<1>2. CASE Connected
  BY <1>2 DEF Connected
<1>3. CASE Call
  BY <1>3 DEF Call
<1>4. CASE CallFailed
  BY <1>4 DEF CallFailed
<1>5. CASE Joined
  BY <1>5 DEF Joined
<1>6. CASE Subscribed
  BY <1>6 DEF Subscribed
<1>7. CASE SpawnSignal
  BY <1>7 DEF SpawnSignal
<1>8. CASE Serve
  BY <1>8 DEF Serve
<1>9. CASE ServeReturns
  BY <1>9 DEF ServeReturns
<1>10. CASE Exit
  BY <1>10 DEF Exit, Die
<1>11. CASE BootstrapFails
  BY <1>11 DEF BootstrapFails, Die
<1>12. CASE Return
  BY <1>12 DEF Return, Die
<1> QED
  BY <1>1, <1>2, <1>3, <1>4, <1>5, <1>6, <1>7, <1>8, <1>9, <1>10, <1>11, <1>12 DEF MainStep

\* Only Connected gets past the loop of Start, and only a main that has got
\* past it starts the signal goroutine.
LEMMA MainKeeps ==
  ASSUME IInv, MainStep \/ BootstrapFails \/ ServeReturns
  PROVE  IInv'
<1>1. TypeOK'
  BY MainTypes DEF IInv
<1>2. CASE Connected
  <2>1. Unsent'
    BY <1>2 DEF IInv, Unsent, Connected, shared
  <2>2. Counted'
    BY <1>2 DEF IInv, Counted, BeforeServe, Connected, shared
  <2> QED
    BY <1>1, <2>1, <2>2 DEF IInv
<1>3. CASE SpawnSignal
  <2>1. Unsent'
    <3>1. UNCHANGED quit /\ sig' = "notify"
      BY <1>3 DEF SpawnSignal, shared
    <3>2. sig = "off"
      BY <1>3 DEF IInv, Counted, BeforeServe, SpawnSignal
    <3> QED
      BY <3>1, <3>2 DEF IInv, Unsent
  <2>2. Counted'
    BY <1>3 DEF IInv, Counted, PastStart, BeforeServe, SpawnSignal, shared
  <2> QED
    BY <1>1, <2>1, <2>2 DEF IInv
<1>4. CASE Bootstrapped
  BY <1>1, <1>4, QuietStep DEF Bootstrapped, PastStart, BeforeServe, shared
<1>5. CASE Call
  BY <1>1, <1>5, QuietStep DEF Call, PastStart, BeforeServe
<1>6. CASE CallFailed
  BY <1>1, <1>6, QuietStep DEF CallFailed, PastStart, BeforeServe, shared
<1>7. CASE Joined
  BY <1>1, <1>7, QuietStep DEF Joined, PastStart, BeforeServe, shared
<1>8. CASE Subscribed
  BY <1>1, <1>8, QuietStep DEF Subscribed, PastStart, BeforeServe, shared
<1>9. CASE Serve
  BY <1>1, <1>9, QuietStep DEF Serve, PastStart, BeforeServe
<1>10. CASE ServeReturns
  BY <1>1, <1>10, QuietStep DEF ServeReturns, PastStart, BeforeServe, shared
<1>11. CASE Exit
  BY <1>1, <1>11, QuietStep DEF Exit, Die, PastStart, BeforeServe
<1>12. CASE BootstrapFails
  BY <1>1, <1>12, QuietStep DEF BootstrapFails, Die, PastStart, BeforeServe
<1>13. CASE Return
  BY <1>1, <1>13, QuietStep DEF Return, Die, PastStart, BeforeServe
<1> QED
  BY <1>2, <1>3, <1>4, <1>5, <1>6, <1>7, <1>8, <1>9, <1>10, <1>11, <1>12, <1>13 DEF MainStep

-----------------------------------------------------------------------------
(* Peer discovery *)

LEMMA DiscTypes ==
  ASSUME TypeOK, DiscStep
  PROVE  TypeOK'
<1> USE DEF TypeOK, shared
<1>1. CASE DiscQuit
  BY <1>1, TakeTypes DEF DiscQuit, Channels
<1>2. CASE DiscCancelled
  BY <1>2 DEF DiscCancelled
<1>3. CASE DiscTick
  BY <1>3 DEF DiscTick
<1>4. CASE DiscSearch
  BY <1>4 DEF DiscSearch
<1>5. CASE DiscComplete
  BY <1>5 DEF DiscComplete
<1>6. ASSUME NEW peers \in SUBSET Peers, DiscFind(peers)
      PROVE  TypeOK'
  BY <1>6 DEF DiscFind
<1>7. CASE DiscFindFails
  BY <1>7 DEF DiscFindFails
<1>8. ASSUME NEW p \in Peers, DiscConnect(p)
      PROVE  TypeOK'
  BY <1>8 DEF DiscConnect
<1>9. ASSUME NEW p \in Peers, DiscConnectFails(p)
      PROVE  TypeOK'
  BY <1>9 DEF DiscConnectFails, goroutines
<1>10. CASE DiscPeersDone
  BY <1>10 DEF DiscPeersDone
<1>11. CASE DiscLatest
  BY <1>11 DEF DiscLatest
<1>12. CASE DiscSynced
  BY <1>12 DEF DiscSynced, Synced
<1>13. CASE DiscSessionQuit
  BY <1>13, TakeTypes DEF DiscSessionQuit, Synced, Channels
<1>14. CASE DiscSyncFails
  BY <1>14 DEF DiscSyncFails
<1>15. CASE DiscConnected
  BY <1>15 DEF DiscConnected
<1> QED
  BY <1>1, <1>2, <1>3, <1>4, <1>5, <1>6, <1>7, <1>8, <1>9, <1>10, <1>11, <1>12,
     <1>13, <1>14, <1>15 DEF DiscStep

LEMMA DiscKeeps ==
  ASSUME IInv, DiscStep
  PROVE  IInv'
<1>1. TypeOK'
  BY DiscTypes DEF IInv
<1>2. CASE DiscQuit \/ DiscSessionQuit
  BY <1>1, <1>2, TakeStep DEF DiscQuit, DiscSessionQuit, Channels
<1>3. CASE DiscComplete
  <2>1. Unsent'
    BY <1>3 DEF IInv, Unsent, DiscComplete
  <2>2. Counted'
    BY <1>3 DEF IInv, TypeOK, Counted, PastStart, BeforeServe, DiscComplete, MinPeers
  <2> QED
    BY <1>1, <2>1, <2>2 DEF IInv
<1>4. CASE DiscConnected
  <2>1. Unsent'
    BY <1>4 DEF IInv, Unsent, DiscConnected
  <2>2. Counted'
    BY <1>4 DEF IInv, Counted, PastStart, BeforeServe, DiscConnected
  <2> QED
    BY <1>1, <2>1, <2>2 DEF IInv
<1>5. ASSUME ~ (DiscQuit \/ DiscSessionQuit \/ DiscComplete \/ DiscConnected)
      PROVE  UNCHANGED <<connected, activePeers, quit, sig, main>> /\ disc' # "complete"
  <2>1. CASE \E p \in Peers : DiscConnectFails(p)
    BY <2>1 DEF DiscConnectFails, goroutines, shared
  <2> QED
    BY <1>5, <2>1
       DEF DiscStep, DiscCancelled, DiscTick, DiscSearch, DiscFind, DiscFindFails, DiscConnect,
           DiscPeersDone, DiscLatest, DiscSynced, DiscSyncFails, shared
<1> QED
  BY <1>1, <1>2, <1>3, <1>4, <1>5, QuietStep DEF PastStart, BeforeServe

-----------------------------------------------------------------------------
(* The other goroutines *)

LEMMA OthersKeep ==
  ASSUME IInv,
         \/ CronStep
         \/ SubStep
         \/ MonitorStep
         \/ \E h \in Handlers : HandlerStart(h) \/ HandlerStep(h)
         \/ NilDatastore
  PROVE  IInv'
<1> USE DEF shared
<1>1. TypeOK
  BY DEF IInv
<1>2. CASE CronStep
  <2>1. TypeOK'
    BY <1>1, <1>2, TakeTypes DEF TypeOK, CronStep, Channels
  <2> QED
    BY <1>2, <2>1, TakeStep, QuietStep DEF CronStep, Channels, PastStart, BeforeServe
<1>3. CASE SubStep
  <2>1. TypeOK'
    BY <1>1, <1>3 DEF TypeOK, SubStep
  <2> QED
    BY <1>3, <2>1, QuietStep DEF SubStep, PastStart, BeforeServe
<1>4. CASE MonitorStep
  <2>1. TypeOK'
    BY <1>1, <1>4, TakeTypes DEF TypeOK, MonitorStep, Channels
  <2> QED
    BY <1>4, <2>1, TakeStep, QuietStep DEF MonitorStep, Channels, PastStart, BeforeServe
<1>5. ASSUME NEW h \in Handlers, HandlerStart(h) \/ HandlerStep(h)
      PROVE  IInv'
  <2>1. TypeOK'
    <3>1. CASE HandlerStart(h)
      BY <1>1, <3>1 DEF TypeOK, HandlerStart, HandlerGoto
    <3>2. CASE HandlerEnd(h)
      BY <1>1, <3>2 DEF TypeOK, HandlerEnd, HandlerGoto
    <3>3. CASE HandlerTest(h)
      BY <1>1, <3>3 DEF TypeOK, HandlerTest, HandlerGoto
    <3>4. CASE HandlerLog(h)
      BY <1>1, <3>4 DEF TypeOK, HandlerLog, HandlerGoto
    <3>5. CASE HandlerPanics(h)
      BY <1>1, <3>5 DEF TypeOK, HandlerPanics, Die
    <3> QED
      BY <1>5, <3>1, <3>2, <3>3, <3>4, <3>5 DEF HandlerStep
  <2>2. UNCHANGED <<connected, activePeers, quit, sig, disc>> /\ (main' = main \/ main' = "gone")
    BY <1>5 DEF HandlerStart, HandlerStep, HandlerEnd, HandlerTest, HandlerLog, HandlerPanics, Die
  <2> QED
    BY <2>1, <2>2, QuietStep DEF PastStart, BeforeServe
<1>6. CASE NilDatastore
  <2>1. TypeOK'
    BY <1>1, <1>6 DEF TypeOK, NilDatastore, Die
  <2> QED
    BY <1>6, <2>1, QuietStep DEF NilDatastore, Die, PastStart, BeforeServe
<1> QED
  BY <1>2, <1>3, <1>4, <1>5, <1>6

-----------------------------------------------------------------------------
(* The signal goroutine *)

\* A step that neither starts the goroutine nor takes it past a send.
LEMMA SigQuiet ==
  ASSUME IInv, TypeOK', UNCHANGED <<connected, activePeers, quit>>,
         sig # "off", sig' # "off",
         sig' \in {"notify", "wait", "close", "forget", "web", "quit1"}
           => sig \in {"notify", "wait", "close", "forget", "web", "quit1"},
         sig' \notin {"quit2", "quit3"},
         PastStart' => PastStart, BeforeServe' => BeforeServe,
         disc' = "complete" => disc = "complete"
  PROVE  IInv'
  BY DEF IInv, Unsent, Counted

\* A send fills its own channel only, which Unsent speaks of no longer.
LEMMA SendKeeps ==
  ASSUME IInv,
         \/ StopSend("quit1", "quit2")
         \/ StopSend("quit2", "quit3")
         \/ StopSend("quit3", "host")
  PROVE  IInv'
<1>1. TypeOK
  BY DEF IInv
<1>2. ASSUME NEW c \in Channels, NEW from, NEW to,
             <<from, to, c>> \in {<<"quit1", "quit2", "discovery">>,
                                  <<"quit2", "quit3", "processing">>,
                                  <<"quit3", "host", "initialization">>},
             StopSend(from, to)
      PROVE  IInv'
  <2>1. StopChannel[from] = c
    BY <1>2 DEF StopChannel
  <2>2. /\ sig = from /\ sig' = to
        /\ quit' = [quit EXCEPT ![c] = 1]
        /\ UNCHANGED <<main, disc, cron, sub, monitor, handler, found, count, connected,
                       activePeers, ctxDone, err, db, web, host, died>>
    BY <1>2, <2>1 DEF StopSend, SigGoto
  <2>3. TypeOK'
    BY <1>1, <1>2, <2>2 DEF TypeOK
  <2>4. Unsent'
    BY <1>1, <1>2, <2>2 DEF IInv, TypeOK, Unsent, Channels
  <2>5. Counted'
    BY <1>2, <2>2 DEF IInv, Counted, PastStart, BeforeServe
  <2> QED
    BY <2>3, <2>4, <2>5 DEF IInv
<1>3. {"discovery", "processing", "initialization"} \subseteq Channels
  BY DEF Channels
<1> QED
  BY <1>2, <1>3

LEMMA SigKeeps ==
  ASSUME IInv, SigStep \/ Interrupt
  PROVE  IInv'
<1>1. TypeOK
  BY DEF IInv
<1>2. CASE StopSend("quit1", "quit2") \/ StopSend("quit2", "quit3") \/ StopSend("quit3", "host")
  BY <1>2, SendKeeps
<1>3. CASE Notify
  <2>1. TypeOK'
    BY <1>1, <1>3 DEF TypeOK, Notify, SigGoto
  <2> QED
    BY <1>3, <2>1, SigQuiet DEF Notify, SigGoto, PastStart, BeforeServe
<1>4. CASE CloseDatastore
  <2>1. TypeOK'
    BY <1>1, <1>4 DEF TypeOK, CloseDatastore, SigGoto
  <2> QED
    BY <1>4, <2>1, SigQuiet DEF CloseDatastore, SigGoto, PastStart, BeforeServe
<1>5. CASE ForgetDatastore
  <2>1. TypeOK'
    BY <1>1, <1>5 DEF TypeOK, ForgetDatastore, SigGoto
  <2> QED
    BY <1>5, <2>1, SigQuiet DEF ForgetDatastore, SigGoto, PastStart, BeforeServe
<1>6. CASE ShutdownWeb
  <2>1. TypeOK'
    BY <1>1, <1>6 DEF TypeOK, ShutdownWeb, SigGoto
  <2> QED
    BY <1>6, <2>1, SigQuiet DEF ShutdownWeb, SigGoto, PastStart, BeforeServe
<1>7. CASE CloseHost
  <2>1. TypeOK'
    <3>1. host' \in BOOLEAN
      BY <1>7 DEF CloseHost
    <3> QED
      BY <1>1, <1>7, <3>1 DEF TypeOK, CloseHost, SigGoto
  <2> QED
    BY <1>7, <2>1, SigQuiet DEF CloseHost, SigGoto, PastStart, BeforeServe
<1>8. CASE Cancel
  <2>1. TypeOK'
    BY <1>1, <1>8 DEF TypeOK, Cancel, SigGoto
  <2> QED
    BY <1>8, <2>1, SigQuiet DEF Cancel, SigGoto, PastStart, BeforeServe
<1>9. CASE Interrupt
  <2>1. TypeOK'
    BY <1>1, <1>9 DEF TypeOK, Interrupt, Die
  <2>2. CASE sig = "wait"
    BY <1>9, <2>1, <2>2, SigQuiet DEF Interrupt, PastStart, BeforeServe
  <2>3. CASE sig # "wait"
    BY <1>9, <2>1, <2>3, QuietStep DEF Interrupt, Die, PastStart, BeforeServe
  <2> QED
    BY <2>2, <2>3
<1> QED
  BY <1>2, <1>3, <1>4, <1>5, <1>6, <1>7, <1>8, <1>9 DEF SigStep

-----------------------------------------------------------------------------
LEMMA NextIInv == IInv /\ [Next]_vars => IInv'
<1> SUFFICES ASSUME IInv, [Next]_vars
             PROVE  IInv'
  OBVIOUS
<1>1. CASE UNCHANGED vars
  <2>1. TypeOK'
    BY <1>1 DEF IInv, TypeOK, vars, goroutines, shared
  <2> QED
    BY <1>1, <2>1, QuietStep DEF PastStart, BeforeServe, vars, goroutines, shared
<1>2. CASE Next
  BY <1>2, MainKeeps, DiscKeeps, OthersKeep, SigKeeps DEF Next
<1> QED
  BY <1>1, <1>2

LEMMA Invariance == Spec => []IInv
  BY InitIInv, NextIInv, PTL DEF Spec

\* Every variable keeps its type, for any peers and streams.
THEOREM TypeCorrect == Spec => []TypeOK
<1>1. IInv => TypeOK
  BY DEF IInv
<1> QED
  BY <1>1, Invariance, PTL

\* Server.Stop never waits for a receiver on one of its quit channels, however
\* its tokens and the end of the goroutines interleave.
THEOREM StopIsWaitFree == Spec => []StopNeverBlocks
<1>1. IInv => StopNeverBlocks
  BY DEF IInv, Unsent, StopNeverBlocks, StopChannel
<1> QED
  BY <1>1, Invariance, PTL

\* The process serves, and heeds a signal, only when a discovery round has
\* counted two peers.
THEOREM ServesOnlyConnected == Spec => []ServesConnected
<1>1. IInv => ServesConnected
  BY DEF IInv, Counted, PastStart, BeforeServe, ServesConnected
<1> QED
  BY <1>1, Invariance, PTL
=============================================================================
