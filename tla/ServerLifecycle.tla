-------------------------- MODULE ServerLifecycle --------------------------
(***************************************************************************)
(* The life of the process: main, Server.Start and Server.Stop of          *)
(* app/p2p/server.go, the web server, and the goroutines they start, from  *)
(* the first bootstrap peer to the interrupt signal.                       *)
(*                                                                         *)
(*   main      Start, then Serve, then waits for the shutdown to end       *)
(*   disc      RunPeerDiscovery and discoverPeers, one session at a time   *)
(*   cron      RunAlertProcessingCron                                      *)
(*   sub       Subscribe                                                   *)
(*   handler   stream handlers, one per incoming stream                    *)
(*   monitor   the goroutine Start leaves behind                           *)
(*   sig       the goroutine that waits for the interrupt signal           *)
(*                                                                         *)
(* They share the quit channels (three, with a buffer of one), a context,  *)
(* the datastore, the flag "connected" and, by accident of a closure, the  *)
(* variable err of Start.  What a session does is the subject of PeerSync, *)
(* what the workers do to the tables that of AlertNode.                    *)
(***************************************************************************)
EXTENDS Integers, FiniteSets

CONSTANTS
  Peers,      \* peers that can be found
  Handlers    \* incoming streams that can be open at a time

VARIABLES
  main, disc, cron, sub, monitor, sig,  \* where the goroutines are
  handler,      \* handler[h]: where the handler of stream h is
  found,        \* peers of the current search that are still to be tried
  count,        \* discoverPeers: the local variable connected
  connected,    \* Server.connected
  activePeers,  \* Server.activePeers
  quit,         \* quit[c]: tokens in quit channel c
  ctxDone,      \* cancelFunc has been called
  err,          \* the variable err of Start: "nil", "own" or a session's
  db,           \* Services.Datastore: "open", "closed" or "nil"
  web,          \* Server.WebServer: "nil", "set" or "down"
  host,         \* the libp2p host is open
  died          \* why the process has ended, "no" while it runs

goroutines == <<main, disc, cron, sub, monitor, sig, handler>>
shared == <<connected, activePeers, quit, ctxDone, err, db, web, host, died>>
vars == <<goroutines, found, count, shared>>

Channels == {"discovery", "processing", "initialization"}

TypeOK ==
  /\ main \in {"dht", "waiting", "join", "joined", "subscribe", "subscribed", "return",
               "spawn", "serve", "listen", "idle", "gone"}
  /\ disc \in {"off", "top", "find", "peers", "latest", "session", "complete", "tick", "ended"}
  /\ cron \in {"off", "tick", "work", "ended"}
  /\ sub \in {"off", "next", "work", "ended"}
  /\ monitor \in {"off", "select", "ended"}
  /\ sig \in {"off", "notify", "wait", "close", "forget", "web", "quit1", "quit2",
              "quit3", "host", "cancel", "done"}
  /\ handler \in [Handlers -> {"none", "session", "test", "log"}]
  /\ found \in SUBSET Peers
  /\ count \in Nat
  /\ connected \in BOOLEAN
  /\ activePeers \in Nat
  /\ quit \in [Channels -> 0 .. 1]
  /\ ctxDone \in BOOLEAN
  /\ err \in {"nil", "own", "session"}
  /\ db \in {"open", "closed", "nil"}
  /\ web \in {"nil", "set", "down"}
  /\ host \in BOOLEAN
  /\ died \in {"no", "exit", "interrupt", "fatal", "nilDatastore", "nilError"}

Alive == main # "gone"

Init ==
  /\ main = "dht"
  /\ disc = "off" /\ cron = "off" /\ sub = "off" /\ monitor = "off" /\ sig = "off"
  /\ handler = [h \in Handlers |-> "none"]
  /\ found = {}
  /\ count = 0
  /\ connected = FALSE
  /\ activePeers = 0
  /\ quit = [c \in Channels |-> 0]
  /\ ctxDone = FALSE
  /\ err = "nil"
  /\ db = "open"
  /\ web = "nil"
  /\ host = TRUE
  /\ died = "no"

Die(why) ==
  /\ main' = "gone"
  /\ died' = why

-----------------------------------------------------------------------------
(* main: Start *)

\* initDHT ends when a bootstrap peer is connected; Start then starts peer
\* discovery and the cron and sets the stream handler.
Bootstrapped ==
  /\ main = "dht"
  /\ main' = "waiting"
  /\ disc' = "top"
  /\ cron' = "tick"
  /\ UNCHANGED <<sub, monitor, sig, handler, found, count, shared>>

\* Start fails before that, and main with it.
BootstrapFails ==
  /\ main = "dht"
  /\ Die("fatal")
  /\ err' = "own"
  /\ UNCHANGED <<disc, cron, sub, monitor, sig, handler, found, count, connected,
                 activePeers, quit, ctxDone, db, web, host>>

\* The loop over s.connected; its case of a cancelled context cannot arise, for
\* nothing cancels the context before Start has returned.
Connected ==
  /\ main = "waiting"
  /\ connected
  /\ main' = "join"
  /\ UNCHANGED <<disc, cron, sub, monitor, sig, handler, found, count, shared>>

\* "topic, err = ps.Join(...)" and "sub, err = topic.Subscribe()" ...
Call ==
  /\ \/ main = "join" /\ main' = "joined"
     \/ main = "subscribe" /\ main' = "subscribed"
  /\ err' \in {"nil", "own"}
  /\ UNCHANGED <<disc, cron, sub, monitor, sig, handler, found, count, connected,
                 activePeers, quit, ctxDone, db, web, host, died>>

\* ... each followed by "err != nil", of a variable that the stream handlers
\* assign to.
CallFailed ==
  /\ main \in {"joined", "subscribed"}
  /\ err # "nil"
  /\ main' = "return"
  /\ UNCHANGED <<disc, cron, sub, monitor, sig, handler, found, count, shared>>

\* "return err": when a stream handler has reset it, main takes Start for
\* successful and serves without subscriber and monitor.
Return ==
  /\ main = "return"
  /\ \/ err # "nil" /\ Die("fatal")
     \/ err = "nil" /\ main' = "spawn" /\ UNCHANGED died
  /\ UNCHANGED <<disc, cron, sub, monitor, sig, handler, found, count, connected,
                 activePeers, quit, ctxDone, err, db, web, host>>

Joined ==
  /\ main = "joined"
  /\ err = "nil"
  /\ main' = "subscribe"
  /\ UNCHANGED <<disc, cron, sub, monitor, sig, handler, found, count, shared>>

\* Start returns after it has started the subscriber and the monitor.
Subscribed ==
  /\ main = "subscribed"
  /\ err = "nil"
  /\ main' = "spawn"
  /\ sub' = "next"
  /\ monitor' = "select"
  /\ UNCHANGED <<disc, cron, sig, handler, found, count, shared>>

-----------------------------------------------------------------------------
(* main: Serve *)

SpawnSignal ==
  /\ main = "spawn"
  /\ main' = "serve"
  /\ sig' = "notify"
  /\ UNCHANGED <<disc, cron, sub, monitor, handler, found, count, shared>>

Serve ==
  /\ main = "serve"
  /\ main' = "listen"
  /\ web' = "set"
  /\ UNCHANGED <<disc, cron, sub, monitor, sig, handler, found, count, connected,
                 activePeers, quit, ctxDone, err, db, host, died>>

\* ListenAndServe returns when the web server was shut down, before or after
\* the call, or when it cannot listen.
ServeReturns ==
  /\ main = "listen"
  /\ main' = "idle"
  /\ UNCHANGED <<disc, cron, sub, monitor, sig, handler, found, count, shared>>

\* "<-idleConnectionsClosed"
Exit ==
  /\ main = "idle"
  /\ sig = "done"
  /\ Die("exit")
  /\ UNCHANGED <<disc, cron, sub, monitor, sig, handler, found, count, connected,
                 activePeers, quit, ctxDone, err, db, web, host>>

MainStep ==
  \/ Bootstrapped
  \/ Connected
  \/ Call
  \/ CallFailed
  \/ Return
  \/ Joined
  \/ Subscribed
  \/ SpawnSignal
  \/ Serve
  \/ web = "down" /\ ServeReturns
  \/ Exit

-----------------------------------------------------------------------------
(* Quit channels *)

\* Mutant: the channels have no buffer, and nobody receives from one of them.
RoomUnbuffered(c) == c # "initialization" /\ quit[c] = 0

Room(c) == quit[c] = 0

\* Mutant: a copied line sends on the same channel twice.
StopChannelTwice ==
  [quit1 |-> "discovery", quit2 |-> "discovery", quit3 |-> "initialization"]

\* The channels that Stop sends on, in its order.
StopChannel ==
  [quit1 |-> "discovery", quit2 |-> "processing", quit3 |-> "initialization"]

\* Mutant: a receive that does not wait, as from a closed channel.
TakeClosed(c) == quit' = [quit EXCEPT ![c] = @ - 1]

Take(c) ==
  /\ quit[c] > 0
  /\ quit' = [quit EXCEPT ![c] = @ - 1]

-----------------------------------------------------------------------------
(* Peer discovery *)

\* Mutant: the goroutine does not look at its context.
CancelledNever == FALSE

Cancelled == ctxDone

\* Mutant: a flag instead of a counter.
SyncedFlag == count' = 1

\* "connected++"
Synced == count' = count + 1

MinPeersOne == 1  \* Mutant: one peer is enough.
MinPeers == 2

\* A quit token makes discoverPeers return, but it is RunPeerDiscovery that
\* would end the goroutine: it finds the channel empty and waits for the next
\* tick.
DiscQuit ==
  /\ \/ disc = "top" /\ disc' = "tick"
     \/ disc = "tick" /\ disc' = "ended"
  /\ Take("discovery")
  /\ UNCHANGED <<main, cron, sub, monitor, sig, handler, found, count, connected,
                 activePeers, ctxDone, err, db, web, host, died>>

DiscCancelled ==
  /\ Cancelled
  /\ \/ disc = "top" /\ disc' = "tick"
     \/ disc = "tick" /\ disc' = "ended"
  /\ UNCHANGED <<main, cron, sub, monitor, sig, handler, found, count, shared>>

\* The ticker: a new call of discoverPeers.
DiscTick ==
  /\ disc = "tick"
  /\ disc' = "top"
  /\ count' = 0
  /\ UNCHANGED <<main, cron, sub, monitor, sig, handler, found, shared>>

\* The default case of the select.
DiscDefault == disc = "top" /\ quit["discovery"] = 0 /\ ~Cancelled

DiscSearch ==
  /\ DiscDefault
  /\ count < MinPeers
  /\ disc' = "find"
  /\ UNCHANGED <<main, cron, sub, monitor, sig, handler, found, count, shared>>

DiscComplete ==
  /\ DiscDefault
  /\ count >= MinPeers
  /\ disc' = "complete"
  /\ activePeers' = count
  /\ UNCHANGED <<main, cron, sub, monitor, sig, handler, found, count, connected, quit,
                 ctxDone, err, db, web, host, died>>

DiscConnected ==
  /\ disc = "complete"
  /\ disc' = "tick"
  /\ connected' = TRUE
  /\ UNCHANGED <<main, cron, sub, monitor, sig, handler, found, count, activePeers, quit,
                 ctxDone, err, db, web, host, died>>

\* FindPeers; the peers of an earlier search may be among those found.
DiscFind(peers) ==
  /\ disc = "find"
  /\ disc' = "peers"
  /\ found' = peers
  /\ UNCHANGED <<main, cron, sub, monitor, sig, handler, count, shared>>

DiscFindFails ==
  /\ disc = "find"
  /\ disc' = "tick"
  /\ UNCHANGED <<main, cron, sub, monitor, sig, handler, found, count, shared>>

\* Connect and NewStream, or the failure of one of them.
DiscConnect(p) ==
  /\ disc = "peers"
  /\ p \in found
  /\ host
  /\ found' = found \ {p}
  /\ disc' = "latest"
  /\ UNCHANGED <<main, cron, sub, monitor, sig, handler, count, shared>>

DiscConnectFails(p) ==
  /\ disc = "peers"
  /\ p \in found
  /\ found' = found \ {p}
  /\ UNCHANGED <<goroutines, count, shared>>

DiscPeersDone ==
  /\ disc = "peers"
  /\ found = {}
  /\ disc' = "top"
  /\ UNCHANGED <<main, cron, sub, monitor, sig, handler, found, count, shared>>

\* GetLatestAlert of Sync
DiscLatest ==
  /\ disc = "latest"
  /\ disc' \in {"session", "peers"}
  /\ UNCHANGED <<main, cron, sub, monitor, sig, handler, found, count, shared>>

\* Sync returns nil: the session is complete or the connection was lost.
DiscSynced ==
  /\ disc = "session"
  /\ disc' = "peers"
  /\ Synced
  /\ UNCHANGED <<main, cron, sub, monitor, sig, handler, found, shared>>

\* So it does when it takes the quit token.
DiscSessionQuit ==
  /\ disc = "session"
  /\ disc' = "peers"
  /\ Synced
  /\ Take("discovery")
  /\ UNCHANGED <<main, cron, sub, monitor, sig, handler, found, connected,
                 activePeers, ctxDone, err, db, web, host, died>>

\* An error, or ErrSyncTimeout after a minute.
DiscSyncFails ==
  /\ disc = "session"
  /\ disc' = "peers"
  /\ UNCHANGED <<main, cron, sub, monitor, sig, handler, found, count, shared>>

DiscStep ==
  \/ DiscQuit
  \/ DiscCancelled
  \/ DiscTick
  \/ DiscSearch
  \/ DiscComplete
  \/ DiscConnected
  \/ \E peers \in SUBSET Peers : DiscFind(peers)
  \/ DiscFindFails
  \/ \E p \in Peers : DiscConnect(p) \/ DiscConnectFails(p)
  \/ DiscPeersDone
  \/ DiscLatest
  \/ DiscSynced
  \/ DiscSessionQuit
  \/ DiscSyncFails

-----------------------------------------------------------------------------
(* The other goroutines *)

\* The select of the cron does not look at the context.
CronStep ==
  /\ \/ cron = "tick" /\ cron' = "work" /\ UNCHANGED quit
     \/ cron = "work" /\ cron' = "tick" /\ UNCHANGED quit
     \/ cron = "tick" /\ cron' = "ended" /\ Take("processing")
  /\ UNCHANGED <<main, disc, sub, monitor, sig, handler, found, count, connected,
                 activePeers, ctxDone, err, db, web, host, died>>

SubStep ==
  /\ \/ sub = "next" /\ sub' = "work"
     \/ sub = "next" /\ ctxDone /\ sub' = "ended"
     \/ sub = "work" /\ sub' = "next"
  /\ UNCHANGED <<main, disc, cron, monitor, sig, handler, found, count, shared>>

\* The monitor takes a token meant for discovery and goes on.
MonitorStep ==
  /\ monitor = "select"
  /\ \/ Take("discovery") /\ UNCHANGED monitor
     \/ ctxDone /\ monitor' = "ended" /\ UNCHANGED quit
  /\ UNCHANGED <<main, disc, cron, sub, sig, handler, found, count, connected,
                 activePeers, ctxDone, err, db, web, host, died>>

HandlerGoto(h, label) == handler' = [handler EXCEPT ![h] = label]

HandlerStart(h) ==
  /\ main # "dht"
  /\ host
  /\ handler[h] = "none"
  /\ HandlerGoto(h, "session")
  /\ UNCHANGED <<main, disc, cron, sub, monitor, sig, found, count, shared>>

\* "err = t.ProcessSyncMessage(ctx)", of the err of Start
HandlerEnd(h) ==
  /\ handler[h] = "session"
  /\ HandlerGoto(h, "test")
  /\ err' \in {"nil", "session"}
  /\ UNCHANGED <<main, disc, cron, sub, monitor, sig, found, count, connected,
                 activePeers, quit, ctxDone, db, web, host, died>>

\* "err != nil"
HandlerTest(h) ==
  /\ handler[h] = "test"
  /\ HandlerGoto(h, IF err = "nil" THEN "none" ELSE "log")
  /\ UNCHANGED <<main, disc, cron, sub, monitor, sig, found, count, shared>>

\* "err.Error()"
HandlerLog(h) ==
  /\ handler[h] = "log"
  /\ err # "nil"
  /\ HandlerGoto(h, "none")
  /\ UNCHANGED <<main, disc, cron, sub, monitor, sig, found, count, shared>>

HandlerPanics(h) ==
  /\ handler[h] = "log"
  /\ err = "nil"
  /\ Die("nilError")
  /\ UNCHANGED <<disc, cron, sub, monitor, sig, handler, found, count, connected,
                 activePeers, quit, ctxDone, err, db, web, host>>

HandlerStep(h) == HandlerEnd(h) \/ HandlerTest(h) \/ HandlerLog(h) \/ HandlerPanics(h)

\* A goroutine that reads the database when there is none any more; in a work
\* or session state it may also be past its last read.
NilDatastore ==
  /\ db = "nil"
  /\ \/ cron = "work" \/ sub = "work" \/ disc \in {"latest", "session"}
     \/ \E h \in Handlers : handler[h] = "session"
  /\ Die("nilDatastore")
  /\ UNCHANGED <<disc, cron, sub, monitor, sig, handler, found, count, connected,
                 activePeers, quit, ctxDone, err, db, web, host>>

-----------------------------------------------------------------------------
(* The interrupt signal *)

\* Until signal.Notify is called the signal ends the process; a second signal
\* stays in the channel.
Interrupt ==
  /\ \/ /\ sig \in {"off", "notify"}
        /\ Die("interrupt")
        /\ UNCHANGED sig
     \/ /\ sig = "wait"
        /\ sig' = "close"
        /\ UNCHANGED <<main, died>>
  /\ UNCHANGED <<disc, cron, sub, monitor, handler, found, count, connected,
                 activePeers, quit, ctxDone, err, db, web, host>>

SigGoto(from, to) ==
  /\ sig = from
  /\ sig' = to
  /\ UNCHANGED <<main, disc, cron, sub, monitor, handler, found, count, connected,
                 activePeers, err, died>>

Notify == SigGoto("notify", "wait") /\ UNCHANGED <<quit, ctxDone, db, web, host>>

\* webServer.Shutdown: CloseAll closes the datastore and forgets it, ...
CloseDatastore ==
  SigGoto("close", "forget") /\ db' = "closed" /\ UNCHANGED <<quit, ctxDone, web, host>>

ForgetDatastore ==
  SigGoto("forget", "web") /\ db' = "nil" /\ UNCHANGED <<quit, ctxDone, web, host>>

\* ... then the web server is shut down, if Serve has set it.
ShutdownWeb ==
  /\ SigGoto("web", "quit1")
  /\ web' = IF web = "set" THEN "down" ELSE web
  /\ UNCHANGED <<quit, ctxDone, db, host>>

\* Server.Stop sends on its channels, ...
StopSend(from, to) ==
  LET c == StopChannel[from] IN
  /\ SigGoto(from, to)
  /\ Room(c)
  /\ quit' = [quit EXCEPT ![c] = 1]
  /\ UNCHANGED <<ctxDone, db, web, host>>

\* ... and closes the host, which ends what was open on it.
CloseHost == SigGoto("host", "cancel") /\ host' = FALSE /\ UNCHANGED <<quit, ctxDone, db, web>>

Cancel == SigGoto("cancel", "done") /\ ctxDone' = TRUE /\ UNCHANGED <<quit, db, web, host>>

SigStep ==
  \/ Notify
  \/ CloseDatastore
  \/ ForgetDatastore
  \/ ShutdownWeb
  \/ StopSend("quit1", "quit2")
  \/ StopSend("quit2", "quit3")
  \/ StopSend("quit3", "host")
  \/ CloseHost
  \/ Cancel

-----------------------------------------------------------------------------
Next ==
  /\ Alive
  /\ \/ MainStep
     \/ BootstrapFails
     \/ ServeReturns
     \/ DiscStep
     \/ CronStep
     \/ SubStep
     \/ MonitorStep
     \/ \E h \in Handlers : HandlerStart(h) \/ HandlerStep(h)
     \/ NilDatastore
     \/ Interrupt
     \/ SigStep

Spec == Init /\ [][Next]_vars

\* Goroutines that can run do run, and a select does not pass over one of its
\* ready cases for ever.  FindPeers, which only answers an error when it is
\* called wrongly, does not fail for ever, and some peer is found, connected
\* and synced with again and again.  Nothing else is owed: no signal, no
\* stream, no alert.
Fairness ==
  /\ WF_vars(Alive /\ MainStep)
  /\ WF_vars(Alive /\ SigStep)
  /\ WF_vars(Alive /\ MonitorStep)
  /\ WF_vars(Alive /\ DiscStep)
  /\ SF_vars(Alive /\ disc = "tick" /\ (DiscQuit \/ DiscCancelled))
  /\ SF_vars(Alive /\ \E p \in Peers : DiscFind({p}))
  /\ SF_vars(Alive /\ \E p \in Peers : DiscConnect(p))
  /\ SF_vars(Alive /\ DiscLatest /\ disc' = "session")
  /\ SF_vars(Alive /\ DiscSynced)
  /\ <>[][~DiscFindFails]_vars

FairSpec == Spec /\ Fairness

-----------------------------------------------------------------------------
(* Properties *)

\* Stop never waits for a receiver: each of its channels has room when it
\* sends, although nobody is left to receive from two of them.
StopNeverBlocks ==
  \A q \in {"quit1", "quit2", "quit3"} : sig = q => quit[StopChannel[q]] = 0

\* The process does not serve its API, and does not take an interrupt signal,
\* before a discovery round has counted two peers.
ServesConnected ==
  main \in {"serve", "listen", "idle"} \/ sig # "off" => connected /\ activePeers >= 2

\* A node that can find a peer again and again gets to serve its API, even if
\* it is always the same peer.
EventuallyServes == <>(web # "nil" \/ ~Alive)

\* An interrupt signal ends a process that serves.
SignalEnds == sig = "close" /\ web # "nil" ~> ~Alive

\* Whichever goroutine has taken the quit token, discovery ends after Stop.
DiscoveryEnds == sig = "done" ~> disc = "ended" \/ ~Alive

\* "Shutdown will stop the web server" (webserver.go:73).
ShutdownStopsServer == sig = "done" ~> main # "listen"
=============================================================================
