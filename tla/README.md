# A verification of go-alert-system

This directory holds TLA+ models of the alert system node in `src/`, the TLC
configurations that check them, and TLAPS proofs about them.

A node keeps a log of signed alerts, numbered from 0 without gaps. It gets them
by gossip, by syncing from peers and, the first one, from its own code; it
performs each (set the signing keys, ban a peer, freeze an output, ...) and
records it. The hard part is that three kinds of goroutines do this
concurrently, over two database tables and without transactions around what
belongs together, while peers, the bitcoin node, the database and the process
itself may fail at any step.

## Inventory

| Component | State | Operations | Interacts with | Hard because |
|---|---|---|---|---|
| Peer sync protocol (`app/p2p/thread.go`, `sync.go`) | per stream: `latestSequence`, `myLatestSequence`, the channel `done` | `Sync`, `ProcessSyncMessage`, four handlers | peers by libp2p streams; the tables | two goroutines per stream, leaked readers, timeouts, stale sequence numbers |
| Alert processing (`server.go` `Subscribe`, `processAlerts`; `thread.go` `ProcessGotSequenceNumber`; `alert_message*.go`, `public_key.go`) | tables `alert_messages`, `public_keys` | validate, `Do`, `Save`, retry | bitcoin node RPC, datastore | check then act, effect and record not atomic, keys rewritten in several transactions |
| P2P server life cycle (`server.go`, `dht.go`, `main.go`, `webserver.go`) | three quit channels, a context, `connected`, `activePeers`, `WebServer`, `Services.Datastore` | `Start`, `Stop`, discovery, cron, stream handlers, `Serve`, `Shutdown` | everything | seven kinds of goroutines that share variables without locks |
| Genesis and startup (`genesis_alert.go`, `config/load.go`, `config/datastore.go`) | tables, configuration | `CreateGenesisAlert`, `LoadDependencies` | datastore | crash between two saves |
| P2P identity (`server.go` `NewServer`) | key file | read or generate a key | file system | restart |
| Alert codec (`alert_message*.go`, `sync.go`) | none | `ReadRaw`, `Serialize`, `Read` of each type, message frames | go-sdk readers and writers; the column `raw` | no length in front of the message; every hop writes the alert anew; a type without a reader; keys that do not parse |
| Model layer (`app/models/model`) | none | `Save`, `Get` | datastore | - |
| Bitcoin node RPC (`config/node.go`) | none | calls | bitcoin node | failures |
| API (`app/api/base`) | none | `/health`, `/alerts`, `/alert/:sequence` | tables | an answer put together from queries between which alerts arrive and are processed |
| Webhook (`app/webhook`) | none | `PostAlert` | `Subscribe`; an HTTP endpoint | called whether `Save` has failed or not |
| Publishing tool (`hack/publish.go`) | none | build, sign, check and publish one alert | topic; the tables of its node | writes messages by hand that the nodes read by format |

What makes each correct: the log of a node is always a gap-free prefix of the
published alerts; a session either makes the client catch up or ends; an alert
that is marked processed was performed, and one that is not is retried until it
is; the keys follow the log; what a node stores is what was signed, and reads back;
what its handlers answer is true, but for a count of 0 that a failed query has left;
a node that has peers gets to serve; an interrupt
signal ends the process. `PROJECT.json` lists the hazards that stand in the way
at their lines, and the properties that cover them.

## Modules

| Module | Models |
|---|---|
| `AlertLog` | the abstract promise: every node has a log that grows by the next published alert, one at a time |
| `PeerSync` | any number of nodes and streams running the sync protocol, with gossip; implements `AlertLog` |
| `AlertNode` | one node inside: tables, subscriber, sync readers, cron, at the grain of single database and RPC calls |
| `NodeReports` | `AlertNode` with its web server and webhook: what the node says while it works |
| `Wire` | alerts as bytes: written, framed, read, kept, retried and served, by any number of nodes |
| `Startup` | the process from its start to where `ServerLifecycle` begins, over interruptions and restarts |
| `ServerLifecycle` | the process: start, discovery, serving, signal, shutdown |
| `PeerSync_proofs`, `PeerProtocol_proofs`, `AlertNode_proofs`, `AlertNodeFaultless_proofs`, `NodeReports_proofs`, `Wire_proofs`, `Startup_proofs`, `ServerLifecycle_proofs` | theorems and proofs |
| `MCPeerSync`, `MCAlertNode`, `MCNodeReports`, `MCWire`, `MCStartup`, `MCServerLifecycle` | constants for TLC |

`Startup` ends where `ServerLifecycle` begins, and the tables it leaves are the
initial states of `PeerSync` and `AlertNode`. Those and `ServerLifecycle` look
at the same code at different distances. In `PeerSync` storing an alert is one
step and what counts is the messages; `AlertNode` opens that step into lookups,
`Do` and `Save`, and keeps of a session only what it has requested; in
`ServerLifecycle` a session is a state a goroutine is in, with a result.
`NodeReports` is built on top of `AlertNode`: each of its steps is a step of it
or leaves its variables alone. `Wire` takes an alert that a session or gossip
brings in one step, as `PeerSync` does, but keeps every byte, and performs and
saves it in steps, as `AlertNode` does.

### PeerSync

`stored[n]` is the table of node `n` as a set of sequence numbers, `published`
the alerts a publisher has put in circulation. A stream has two threads, the
client that called `Sync` and the server whose stream handler was called. Each
has `main` (the goroutine in the `select` of `ProcessSyncMessage`) and `reader`
(the goroutine that reads and handles messages); they meet on the unbuffered
channel `done`. When `main` leaves by timeout the reader lives on, as it does in
the code. Handlers are actions named after the methods. A message is a record
with type and sequence number. Faults (timeout, lost connection, failing
handler, crash) are counted up to `MaxFaults`.

`NotFoundErr` says what a lookup by sequence number answers when there is no
row. At this commit it is `"ErrAlertNotFound"` (`alert_message.go:340`), and
then `Subscribe` drops every new alert (`server.go:542`). `"ErrNoResults"` is
the value `Subscribe` was written for; the safety runs use it so that gossip
takes part, and the behaviours of the commit are among those they cover.

### AlertNode

`rows` is the table of alerts in the order of insertion (duplicates are
possible: there is no unique index), `active` the keys whose flag is set. A
worker (`"sub"`, `"cron"`, a reader) has a program counter that stands before
its next database or RPC call, and the alert it works on. The steps of
`SetKeys.Do` are `DoClear`, then one `DoInstall` per key. `performed` records
which alerts took effect; the code does not have it, the properties do.
`TablePrefix` is the configured table prefix, which one of the statements
ignores (`public_key.go:101`). Alerts are abstract: a sequence number, the keys
they install, the keys they are signed with. `SaveRow` is the `Save` of a row that
is new and what follows it, in `Subscribe` and in a sync reader alike.

### NodeReports

`health` is the handler of `/health` between its two queries and then its last
answer; `told` the highest number that `/alerts` has listed; `post` the
notification that `Subscribe` is sending. `HealthAnswerBlind` is the second query
failing: the handler drops the error and answers 200 with the length of an empty
list (`health.go:36`). That zero may be false, and nobody who gets the answer can
tell; `failed`, which is no part of the answer, lets `HealthTruthful` do so. It
holds every answer to its sequence number, and the count to the alerts only if its
query has succeeded.
`synced` is the constant `true` there and not in the model. The list of
`/alerts` has the genesis alert, which `/alert/0` cannot show: its row has no
message and `ReadRaw` rejects it.

`Subscribe` posts after `Save`, also when `Save` has failed: `PostedHappened`
therefore promises a stored alert only while the database has not failed. With
the code as it is `Subscribe` never gets that far (`node_dropped`), so that the
webhook is never called; the run takes the answer that `Subscribe` tests for.

### Wire

An alert on the topic is a sequence of bytes. `ReadRaw` cuts it up, `Serialize`
writes the fields again, and it is the result of the second that a node keeps,
serves in a session and reads again in the cron and in the API. The readers of
the eight types are translated from their source, with the variable-length
integers and strings of go-sdk they call; `SyncMessage`, `Frame` and `Received`
are the messages of a session. `IsAlert` states the format without the readers.
`Parses` and `Sign` stand for the curve: any predicate on keys and any function
from keys and data to signatures.

`handling[n]` are the alerts that goroutines of a node have accepted and not yet
done with, at most `MaxAtWork` on all nodes together. `Do` of a set-keys alert is
`ClearKeys` and then one `UpdateKey` or `InsertKey` for each of the five keys,
every one a transaction of its own (`DoWrite`); between them other goroutines
take up, perform and save alerts, `Do` fails and leaves what it has written
(`SaveUnprocessed`, `SaveNothing`), or the process dies (`Crash`), `MaxFaults`
times in all. A row that a lookup finds is neither removed nor given another key,
so that saving it is one step with the lookup; when it finds none (`FindNone`),
another goroutine may insert the key first, and the key then has two rows. `keyRows[n]` is
the table of keys with the flag of each, of which `ActiveKeys` are the page that
`GetActivePublicKey` reads. That two goroutines may work on the same alert, and
insert it twice, is left to `AlertNode`.

`Circulations` are the drafts publishers have; `Publish` signs one and, as the
tool does, checks it with the keys of a node. `Noise` are other strings on the
topic. A type without a reader makes the process panic (`Panic`), as its
`ProcessAlertMessage` answers nil and `Read` is called on it. Type 99 is cut up
with one signature and 63 bytes that are dropped when it is written again; it has
no reader either, so none is kept.

The information and the confiscation alert that the tool writes are no alerts to a node
(`ToolAlertsRead` in `MCWire`): they lack the lengths that the readers expect.
For types 5, 6 and 8 the tool has no message at all.

### Startup

`phase` is where `main` stands: `"load"` before `LoadDependencies`,
`"datastore"` before `loadDatastore`, `"lookup"` and `"keys"` in
`CreateGenesisAlert`, `"rpc"` before `BestBlockHash`, `"identity"` and `"host"`
in `NewServer`. `keyRows` and `genesis` are the rows in the tables, `keyFile` the
identity in the key file, each identity a number of its own. Every `Save` of
`CreateGenesisAlert` is a step, and `Interrupted` may come between any two.
`conf` is a configuration, of which the model keeps what a condition in the code
looks at.

### ServerLifecycle

One variable per goroutine says where it is; the quit channels are counters
with capacity one. `err` is the variable of `Start` that the stream handlers
assign to. What a session or a worker does to the tables is left to the other
modules; here it matters that it uses the datastore while the signal goroutine
closes it and sets it to nil. The model has the ways in which the process may
go wrong on the side: `NilDatastore` (a goroutine that still needs the datastore
panics during the shutdown), `CallFailed` with the `err` of an incoming stream
(`Start` fails and `main` exits), `Return` with an `err` that an incoming stream has
reset (`Start` has failed and `main` serves all the same, without subscriber
and monitor), `HandlerPanics` (a handler calls `err.Error()` after another one has
reset `err`). No property excludes them, because the code
promises nothing that would; they run beside everything that is checked.

## Runs

Bounds: `MaxSeq`, the highest sequence number; `MaxFaults`, `MaxRefusals`, the
number of faults and of failing RPC calls; `MaxAtWork`, the alerts
being performed at a time in `Wire`; `MaxStarts`, the starts of the process
in `Startup`, which has to be above `MaxFaults` for the last start to go
through. Everything else is finite by itself, except `count` and `activePeers`
in `ServerLifecycle`, which a search adds at most the number of found peers to.

| Run | Shows |
|---|---|
| `peersync_safety` | two nodes, two streams in any direction, two alerts, one fault, gossip: the tables stay prefixes of the log; at most one message is under way on a stream; a server is never asked for what it lacks; the two ends never wait for each other; a session without fault is complete |
| `peersync_live` | one stream at a time, no gossip: implements `AlertLog`; every node catches up; sessions end without their timeout |
| `node_live` | four alerts (two of them set-keys), a sync reader and the cron, one fault, two failing RPC calls, at the commit's behaviour: the tables are consistent at every step; an unprocessed alert is eventually processed, across a fault; without faults a node stores everything its peers hold, although the key changes must come in order for the alerts to validate |
| `node_reports` | three alerts (one set-keys), gossip that stores, a sync reader, the cron, one fault, one failing RPC call, and requests at any point: what `/health`, `/alerts` and the webhook say is true and stays true, except for the zero of a failed query |
| `wire` | two nodes, one of which stores by gossip; two alerts being performed at a time and one failure or crash; one alert of each type, of an unknown one and of type 99, with messages at the edges of its format; what the tool writes; set-keys alerts with and without a key that does not parse, then an alert signed with old or new keys; two set-keys alerts at a time, with the same new key or with one signed by the key of the other; strings that are no alerts: what is kept is what was signed and reads back, every key was signed in by keys before it, and the readers accept the format and nothing else |
| `startup_genesis` | ten configurations, two interruptions, four starts, five genesis keys as on mainnet, with the code's page of ten: one genesis alert at most, after all its keys; its keys are found after one interruption (with two, duplicates may fill the page); every accepted configuration gets to run |
| `server_serve` | one peer, one incoming stream, a signal at any point: one peer is enough to get to serve (it is counted once per session), two counted sessions are necessary; `Stop` never blocks; a signal ends the serving process; discovery ends |

Why these bounds are enough for the cases that matter: two streams between two
nodes allow two clients of one table, opposite directions and a leaked reader
beside a new session; two alerts beyond genesis make "skip one" and "the latest
is not the next" distinguishable; four alerts with two key changes make each
alert depend on the one before; one fault is enough for a leaked reader, a half
done key change or a restart, and all the races run beside it. A second sync
reader in `node_live` would only add the one whose caller has left:
`peersync_safety` has such a reader, and every safety property of `node_live` is
proved for any number of them. In `wire` two nodes make one hop by gossip and one by a session (any number of
nodes is proved); two alerts at work are enough for the writes of two set-keys
alerts to mix, on one node or on both, and one fault for one of them to stop at
any of its writes, to be left to the cron or to be brought again; the messages have lengths on both sides of every number the readers compare
with, and length prefixes on both sides of 253. Five keys and two interruptions
make up to fifteen rows, so that the page of ten is exceeded; the configurations
differ from a good one in one setting, because the checks of the code are
independent and the first that fails ends the process.

Runs that find a violation, each a disagreement of the code with what the
repository says of it (quoted under `findings`):

| Run | Finding |
|---|---|
| `node_dropped` | `Subscribe` drops new alerts as if the database had failed |
| `node_prefix` | with another table prefix a set-keys alert is never processed |
| `node_lockout` | a crash in `SetKeys.Do` leaves a node that validates nothing any more |
| `server_hang` | a signal before `Serve` has set the web server: `Serve` listens for ever |
| `startup_identity` | a node overwrites its key file at every start |

`CHECK_DEADLOCK FALSE` is set where the system may stop: sessions are over and
every alert is published (`PeerSync`), faults and alerts are used up
(`AlertNode`), everything is published and relayed (`Wire`), the process has
ended (`ServerLifecycle`), the starts are used up (`Startup`).

## Fairness

* `PeerSync`: a goroutine that can run does run, a message on an open stream is
  delivered, and sessions in each direction are opened again and again, as the
  discovery ticker does (`server.go:416`). Timeouts and faults owe nothing, so
  `SessionsEnd` does not rest on the timeout.
* `AlertNode`: workers run; the cron ticks; readers get requests from sessions
  that come again; RPC calls and the database fail only as often as the bounds
  allow.
* `Startup`: the process runs and is started again (`restartPolicy: Always`,
  `deploy/deployment.yml:28`), as often as `MaxStarts` allows. Interruptions and
  the end of a running process owe nothing.
* `ServerLifecycle`: goroutines run; a `select` does not pass over one of its
  ready cases for ever (Go picks at random); `FindPeers` does not fail for ever;
  a peer is found, connected and synced with again and again. No signal, stream
  or alert is owed.

## Proofs

All theorems hold for any number of nodes, streams, readers, alerts, keys, any
configurations and any bounds. They rest on the `ASSUME` of each module: constants
have their types, the genesis alert exists and has number 0, and the names of the
goroutines differ.

`PeerSync_proofs`: type correctness; `GapFreeTables`; `StoredWasPublished`;
`LogRefinement`. A reader that handles `IGotSequenceNumber` stores the number
without looking at the table, so `GapFree` is not inductive: the invariant adds
that a requested number is at most one above what the requesting node stores,
and that this stays true while the answer travels, for every reader, leaked ones
included. The table never shrinks, hence other threads cannot invalidate it. The
refinement maps the height of a log to the latest number stored; it follows from
the same invariant, step by step.

`PeerProtocol_proofs`, on top of it, about the conversation on a stream:
`OneMessagePerStream`, `ServersCanAnswer`, `NeverBothWait`, `SessionsComplete`,
`SessionsAreBounded`. The two ends never compare notes: the client stops at its
`latestSequence`, the server at its `myLatestSequence`, and nothing in the code
keeps these equal but the messages. So the invariant (`ProtocolInv`) says for
each stream what the message under way implies: there is at most one
(`OneSpeaks`); client and server each get only their two types of messages, no
goal is set before `IGotLatest`, and from then on the two numbers agree and no
request or answer is above them (`Conversation`); the server stores what it has
announced (`Announced`); while both ends take part, one has a message to read or
to answer (`Moving`); and without a fault a server leaves only behind the answer
that lets the client leave (`Faultless`). Only `OneSpeaks` would be inductive
alone. TLC checked `ProtocolInv` before it was proved (663 thousand states).
`SessionsAreBounded` is the part of `SessionsEnd` that needs no fairness: on
every stream the goroutines have `StepsLeft` steps to take, at most four for
each alert that can be published and eleven more; each step of theirs lowers it, and nothing
but opening the stream anew raises it. It rests on the invariant too, since the
count is the distance between a request and the client's goal; TLC checked it
on one stream with numbers up to three and two faults.

`AlertNode_proofs`: type correctness; `MarkedWasPerformed`; `GapFreeTable`;
`RowsAreKept`. The strengthening says for every worker what it carries: one at
`"save"` with `Processed` set holds an alert that has been performed; the
predecessor of the alert that the subscriber or a reader is about to save is
stored; the cron's rows exist and keep their alert.

`AlertNodeFaultless_proofs`: `EffectsAreRecorded`, from the same invariant, because
a goroutine that makes an alert take effect goes on to save it, and only a fault
keeps it from that; `StoredOnceAtCommit` and `KeysFollowLogAtCommit`, which
assume `AtCommit` (the lookup answers `ErrAlertNotFound`), the latter also that the
`UPDATE` finds its table and that the genesis alert has keys. As nothing checks
whether an alert is stored before a reader inserts it, `StoredOnce` rests on
there being one session at work, whose alert is newer than all that is stored
(`Serial`). `KeysFollowLog` needs in addition that no set-keys alert is ever
left to the cron, and what the keys are while a reader replaces them (`Keyed`).
None of this survives a fault; TLC shows what does.

`NodeReports_proofs`: type correctness; `HealthIsTruthful`; `ListedStaysShown`;
`AnswersNeverFallBack`; `PostedDidHappen`. They need no transaction around the
queries, because what a query has seen is never taken back: stored and
performed alerts only grow (`NodeChange`), and the stored numbers have no gap
(`Gapless`). Of an answer whose second query has failed the first half of
`HealthTruthful` is left, which rests on the first query alone.

`Wire_proofs`: `RoundTrip` (what a node can read it writes as it was, but for
type 99), `SessionCarries`, `ReadersMatchFormat` (for every type and message)
and, as theorems about `Spec`, `RelayKeepsBytes`, `RowsDecode`,
`KeysAreChained`, `ReadersAreExact`, `FramesStaySeparate`, `RowsAreAuthentic`,
`WireTypes`. They assume that alerts fit into 65536 bytes, that the genesis keys
have 33 bytes, as all configurations of `config/envs` give them, and nothing else of
keys and signatures. The invariant (`WInv`) is the conjunction of the types, three of the
properties and what goroutines have in hand: that rows are published strings is
what makes them readable for the next node, and that they are readable is what
makes its copy equal. `KeysAreChained` needs `AcceptedOK`: an alert that is being
performed, or waits for the cron, was published, can be read and is signed with
keys that still have rows. It was checked with keys that were active then; flags
change under its hands, as others clear and set them, but rows stay where they
are and keep their keys (`KeysStay`), so that whatever write of `Do` adds the next row
finds the signers of its alert above it (`DoWriteRows`, `ChainStep`). The keys
of an alert have 33 bytes because the reader accepts only 165 (`KeysInRaw`).

`Startup_proofs`: type correctness; `GenesisOnce`; `RunsWithGenesis`;
`GenesisKeysUsable`. `Progress`
says what each phase knows of the tables: the loop is entered only without the
alert and has saved the keys before `saved`, the alert exists only with all of
its keys. Rows are never removed, so what an interrupted start has saved stays
true for the next one. `GenesisKeysUsable` (after up to one interruption) needs
`RowsBounded`: how many rows the starts so far can have left. It assumes that
two rows of each genesis key fit on the page of `GetActivePublicKey`; the page
has ten and each of the configurations in `config/envs` five keys, so the
assumption holds with nothing to spare.

`ServerLifecycle_proofs`: type correctness; `StopNeverBlocks`; `ServesConnected`.
`StopNeverBlocks` needs that only `Stop` puts tokens into the quit channels and
that it has put none into a channel it has not got to (`Unsent`);
`ServesConnected` that `connected` is set only after a count of two is in
`activePeers` and that whoever is past the waiting loop has seen it set (`Counted`).

Every invariant and every safety property of the passing runs is a theorem. Not
proved, checked by TLC only: liveness under fairness, which is outside what the
prover does (`CatchUp`, `SessionsEnd`, `EventuallyProcessed`, `SyncsUp`,
`EventuallyServes`, `SignalEnds`, `DiscoveryEnds`, `EventuallyRuns`), and what the runs that
expect a violation show.

## Not modelled

* Hashes and the curve: a hash is some bytes, a signature what `Sign` gives, and
  recovering a key is left out. Numbers of more than two bytes only where the
  readers look at single bytes of them.
* libp2p, the DHT, gossip routing, the SQL database and its replicas: external,
  modelled by how the code uses them.
* The text of answers and notifications (formatting of alerts for people), the
  logger, the model layer's identifiers and metadata, and the HTML index: no
  state that a property needs.
* The effect of the RPC calls on the bitcoin node: a call succeeds, fails, or
  fails after it has taken effect.
* Two topics: `main.go` passes one.

## Plan

1. Done: the modules above, their runs and the proofs.
2. Done: the proofs of the protocol properties of `PeerSync`, of
   `GenesisKeysActive` and of the types of `Wire`.
3. Left: bounds like `SessionsAreBounded` for the loops of `ServerLifecycle`, and
   the composition of `Startup` and `ServerLifecycle` in one process that is
   restarted.
