----------------------------- MODULE NodeReports -----------------------------
(***************************************************************************)
(* What a node says of itself while its goroutines are at work: the        *)
(* handlers of the web server (/health, /alerts, /alert/:sequence) and the *)
(* webhook that Subscribe calls after it has saved an alert.               *)
(*                                                                         *)
(* The handlers read the tables of AlertNode, /health in two queries, and  *)
(* no query is part of a transaction with another one or with a write.     *)
(* Every step here is a step of AlertNode or leaves its variables alone.   *)
(***************************************************************************)
EXTENDS AlertNode

VARIABLES
  health,   \* the handler of /health: its progress, then its last answer
  told,     \* highest sequence number that /alerts has answered
  post      \* the notification that Subscribe is sending

reports == <<health, told, post>>
nodeVars == <<vars, reports>>

Notification == [alert : Alerts, processed : BOOLEAN]
NoPost == [alert |-> Genesis, processed |-> FALSE]  \* the genesis alert is never posted

Idle == [at |-> "idle", sequence |-> 0, unprocessed |-> FALSE, failed |-> FALSE]

ReportsTypeOK ==
  /\ health \in [at : {"idle", "latest", "answered"},
                 sequence : Nat,
                 unprocessed : BOOLEAN,  \* unprocessed_alerts > 0
                 failed : BOOLEAN]       \* no part of the answer: see HealthAnswerBlind
  /\ told \in Nat
  /\ post \in Notification

ReportsInit == Init /\ health = Idle /\ told = 0 /\ post = NoPost

-----------------------------------------------------------------------------
(* The web server *)

\* Mutants: the second query comes first; the number of rows is answered.
QueriesSwapped == <<"unprocessed", "latest">>
SequenceCount == Len(rows)

\* The handler of /health calls GetLatestAlert, then GetAllUnprocessedAlerts.
Queries == <<"latest", "unprocessed">>

Query(h, q) ==
  IF q = "latest" THEN [h EXCEPT !.sequence = Latest]
                  ELSE [h EXCEPT !.unprocessed = Unprocessed # {}]

HealthLatest ==
  /\ health.at # "latest"
  /\ health' = Query([Idle EXCEPT !.at = "latest"], Queries[1])
  /\ UNCHANGED <<vars, told, post>>

HealthAnswer ==
  /\ health.at = "latest"
  /\ health' = Query([health EXCEPT !.at = "answered"], Queries[2])
  /\ UNCHANGED <<vars, told, post>>

\* The second query fails.  Its error is dropped and an empty list is counted, so
\* that the answer is a count of zero, like that of a node with nothing to do.
HealthAnswerBlind ==
  /\ health.at = "latest"
  /\ health' = [health EXCEPT !.at = "answered", !.failed = TRUE]
  /\ UNCHANGED <<vars, told, post>>

\* GetAllAlerts sorts by sequence number; the last one is answered.
LatestSequence == Latest

AlertsAnswer ==
  /\ told' = LatestSequence
  /\ UNCHANGED <<vars, health, post>>

\* /alert/:sequence shows the alert: ReadRaw rejects the genesis alert, which
\* has no message.
Shown(k) == HasSequence(k) /\ k # SeqOf[Genesis]

-----------------------------------------------------------------------------
(* Subscribe and its webhook *)

\* Mutant: the notification says what was assumed before the alert was tried.
NotificationEarly == [alert |-> cur["sub"], processed |-> TRUE]

\* PostAlert comes after Save, whether Save has failed or not.
PostedAlert == [alert |-> cur["sub"], processed |-> ok["sub"]]

SaveThenPost ==
  /\ SaveRow("sub") \/ SaveRowFails("sub")
  /\ post' = PostedAlert
  /\ UNCHANGED <<health, told>>

\* The endpoint has answered; an error is only logged.
PostAlert ==
  /\ post # NoPost
  /\ post' = NoPost
  /\ UNCHANGED <<vars, health, told>>

\* One goroutine receives, handles and posts.
SubReceiveNext(a) == post = NoPost /\ SubReceive(a) /\ UNCHANGED reports

\* The process dies; the requests under way are lost with it.
Restart ==
  /\ Crash \/ UNCHANGED vars
  /\ health' = Idle
  /\ post' = NoPost
  /\ UNCHANGED told

-----------------------------------------------------------------------------
\* The steps of AlertNode that the reports do not see.
NodeStep ==
  /\ \/ SubPrior \/ SubDup \/ SubCheck \/ DoStep("sub")
     \/ \E r \in Readers, a \in Alerts : SyncStart(r, SeqOf[a])
     \/ \E r \in Readers : SyncStep(r) \/ SyncTimeout(r)
     \/ CronStep
  /\ UNCHANGED reports

ReportsNext ==
  \/ NodeStep
  \/ \E a \in Alerts : SubReceiveNext(a)
  \/ SaveThenPost
  \/ PostAlert
  \/ HealthLatest
  \/ HealthAnswer
  \/ HealthAnswerBlind
  \/ AlertsAnswer
  \/ Restart

ReportsSpec == ReportsInit /\ [][ReportsNext]_nodeVars

-----------------------------------------------------------------------------
(* Properties *)

\* Every answer of /health, also one whose second query has failed, names a
\* sequence number up to which all alerts are stored, and stay stored across
\* crashes.  A count of zero from a query that did not fail means besides that
\* all of them have been performed, although alerts arrive and are processed
\* between the two queries.  The zero of a query that failed looks the same and
\* promises nothing: an unprocessed alert may be behind it.
HealthTruthful ==
  health.at = "answered" =>
    /\ \A k \in 0 .. health.sequence : HasSequence(k)
    /\ ~health.unprocessed /\ ~health.failed =>
         \A k \in 0 .. health.sequence : \E a \in performed : SeqOf[a] = k

\* Every alert up to a number that /alerts has answered is shown by
\* /alert/:sequence for ever after, across crashes and although rows are not
\* inserted in the order of their numbers; only the genesis alert is not.
ListedIsShown == \A k \in 1 .. told : Shown(k)

\* The latest sequence number that /alerts answers never falls back.
NeverFallsBack == [][told <= told']_nodeVars

\* A notification that calls an alert processed is about an alert that has
\* taken effect, and is about a stored one unless the database has failed.
PostedHappened ==
  post # NoPost =>
    /\ post.processed => post.alert \in performed
    /\ faults = 0 => Stored(post.alert)
=============================================================================
