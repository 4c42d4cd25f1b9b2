------------------------------ MODULE AlertNode ------------------------------
(***************************************************************************)
(* One node of the alert system: its two tables and the goroutines that    *)
(* read and write them, interleaved at every call to the database and to   *)
(* the bitcoin node.                                                       *)
(*                                                                         *)
(*   sub      Server.Subscribe: alerts that arrive by gossip               *)
(*   readers  StreamThread.ProcessGotSequenceNumber: alerts fetched from a *)
(*            peer (PeerSync has the protocol around it)                   *)
(*   cron     Server.processAlerts: retries the alerts not yet processed   *)
(*                                                                         *)
(* All three end in the same way: Do performs the alert, which either asks *)
(* the bitcoin node (ban, freeze, ...) or, for a set-keys alert, rewrites  *)
(* public_keys in several transactions; then Save writes the alert's row.  *)
(* Nothing makes Do and Save one step, and nothing keeps two goroutines    *)
(* from working on the same alert.                                         *)
(***************************************************************************)
EXTENDS Integers, Sequences, FiniteSets, FiniteSetsExt

CONSTANTS
  Alerts,         \* signed alerts in circulation, the genesis alert included
  Genesis,        \* the alert CreateGenesisAlert leaves in the database
  SeqOf,          \* SeqOf[a]: sequence number of a
  Keys,           \* public keys
  KeysOf,         \* KeysOf[a]: keys a set-keys alert installs, {} for others
  SignersOf,      \* SignersOf[a]: keys a is signed with
  Readers,        \* reader goroutines of sync sessions
  NotFoundErr,    \* the error of a lookup by sequence number without result
  TablePrefix,    \* the setting datastore.table_prefix
  MaxFaults,      \* bound: crashes, database failures and timeouts
  MaxRefusals     \* bound: calls the bitcoin node fails

ASSUME AlertNodeAssumption ==
  /\ Genesis \in Alerts
  /\ SeqOf \in [Alerts -> Nat]
  /\ SeqOf[Genesis] = 0
  /\ KeysOf \in [Alerts -> SUBSET Keys]
  /\ SignersOf \in [Alerts -> SUBSET Keys]
  /\ NotFoundErr \in {"ErrAlertNotFound", "ErrNoResults"}
  /\ MaxFaults \in Nat
  /\ MaxRefusals \in Nat
  /\ "sub" \notin Readers
  /\ "cron" \notin Readers

\* The prefix compiled into the UPDATE of ClearActivePublicKeys; the tables of
\* the node have the prefix of its configuration.
DatabasePrefix == "alert_system"
UpdateFindsTable == TablePrefix = DatabasePrefix

Workers == Readers \cup {"sub", "cron"}

VARIABLES
  rows,        \* alert_messages, in the order of insertion
  active,      \* the keys of public_keys whose active flag is set
  performed,   \* alerts whose Do has taken effect (never read by the code)
  pc,          \* pc[w]: where worker w is
  cur,         \* cur[w]: the alert w is working on
  ok,          \* ok[w]: the field Processed of that alert
  todo,        \* todo[w]: keys that SetKeys.Do of w has still to save
  lookup,      \* the error of sub's lookup of a duplicate
  want,        \* want[r]: the sequence number r has requested
  target,      \* target[r]: StreamThread.latestSequence of r
  left,        \* left[r]: the caller of r has given up waiting for it
  queue,       \* rows that processAlerts has loaded and not yet tried
  row,         \* the row processAlerts is at
  faults,      \* faults so far
  refusals     \* failed calls to the bitcoin node so far

tables == <<rows, active>>
work == <<pc, cur, ok, todo>>
session == <<want, target, left>>
retry == <<queue, row>>
counts == <<faults, refusals>>
vars == <<tables, performed, work, lookup, session, retry, counts>>

PC == {"idle", "prior", "dup", "check", "await", "next", "do", "install", "save"}
Row == [alert : Alerts, processed : BOOLEAN]

TypeOK ==
  /\ rows \in Seq(Row)
  /\ active \in SUBSET Keys
  /\ performed \in SUBSET Alerts
  /\ pc \in [Workers -> PC]
  /\ cur \in [Workers -> Alerts]
  /\ ok \in [Workers -> BOOLEAN]
  /\ todo \in [Workers -> SUBSET Keys]
  /\ lookup \in {"nil", "ErrAlertNotFound", "ErrNoResults", "other"}
  /\ want \in [Readers -> Nat]
  /\ target \in [Readers -> Nat]
  /\ left \in [Readers -> BOOLEAN]
  /\ queue \in SUBSET Nat
  /\ row \in Nat
  /\ faults \in 0 .. MaxFaults
  /\ refusals \in 0 .. MaxRefusals

-----------------------------------------------------------------------------
(* The tables *)

SetKeys(a) == KeysOf[a] # {}

StoredSeqs == {SeqOf[rows[i].alert] : i \in DOMAIN rows}

\* Mutant: a range where equality is meant.
HasSequenceUpTo(k) == k <= Max(StoredSeqs) + 1

\* GetAlertMessageBySequenceNumber finds a row.
HasSequence(k) == k \in StoredSeqs

\* Mutants: the rows are counted; they are sorted the wrong way; only processed
\* ones are looked at; the number wraps below zero.
LatestCount == Len(rows)
LatestFirst == Min(StoredSeqs)
LatestProcessed == Max({SeqOf[rows[i].alert] : i \in {j \in DOMAIN rows : rows[j].processed}})
LatestWrapped == Max(StoredSeqs) - 2

\* GetLatestAlert
Latest == Max(StoredSeqs)

\* AreSignaturesValid: an active key for every signature.  With no active key
\* it is an error, which drops the alert as well.
Valid(a) == active # {} /\ SignersOf[a] \subseteq active

\* Mutant: the condition on the column "processed" is missing.
UnprocessedAll == DOMAIN rows

\* GetAllUnprocessedAlerts
Unprocessed == {i \in DOMAIN rows : ~rows[i].processed}

Fault == faults < MaxFaults /\ faults' = faults + 1 /\ UNCHANGED refusals
NoFault == UNCHANGED counts

Goto(w, label) == pc' = [pc EXCEPT ![w] = label]

Init ==
  /\ rows = <<[alert |-> Genesis, processed |-> TRUE]>>
  /\ active = KeysOf[Genesis]
  /\ performed = {Genesis}
  /\ pc = [w \in Workers |-> "idle"]
  /\ cur = [w \in Workers |-> Genesis]
  /\ ok = [w \in Workers |-> FALSE]
  /\ todo = [w \in Workers |-> {}]
  /\ lookup = "nil"
  /\ want = [r \in Readers |-> 0]
  /\ target = [r \in Readers |-> 0]
  /\ left = [r \in Readers |-> FALSE]
  /\ queue = {}
  /\ row = 0
  /\ faults = 0
  /\ refusals = 0

-----------------------------------------------------------------------------
(* Subscribe.  A message that is dropped at once changes nothing. *)

SubReceive(a) ==
  /\ pc["sub"] = "idle"
  /\ Valid(a)
  /\ Goto("sub", "prior")
  /\ cur' = [cur EXCEPT !["sub"] = a]
  /\ UNCHANGED <<tables, performed, ok, todo, lookup, session, retry, counts>>

\* "Ensure the sequence number is correct"; 0 - 1 wraps to a number no alert has.
SubPrior ==
  /\ pc["sub"] = "prior"
  /\ \/ /\ Goto("sub", IF HasSequence(SeqOf[cur["sub"]] - 1) THEN "dup" ELSE "idle")
        /\ NoFault
     \/ Goto("sub", "idle") /\ Fault
  /\ UNCHANGED <<tables, performed, cur, ok, todo, lookup, session, retry>>

\* "Check if the alert already exists"
SubDup ==
  /\ pc["sub"] = "dup"
  /\ \/ /\ lookup' = IF HasSequence(SeqOf[cur["sub"]]) THEN "nil" ELSE NotFoundErr
        /\ NoFault
     \/ lookup' = "other" /\ Fault
  /\ Goto("sub", "check")
  /\ UNCHANGED <<tables, performed, cur, ok, todo, session, retry>>

\* A duplicate is dropped, and so is the alert after "a real error", which is
\* any error but datastore.ErrNoResults.
SubCheck ==
  /\ pc["sub"] = "check"
  /\ Goto("sub", IF lookup = "ErrNoResults" THEN "do" ELSE "idle")
  /\ lookup' = "nil"
  /\ UNCHANGED <<tables, performed, cur, ok, todo, session, retry, counts>>

-----------------------------------------------------------------------------
(* A sync session, seen from the table: Sync asks for the latest sequence  *)
(* number of the peer, then for one alert after the other.                 *)

\* ProcessGotLatest with a peer that is ahead.  Discovery runs one session at a
\* time; the reader of a session it has left may still be working.
SyncStart(r, k) ==
  /\ pc[r] = "idle"
  /\ \A other \in Readers : pc[other] = "idle" \/ left[other]
  /\ k > Latest
  /\ Goto(r, "await")
  /\ want' = [want EXCEPT ![r] = Latest + 1]
  /\ target' = [target EXCEPT ![r] = k]
  /\ left' = [left EXCEPT ![r] = FALSE]
  /\ UNCHANGED <<tables, performed, cur, ok, todo, lookup, retry, counts>>

\* ProcessGotSequenceNumber up to the call of Do; no check of what is stored.
SyncReceive(r, a) ==
  /\ pc[r] = "await"
  /\ SeqOf[a] = want[r]
  /\ \/ Goto(r, IF Valid(a) THEN "do" ELSE "idle") /\ NoFault
     \/ Goto(r, "idle") /\ Fault
  /\ cur' = [cur EXCEPT ![r] = a]
  /\ UNCHANGED <<tables, performed, ok, todo, lookup, session, retry>>

\* The caller leaves after a minute and closes the stream: a reader that waits
\* for a message ends, one that is at work goes on.
SyncTimeout(r) ==
  /\ pc[r] # "idle"
  /\ ~left[r]
  /\ Fault
  /\ left' = [left EXCEPT ![r] = TRUE]
  /\ Goto(r, IF pc[r] = "await" THEN "idle" ELSE pc[r])
  /\ UNCHANGED <<tables, performed, cur, ok, todo, lookup, want, target, retry>>

-----------------------------------------------------------------------------
(* processAlerts *)

CronStart ==
  /\ pc["cron"] = "idle"
  /\ Unprocessed # {}
  /\ queue' = Unprocessed
  /\ Goto("cron", "next")
  /\ UNCHANGED <<tables, performed, cur, ok, todo, lookup, session, row, counts>>

\* Rows are taken in the order of their sequence numbers.  What the loop makes
\* of a row that cannot be decoded or read does not arise: ReadRaw and Read have
\* succeeded on these bytes before the row was inserted.
CronNext ==
  /\ pc["cron"] = "next"
  /\ \E i \in queue :
       /\ \A j \in queue : SeqOf[rows[i].alert] <= SeqOf[rows[j].alert]
       /\ row' = i
       /\ queue' = queue \ {i}
       /\ cur' = [cur EXCEPT !["cron"] = rows[i].alert]
  /\ Goto("cron", "do")
  /\ UNCHANGED <<tables, performed, ok, todo, lookup, session, counts>>

CronEnd ==
  /\ pc["cron"] = "next"
  /\ queue = {}
  /\ Goto("cron", "idle")
  /\ UNCHANGED <<tables, performed, cur, ok, todo, lookup, session, retry, counts>>

-----------------------------------------------------------------------------
(* Do and Save, the same for every worker *)

\* Mutants: the error of Do is ignored; it ends the handler; the cron does not
\* save the row.
AfterDoIgnored(w, success) ==
  ok' = [ok EXCEPT ![w] = TRUE] /\ Goto(w, "save")
AfterDoReturns(w, success) ==
  /\ ok' = [ok EXCEPT ![w] = success]
  /\ Goto(w, IF success THEN "save" ELSE IF w = "cron" THEN "next" ELSE "idle")
AfterDoUnsaved(w, success) ==
  /\ ok' = [ok EXCEPT ![w] = success]
  /\ Goto(w, IF w = "cron" THEN "next" ELSE "save")

\* After a failed Do the cron leaves the row alone, the others save it as
\* not processed.
AfterDo(w, success) ==
  /\ ok' = [ok EXCEPT ![w] = success]
  /\ Goto(w, IF w = "cron" /\ ~success THEN "next" ELSE "save")

\* Do of an alert that is not set-keys: calls of the bitcoin node.
DoCall(w) ==
  /\ pc[w] = "do"
  /\ ~SetKeys(cur[w])
  /\ AfterDo(w, TRUE)
  /\ performed' = performed \cup {cur[w]}
  /\ UNCHANGED <<tables, cur, todo, lookup, session, retry, counts>>

\* The call fails; the node may have acted on it nevertheless.
DoCallFails(w) ==
  /\ pc[w] = "do"
  /\ ~SetKeys(cur[w])
  /\ refusals < MaxRefusals
  /\ refusals' = refusals + 1
  /\ AfterDo(w, FALSE)
  /\ performed' \in {performed, performed \cup {cur[w]}}
  /\ UNCHANGED <<tables, cur, todo, lookup, session, retry, faults>>

\* SetKeys.Do: ClearActivePublicKeys ...
DoClear(w) ==
  /\ pc[w] = "do"
  /\ SetKeys(cur[w])
  /\ UpdateFindsTable
  /\ active' = {}
  /\ todo' = [todo EXCEPT ![w] = KeysOf[cur[w]]]
  /\ Goto(w, "install")
  /\ UNCHANGED <<rows, performed, cur, ok, lookup, session, retry, counts>>

\* ... then one transaction per key.
DoInstall(w, k) ==
  /\ pc[w] = "install"
  /\ k \in todo[w]
  /\ active' = active \cup {k}
  /\ todo' = [todo EXCEPT ![w] = @ \ {k}]
  /\ IF todo[w] = {k}
       THEN AfterDo(w, TRUE) /\ performed' = performed \cup {cur[w]}
       ELSE UNCHANGED <<pc, ok, performed>>
  /\ UNCHANGED <<rows, cur, lookup, session, retry, counts>>

\* The update or a transaction fails, and SetKeys.Do stops where it is.
DoKeysFail(w) ==
  /\ \/ pc[w] = "do" /\ SetKeys(cur[w]) /\ ~UpdateFindsTable /\ NoFault
     \/ pc[w] = "do" /\ SetKeys(cur[w]) /\ UpdateFindsTable /\ Fault
     \/ pc[w] = "install" /\ Fault
  /\ AfterDo(w, FALSE)
  /\ todo' = [todo EXCEPT ![w] = {}]
  /\ UNCHANGED <<tables, performed, cur, lookup, session, retry>>

\* Mutant: the alert is not marked as new, so Save updates the row saved last.
InsertOver(w) ==
  rows' = [rows EXCEPT ![Len(rows)] = [alert |-> cur[w], processed |-> ok[w]]]

\* Save of an alert read from a message inserts a row.
Insert(w) == rows' = Append(rows, [alert |-> cur[w], processed |-> ok[w]])

\* A reader then requests the next alert, unless this was the last one or the
\* stream is closed.
SaveRow(w) ==
  LET seq == SeqOf[cur[w]]
      more == w \in Readers /\ seq # target[w] /\ ~left[w] IN
  /\ pc[w] = "save"
  /\ Insert(w)
  /\ Goto(w, IF more THEN "await" ELSE "idle")
  /\ want' = IF more THEN [want EXCEPT ![w] = seq + 1] ELSE want
  /\ UNCHANGED <<active, performed, cur, ok, todo, lookup, target, left, retry, counts>>

SaveRowFails(w) ==
  /\ pc[w] = "save"
  /\ Fault
  /\ Goto(w, "idle")
  /\ UNCHANGED <<tables, performed, cur, ok, todo, lookup, session, retry>>

\* Save of an alert loaded from the table updates its row.
CronSave ==
  /\ pc["cron"] = "save"
  /\ rows' = [rows EXCEPT ![row].processed = ok["cron"]]
  /\ Goto("cron", "next")
  /\ UNCHANGED <<active, performed, cur, ok, todo, lookup, session, retry, counts>>

\* A failed Save ends the round.
CronSaveFails ==
  /\ pc["cron"] = "save"
  /\ Fault
  /\ Goto("cron", "idle")
  /\ UNCHANGED <<tables, performed, cur, ok, todo, lookup, session, retry>>

\* The process dies and is started again on the same database, in which
\* CreateGenesisAlert finds its alert.
Crash ==
  /\ Fault
  /\ \E w \in Workers : pc[w] # "idle"
  /\ pc' = [w \in Workers |-> "idle"]
  /\ todo' = [w \in Workers |-> {}]
  /\ queue' = {}
  /\ lookup' = "nil"
  /\ UNCHANGED <<tables, performed, cur, ok, session, row>>

-----------------------------------------------------------------------------
DoStep(w) ==
  \/ DoCall(w)
  \/ DoCallFails(w)
  \/ DoClear(w)
  \/ \E k \in Keys : DoInstall(w, k)
  \/ DoKeysFail(w)

SubStep ==
  \/ SubPrior
  \/ SubDup
  \/ SubCheck
  \/ SaveRow("sub")
  \/ SaveRowFails("sub")
  \/ DoStep("sub")

SyncStep(r) ==
  \/ \E a \in Alerts : SyncReceive(r, a)
  \/ SaveRow(r)
  \/ SaveRowFails(r)
  \/ DoStep(r)

CronStep ==
  \/ CronStart
  \/ CronNext
  \/ CronEnd
  \/ CronSave
  \/ CronSaveFails
  \/ DoStep("cron")

Next ==
  \/ \E a \in Alerts : SubReceive(a)
  \/ SubStep
  \/ \E r \in Readers, a \in Alerts : SyncStart(r, SeqOf[a])
  \/ \E r \in Readers : SyncStep(r) \/ SyncTimeout(r)
  \/ CronStep
  \/ Crash

Spec == Init /\ [][Next]_vars

\* The ticker of the cron keeps ticking, peers answer, discovery finds peers
\* that hold every alert again and again.  Gossip owes nothing.
Fairness ==
  /\ WF_vars(CronStep)
  /\ WF_vars(SubStep)
  /\ \A r \in Readers : WF_vars(SyncStep(r))
  /\ \A a \in Alerts : WF_vars(\E r \in Readers : SyncStart(r, SeqOf[a]))

FairSpec == Spec /\ Fairness

-----------------------------------------------------------------------------
(* Properties *)

\* A row is marked processed only when the alert has taken effect: no failure,
\* crash or race leaves an alert unperformed that the cron will never retry.
ProcessedPerformed ==
  \A i \in DOMAIN rows : rows[i].processed => rows[i].alert \in performed

\* No row is stored before the row of its predecessor, although neither the
\* sync path nor a late reader looks at the table before it inserts.
GapFree == \A k \in StoredSeqs : k > 0 => k - 1 \in StoredSeqs

\* Rows are never lost or replaced, and a processed row stays processed: the
\* cron writes back whole rows that it loaded earlier.
RowsKept ==
  [][/\ Len(rows) <= Len(rows')
     /\ \A i \in DOMAIN rows :
          /\ rows'[i].alert = rows[i].alert
          /\ rows[i].processed => rows'[i].processed]_vars

Quiet == \A w \in Workers : pc[w] = "idle"
Stored(a) == \E i \in DOMAIN rows : rows[i].alert = a

\* As long as there was no crash, database failure or timeout, an alert that
\* has taken effect is recorded, or is just about to be.
EffectsRecorded ==
  faults = 0 =>
    \A a \in performed : Stored(a) \/ \E w \in Workers : pc[w] = "save" /\ cur[w] = a

\* The latest set-keys alert of the table.
LatestSetKeys ==
  CHOOSE a \in {rows[i].alert : i \in DOMAIN rows} :
    /\ SetKeys(a)
    /\ \A i \in DOMAIN rows : SetKeys(rows[i].alert) => SeqOf[rows[i].alert] <= SeqOf[a]

\* As long as there was no crash, database failure or timeout, the keys that
\* alerts are validated with are those of the latest set-keys alert whenever
\* no goroutine is at work.
KeysFollowLog == faults = 0 /\ Quiet => active = KeysOf[LatestSetKeys]

\* As long as there was no crash, database failure or timeout, an alert is
\* stored once.
StoredOnce ==
  faults = 0 =>
    \A i, j \in DOMAIN rows : rows[i].alert = rows[j].alert => i = j

\* "Did we get a real error?" (server.go:541): an alert that is no duplicate is
\* dropped there only when the database has failed.
OnlyRealErrorsDrop ==
  [][pc["sub"] = "check" /\ pc'["sub"] = "idle" /\ faults' = faults
       => lookup \in {"nil", "other"}]_vars

\* An alert that could not be performed is eventually processed, by the cron
\* that "attempts to retry unprocessed alerts" (server.go:376), once the
\* database and the bitcoin node have stopped failing.
EventuallyProcessed ==
  \A a \in Alerts :
    (\E i \in Unprocessed : rows[i].alert = a)
      ~> (\E i \in DOMAIN rows : rows[i].alert = a /\ rows[i].processed)

AllStored == \A a \in Alerts : Stored(a)

\* As long as there was no crash, database failure or timeout, the node
\* eventually stores every alert that its peers hold, although an alert may
\* validate only with keys that an earlier one installs.
SyncsUp == <>(AllStored \/ faults > 0)

\* The node syncs up from its peers "on startup" (README.md:118), whatever
\* happened before.
SyncsUpAfterFaults == <>AllStored
=============================================================================
