-------------------------- MODULE NodeReports_proofs --------------------------
(***************************************************************************)
(* Proofs about NodeReports for any alerts, any number of sync sessions    *)
(* and any number of faults.  A node with its web server and its webhook   *)
(* is still the node of AlertNode, so what is proved there holds here; and *)
(* what it answers from queries that did not fail is true, although they   *)
(* are not one transaction.                                                *)
(*                                                                         *)
(* The argument is that nothing a query has seen is ever taken back: the   *)
(* alerts stored and the alerts performed only grow (NodeGrows), and the   *)
(* numbers stored have no gap below them (Gapless).                        *)
(***************************************************************************)
EXTENDS NodeReports, AlertNode_proofs

Gapless == \A k \in StoredSeqs : \A j \in 0 .. k : j \in StoredSeqs

\* What a handler between two queries relies on.
HealthOK ==
  /\ health.at = "latest" => health.sequence \in StoredSeqs /\ health.unprocessed = FALSE
  /\ HealthTruthful

RInv ==
  IInv /\ ReportsTypeOK /\ Gapless /\ told \in StoredSeqs /\ HealthOK /\ PostedHappened

-----------------------------------------------------------------------------
(* Steps of the node *)

\* What a step of AlertNode may do to the rows.
Inserts == \E w \in Workers \ {"cron"} : pc[w] = "save" /\ Insert(w)
NodeChange ==
  /\ rows' = rows \/ Inserts \/ CronSave
  /\ performed \subseteq performed'
  /\ faults <= faults'

LEMMA DoChange ==
  ASSUME IInv, NEW w \in Workers, DoStep(w)
  PROVE  NodeChange
<1>0. faults \in Nat
  BY AlertNodeAssumption DEF IInv, TypeOK
<1>1. CASE DoCall(w)
  BY <1>0, <1>1 DEF DoCall, NodeChange, tables, counts
<1>2. CASE DoCallFails(w)
  BY <1>0, <1>2 DEF DoCallFails, NodeChange, tables
<1>3. CASE DoClear(w)
  BY <1>0, <1>3 DEF DoClear, NodeChange, counts
<1>4. ASSUME NEW k \in Keys, DoInstall(w, k) PROVE NodeChange
  <2>1. rows' = rows /\ faults' = faults
    BY <1>4 DEF DoInstall, counts
  <2>2. performed \subseteq performed'
    BY <1>4, Zenon DEF DoInstall
  <2> QED
    BY <1>0, <2>1, <2>2 DEF NodeChange
<1>5. CASE DoKeysFail(w)
  BY <1>0, <1>5 DEF DoKeysFail, NodeChange, tables, Fault, NoFault, counts
<1> QED
  BY <1>1, <1>2, <1>3, <1>4, <1>5 DEF DoStep

LEMMA SubChange ==
  ASSUME IInv, SubPrior \/ SubDup \/ SubCheck \/ \E a \in Alerts : SubReceive(a)
  PROVE  NodeChange
<1>0. faults \in Nat
  BY AlertNodeAssumption DEF IInv, TypeOK
<1>1. CASE SubPrior \/ SubDup \/ SubCheck
  BY <1>0, <1>1 DEF SubPrior, SubDup, SubCheck, NodeChange, tables, Fault, NoFault, counts
<1>2. CASE \E a \in Alerts : SubReceive(a)
  BY <1>0, <1>2 DEF SubReceive, NodeChange, tables, counts
<1> QED
  BY <1>1, <1>2

LEMMA SaveRowChange ==
  ASSUME IInv, NEW w \in Workers \ {"cron"}, SaveRow(w) \/ SaveRowFails(w)
  PROVE  NodeChange
<1>1. faults \in Nat
  BY AlertNodeAssumption DEF IInv, TypeOK
<1>2. CASE SaveRow(w)
  BY <1>1, <1>2 DEF SaveRow, NodeChange, Inserts, counts
<1>3. CASE SaveRowFails(w)
  BY <1>1, <1>3 DEF SaveRowFails, NodeChange, tables, Fault
<1> QED
  BY <1>2, <1>3

LEMMA SyncChange ==
  ASSUME IInv, NEW r \in Readers,
         \/ \E k \in Nat : SyncStart(r, k)
         \/ \E a \in Alerts : SyncReceive(r, a)
         \/ SyncTimeout(r)
  PROVE  NodeChange
<1>0. faults \in Nat
  BY AlertNodeAssumption DEF IInv, TypeOK
<1>1. CASE SyncTimeout(r)
  BY <1>0, <1>1 DEF SyncTimeout, NodeChange, tables, Fault
<1>2. CASE \E k \in Nat : SyncStart(r, k)
  BY <1>0, <1>2 DEF SyncStart, NodeChange, tables, counts
<1>3. CASE \E a \in Alerts : SyncReceive(r, a)
  BY <1>0, <1>3 DEF SyncReceive, NodeChange, tables, Fault, NoFault, counts
<1> QED
  BY <1>1, <1>2, <1>3

LEMMA CronChange ==
  ASSUME IInv, CronStart \/ CronNext \/ CronEnd \/ CronSave \/ CronSaveFails \/ Crash
  PROVE  NodeChange
<1>0. faults \in Nat
  BY AlertNodeAssumption DEF IInv, TypeOK
<1> QED
  BY <1>0 DEF CronStart, CronNext, CronEnd, CronSave, CronSaveFails, Crash, NodeChange,
              tables, Fault, counts

LEMMA NextChange ==
  ASSUME IInv, [Next]_vars
  PROVE  NodeChange
<1>1. CASE UNCHANGED vars
  <2>1. faults \in Nat
    BY AlertNodeAssumption DEF IInv, TypeOK
  <2> QED
    BY <1>1, <2>1 DEF NodeChange, vars, tables, counts
<1>2. CASE (\E a \in Alerts : SubReceive(a)) \/ SubStep
  BY <1>2, SubChange, SaveRowChange, DoChange, WorkerNames DEF SubStep
<1>3. ASSUME NEW r \in Readers, NEW a \in Alerts, SyncStart(r, SeqOf[a]) PROVE NodeChange
  BY <1>3, SyncChange, AlertNodeAssumption
<1>4. ASSUME NEW r \in Readers, SyncStep(r) \/ SyncTimeout(r) PROVE NodeChange
  BY <1>4, SyncChange, SaveRowChange, DoChange, WorkerNames DEF SyncStep
<1>5. CASE CronStep \/ Crash
  BY <1>5, CronChange, DoChange, WorkerNames DEF CronStep
<1> QED
  BY <1>1, <1>2, <1>3, <1>4, <1>5 DEF Next

\* Nothing that is stored or performed is taken back, and no gap opens.
LEMMA NodeGrows ==
  ASSUME IInv, Gapless, [Next]_vars
  PROVE  /\ IInv' /\ Gapless'
         /\ StoredSeqs \subseteq StoredSeqs'
         /\ performed \subseteq performed'
         /\ faults' = 0 => faults = 0
         /\ \A a \in Alerts : Stored(a) => Stored(a)'
<1>1. IInv' /\ RowsGrow
  BY NextIInv
<1>2. NodeChange
  BY NextChange
<1>3. /\ DOMAIN rows = 1 .. Len(rows) /\ Len(rows) \in Nat
      /\ DOMAIN rows' = 1 .. Len(rows') /\ Len(rows') \in Nat
  BY <1>1, Domain DEF IInv, TypeOK
<1>4. StoredSeqs \subseteq StoredSeqs' /\ \A a \in Alerts : Stored(a) => Stored(a)'
  BY <1>1, <1>3 DEF StoredSeqs, RowsGrow, Stored
<1>5. Gapless'
  <2>1. CASE rows' = rows
    BY <2>1 DEF Gapless, StoredSeqs
  <2>2. CASE CronSave
    <3>1. StoredSeqs' = StoredSeqs
      <4>1. row \in DOMAIN rows /\ rows' = [rows EXCEPT ![row].processed = ok["cron"]]
        BY <2>2 DEF CronSave, IInv, CronRow
      <4>2. DOMAIN rows' = DOMAIN rows
        BY <4>1
      <4> QED
        BY <1>1, <4>2 DEF StoredSeqs, RowsGrow
    <3> QED
      BY <3>1 DEF Gapless
  <2>3. ASSUME NEW w \in Workers \ {"cron"}, pc[w] = "save", Insert(w) PROVE Gapless'
    <3>1. Follows(cur[w]) /\ cur[w] \in Alerts
      BY <2>3 DEF IInv, Working, WorkerOK, TypeOK
    <3>2. StoredSeqs' = StoredSeqs \cup {SeqOf[cur[w]]}
      <4> DEFINE new == [alert |-> cur[w], processed |-> ok[w]]
      <4>1. rows' = Append(rows, new) /\ rows \in Seq(Row) /\ new.alert = cur[w]
        BY <2>3 DEF Insert, IInv, TypeOK
      <4>2. /\ DOMAIN rows' = DOMAIN rows \cup {Len(rows) + 1}
            /\ rows'[Len(rows) + 1] = new
            /\ \A i \in DOMAIN rows : rows'[i] = rows[i]
        BY <4>1, <1>3
      <4> QED
        BY <4>1, <4>2 DEF StoredSeqs
    <3>3. SeqOf[cur[w]] \in Nat
      BY <3>1, AlertNodeAssumption
    <3>4. ASSUME NEW j \in 0 .. SeqOf[cur[w]] PROVE j \in StoredSeqs'
      BY <3>1, <3>2, <3>3, <3>4 DEF Follows, Gapless
    <3> QED
      BY <3>2, <3>4 DEF Gapless
  <2> QED
    BY <1>2, <2>1, <2>2, <2>3 DEF NodeChange, Inserts
<1>6. faults' = 0 => faults = 0
  BY <1>1, <1>2, AlertNodeAssumption DEF NodeChange, IInv, TypeOK
<1> QED
  BY <1>1, <1>2, <1>4, <1>5, <1>6 DEF NodeChange

-----------------------------------------------------------------------------
(* The web server and the webhook *)

\* With its web server and its webhook a node does what AlertNode does.
LEMMA NodeSteps ==
  ASSUME [ReportsNext]_nodeVars
  PROVE  [Next]_vars
<1>1. CASE NodeStep
  BY <1>1 DEF NodeStep, Next, SubStep
<1>2. ASSUME NEW a \in Alerts, SubReceiveNext(a) PROVE Next
  BY <1>2 DEF SubReceiveNext, Next
<1>3. CASE SaveThenPost
  BY <1>3 DEF SaveThenPost, Next, SubStep
<1>4. CASE HealthLatest \/ HealthAnswer \/ HealthAnswerBlind \/ AlertsAnswer \/ PostAlert
  BY <1>4 DEF HealthLatest, HealthAnswer, HealthAnswerBlind, AlertsAnswer, PostAlert
<1>5. CASE Restart
  BY <1>5 DEF Restart, Next
<1>6. CASE UNCHANGED nodeVars
  BY <1>6 DEF nodeVars
<1> QED
  BY <1>1, <1>2, <1>3, <1>4, <1>5, <1>6 DEF ReportsNext

LEMMA ReportsAreNode == ReportsSpec => Spec
<1>1. ReportsInit => Init
  BY DEF ReportsInit
<1>2. [ReportsNext]_nodeVars => [Next]_vars
  BY NodeSteps
<1> QED
  BY <1>1, <1>2, PTL DEF ReportsSpec, Spec

\* What has been answered stays true while the node goes on.
LEMMA AnswersKept ==
  ASSUME RInv, [Next]_vars
  PROVE  /\ told' = told => told' \in StoredSeqs'
         /\ health' = health => HealthOK'
         /\ post' = post => PostedHappened'
<1>1. /\ StoredSeqs \subseteq StoredSeqs' /\ performed \subseteq performed'
      /\ faults' = 0 => faults = 0
      /\ \A a \in Alerts : Stored(a) => Stored(a)'
  BY NodeGrows DEF RInv
<1>2. told' = told => told' \in StoredSeqs'
  BY <1>1 DEF RInv
<1>3. ASSUME health' = health PROVE HealthOK'
  <2>1. health.at = "latest" => health.sequence \in StoredSeqs' /\ health.unprocessed = FALSE
    BY <1>1 DEF RInv, HealthOK
  <2>2. health.at = "answered" => \A k \in 0 .. health.sequence : k \in StoredSeqs'
    BY <1>1 DEF RInv, HealthOK, HealthTruthful, HasSequence
  <2>3. health.at = "answered" /\ ~health.unprocessed /\ ~health.failed =>
          \A k \in 0 .. health.sequence : \E a \in performed' : SeqOf[a] = k
    BY <1>1 DEF RInv, HealthOK, HealthTruthful
  <2> QED
    BY <1>3, <2>1, <2>2, <2>3 DEF HealthOK, HealthTruthful, HasSequence
<1>4. ASSUME post' = post PROVE PostedHappened'
  <2>1. post.alert \in Alerts
    BY DEF RInv, ReportsTypeOK, Notification
  <2>2. CASE post = NoPost
    BY <1>4, <2>2 DEF PostedHappened, NoPost
  <2>3. CASE post # NoPost
    <3> DEFINE a == post.alert
    <3>1. /\ post.processed => a \in performed
          /\ faults = 0 => Stored(a)
      BY <2>3 DEF RInv, PostedHappened
    <3>2. Stored(a) => \E i \in DOMAIN rows' : rows'[i].alert = a
      BY <1>1, <2>1 DEF Stored
    <3>3. /\ post.processed => a \in performed'
          /\ faults' = 0 => \E i \in DOMAIN rows' : rows'[i].alert = a
      BY <1>1, <3>1, <3>2
    <3> QED
      BY <1>4, <3>3 DEF PostedHappened, Stored
  <2> QED
    BY <2>2, <2>3
<1> QED
  BY <1>2, <1>3, <1>4

LEMMA ReportsType ==
  ASSUME RInv, [ReportsNext]_nodeVars
  PROVE  ReportsTypeOK'
<1>1. Latest \in Nat
  BY LatestStored DEF RInv, IInv
<1>2. health' \in [at : {"idle", "latest", "answered"}, sequence : Nat,
                  unprocessed : BOOLEAN, failed : BOOLEAN]
  <2> DEFINE H == [at : {"idle", "latest", "answered"}, sequence : Nat,
                   unprocessed : BOOLEAN, failed : BOOLEAN]
  <2>1. health \in H /\ Idle \in H
    BY DEF RInv, ReportsTypeOK, Idle
  <2>2. (Unprocessed # {}) \in BOOLEAN
    OBVIOUS
  <2>3. CASE HealthLatest
    BY <1>1, <2>1, <2>3 DEF HealthLatest, Query, Queries, Idle
  <2>4. CASE HealthAnswer
    BY <2>1, <2>2, <2>4 DEF HealthAnswer, Query, Queries
  <2>5. CASE HealthAnswerBlind
    BY <2>1, <2>5 DEF HealthAnswerBlind
  <2>6. CASE Restart
    BY <2>1, <2>6 DEF Restart
  <2>7. CASE UNCHANGED health
    BY <2>1, <2>7
  <2> QED
    BY <2>3, <2>4, <2>5, <2>6, <2>7
       DEF ReportsNext, NodeStep, SubReceiveNext, SaveThenPost, PostAlert, AlertsAnswer,
           reports, nodeVars
<1>3. told' \in Nat
  BY <1>1 DEF RInv, ReportsTypeOK, ReportsNext, NodeStep, SubReceiveNext, SaveThenPost,
              PostAlert, AlertsAnswer, LatestSequence, HealthLatest, HealthAnswer,
              HealthAnswerBlind, Restart, reports, nodeVars
<1>4. post' \in Notification
  <2>1. NoPost \in Notification /\ post \in Notification
    BY AlertNodeAssumption DEF NoPost, Notification, RInv, ReportsTypeOK
  <2>2. PostedAlert \in Notification
    BY WorkerNames DEF PostedAlert, Notification, RInv, IInv, TypeOK
  <2>3. post' = post \/ post' = NoPost \/ post' = PostedAlert
    BY DEF ReportsNext, NodeStep, SubReceiveNext, SaveThenPost, PostAlert, AlertsAnswer,
           HealthLatest, HealthAnswer, HealthAnswerBlind, Restart, reports, nodeVars
  <2> QED
    BY <2>1, <2>2, <2>3
<1> QED
  BY <1>2, <1>3, <1>4 DEF ReportsTypeOK

\* Below a stored number all are stored.
LEMMA StoredUpTo ==
  ASSUME RInv, NEW n \in StoredSeqs, NEW k \in 0 .. n
  PROVE  HasSequence(k)
BY DEF RInv, Gapless, HasSequence

\* The second query: every row is processed, hence every number up to the one
\* that the first query found belongs to an alert that was performed.
LEMMA HealthStep ==
  ASSUME RInv, HealthLatest \/ HealthAnswer \/ HealthAnswerBlind
  PROVE  HealthOK'
<1>0. /\ UNCHANGED <<rows, performed>>
      /\ health \in [at : {"idle", "latest", "answered"}, sequence : Nat,
                     unprocessed : BOOLEAN, failed : BOOLEAN]
  BY DEF HealthLatest, HealthAnswer, HealthAnswerBlind, vars, tables, RInv, ReportsTypeOK
<1>1. CASE HealthLatest
  <2>1. Latest \in StoredSeqs
    BY LatestStored DEF RInv, IInv
  <2>2. health' = [at |-> "latest", sequence |-> Latest, unprocessed |-> FALSE,
                 failed |-> FALSE]
    BY <1>1 DEF HealthLatest, Query, Queries, Idle
  <2>3. StoredSeqs' = StoredSeqs
    BY <1>0 DEF StoredSeqs
  <2>4. health'.at = "latest" /\ health'.sequence \in StoredSeqs' /\ health'.unprocessed = FALSE
    BY <2>1, <2>2, <2>3
  <2> QED
    BY <2>4 DEF HealthOK, HealthTruthful
<1>2. CASE HealthAnswer
  <2>1. /\ health'.at = "answered" /\ health'.sequence = health.sequence
        /\ health'.unprocessed <=> Unprocessed # {}
    BY <1>0, <1>2 DEF HealthAnswer, Query, Queries
  <2>2. health.sequence \in StoredSeqs
    BY <1>2 DEF HealthAnswer, RInv, HealthOK
  <2>3. \A k \in 0 .. health.sequence : HasSequence(k)
    BY <2>2, StoredUpTo
  <2>4. ASSUME Unprocessed = {}, NEW k \in 0 .. health.sequence
        PROVE  \E a \in performed : SeqOf[a] = k
    <3>1. k \in StoredSeqs
      BY <2>2, <2>4 DEF RInv, Gapless
    <3>2. PICK i \in DOMAIN rows : SeqOf[rows[i].alert] = k
      BY <3>1 DEF StoredSeqs
    <3>3. rows[i].processed
      BY <2>4, <3>2 DEF Unprocessed
    <3> QED
      BY <3>2, <3>3 DEF RInv, IInv, ProcessedPerformed
  <2> QED
    BY <1>0, <2>1, <2>3, <2>4 DEF HealthOK, HealthTruthful, HasSequence, StoredSeqs
<1>3. CASE HealthAnswerBlind
  <2>1. /\ health'.at = "answered" /\ health'.sequence = health.sequence
        /\ health'.failed = TRUE
    BY <1>0, <1>3 DEF HealthAnswerBlind
  <2>2. health.sequence \in StoredSeqs
    BY <1>3 DEF HealthAnswerBlind, RInv, HealthOK
  <2>3. \A k \in 0 .. health.sequence : HasSequence(k)
    BY <2>2, StoredUpTo
  <2> QED
    BY <1>0, <2>1, <2>3 DEF HealthOK, HealthTruthful, HasSequence, StoredSeqs
<1> QED
  BY <1>1, <1>2, <1>3

\* Subscribe posts after Save.
LEMMA PostStep ==
  ASSUME RInv, SaveThenPost
  PROVE  PostedHappened'
<1>1. post' = [alert |-> cur["sub"], processed |-> ok["sub"]]
      /\ (SaveRow("sub") \/ SaveRowFails("sub"))
  BY DEF SaveThenPost, PostedAlert
<1>2. ok["sub"] => cur["sub"] \in performed
  BY <1>1, WorkerNames DEF SaveRow, SaveRowFails, RInv, IInv, Working, WorkerOK
<1>3. performed' = performed
  BY <1>1 DEF SaveRow, SaveRowFails
<1>4. ASSUME faults' = 0 PROVE Stored(cur["sub"])'
  <2>1. faults \in Nat
    BY AlertNodeAssumption DEF RInv, IInv, TypeOK
  <2>2. Insert("sub")
    BY <1>1, <1>4, <2>1 DEF SaveRow, SaveRowFails, Fault
  <2>3. /\ rows' = Append(rows, [alert |-> cur["sub"], processed |-> ok["sub"]])
        /\ rows \in Seq(Row)
    BY <2>2 DEF Insert, RInv, IInv, TypeOK
  <2>4. Len(rows) + 1 \in DOMAIN rows' /\ rows'[Len(rows) + 1].alert = cur["sub"]
    BY <2>3
  <2>5. cur'["sub"] = cur["sub"]
    BY <1>1 DEF SaveRow, SaveRowFails
  <2> QED
    BY <2>4, <2>5 DEF Stored
<1>5. /\ post'.alert = cur["sub"] /\ post'.processed = ok["sub"]
  BY <1>1
<1>6. cur'["sub"] = cur["sub"]
  BY <1>1 DEF SaveRow, SaveRowFails
<1> QED
  BY <1>2, <1>3, <1>4, <1>5, <1>6 DEF PostedHappened, Stored

LEMMA ReportsInvariant == ReportsSpec => []RInv
<1>1. ReportsInit => RInv
  <2> SUFFICES ASSUME ReportsInit PROVE RInv
    OBVIOUS
  <2>1. IInv
    BY InitIInv DEF ReportsInit
  <2>2. rows = <<[alert |-> Genesis, processed |-> TRUE]>>
    BY DEF ReportsInit, Init
  <2>3. StoredSeqs = {0}
    <3>1. DOMAIN rows = {1} /\ rows[1].alert = Genesis
      BY <2>2
    <3> QED
      BY <3>1, AlertNodeAssumption DEF StoredSeqs
  <2>4. ReportsTypeOK
    BY AlertNodeAssumption DEF ReportsInit, ReportsTypeOK, Idle, NoPost, Notification
  <2>5. HealthOK /\ PostedHappened
    BY DEF ReportsInit, HealthOK, HealthTruthful, PostedHappened, Idle
  <2> QED
    BY <2>1, <2>3, <2>4, <2>5 DEF RInv, Gapless, ReportsInit
<1>2. RInv /\ [ReportsNext]_nodeVars => RInv'
  <2> SUFFICES ASSUME RInv, [ReportsNext]_nodeVars PROVE RInv'
    OBVIOUS
  <2>1. [Next]_vars
    BY NodeSteps
  <2>2. IInv' /\ Gapless'
    BY <2>1, NodeGrows DEF RInv
  <2>3. ReportsTypeOK'
    BY ReportsType
  <2>4. told' \in StoredSeqs'
    <3>1. CASE AlertsAnswer
      <4>1. told' = Latest /\ rows' = rows
        BY <3>1 DEF AlertsAnswer, LatestSequence, vars, tables
      <4> QED
        BY <4>1, LatestStored DEF RInv, IInv, StoredSeqs
    <3>2. CASE told' = told
      BY <2>1, <3>2, AnswersKept
    <3> QED
      BY <3>1, <3>2 DEF ReportsNext, NodeStep, SubReceiveNext, SaveThenPost, PostAlert,
         HealthLatest, HealthAnswer, HealthAnswerBlind, Restart, reports, nodeVars
  <2>5. HealthOK'
    <3>1. CASE HealthLatest \/ HealthAnswer \/ HealthAnswerBlind
      BY <3>1, HealthStep
    <3>2. CASE Restart
      BY <3>2 DEF Restart, Idle, HealthOK, HealthTruthful
    <3>3. CASE health' = health
      BY <2>1, <3>3, AnswersKept
    <3> QED
      BY <3>1, <3>2, <3>3 DEF ReportsNext, NodeStep, SubReceiveNext, SaveThenPost,
         PostAlert, AlertsAnswer, reports, nodeVars
  <2>6. PostedHappened'
    <3>1. CASE SaveThenPost
      BY <3>1, PostStep
    <3>2. CASE post' = NoPost
      BY <3>2 DEF PostedHappened, NoPost
    <3>3. CASE post' = post
      BY <2>1, <3>3, AnswersKept
    <3> QED
      BY <3>1, <3>2, <3>3 DEF ReportsNext, NodeStep, SubReceiveNext, PostAlert, AlertsAnswer,
         HealthLatest, HealthAnswer, HealthAnswerBlind, Restart, reports, nodeVars
  <2> QED
    BY <2>2, <2>3, <2>4, <2>5, <2>6 DEF RInv
<1> QED
  BY <1>1, <1>2, PTL DEF ReportsSpec

\* The variables of the handlers keep their types, whatever the node goes
\* through.
THEOREM ReportsTypeCorrect == ReportsSpec => []ReportsTypeOK
<1>1. RInv => ReportsTypeOK
  BY DEF RInv
<1> QED
  BY <1>1, ReportsInvariant, PTL

\* The number that /health answers, whether its second query has failed or not,
\* has no alert missing below it, and stays so.  A count of zero is true of all
\* of them where it was counted, although the two queries see different states
\* of the table; where the second query failed the theorem says nothing of it.
THEOREM HealthIsTruthful == ReportsSpec => []HealthTruthful
<1>1. RInv => HealthTruthful
  BY DEF RInv, HealthOK
<1> QED
  BY <1>1, ReportsInvariant, PTL

\* What /alerts has listed is shown by /alert/:sequence for ever.
THEOREM ListedStaysShown == ReportsSpec => []ListedIsShown
<1>1. RInv => ListedIsShown
  <2> SUFFICES ASSUME RInv, NEW k \in 1 .. told PROVE Shown(k)
    BY DEF ListedIsShown
  <2>1. k \in 0 .. told /\ k # 0
    BY DEF RInv, ReportsTypeOK
  <2>2. k \in StoredSeqs
    BY <2>1 DEF RInv, Gapless
  <2> QED
    BY <2>1, <2>2, AlertNodeAssumption DEF Shown, HasSequence
<1> QED
  BY <1>1, ReportsInvariant, PTL

\* The webhook tells of alerts that took effect and are stored.
THEOREM PostedDidHappen == ReportsSpec => []PostedHappened
<1>1. RInv => PostedHappened
  BY DEF RInv
<1> QED
  BY <1>1, ReportsInvariant, PTL

\* The latest sequence number that /alerts tells never falls back.
THEOREM AnswersNeverFallBack == ReportsSpec => NeverFallsBack
<1>1. RInv /\ [ReportsNext]_nodeVars => [told <= told']_nodeVars
  <2> SUFFICES ASSUME RInv, ReportsNext PROVE told <= told'
    OBVIOUS
  <2>1. told \in Nat /\ told \in StoredSeqs
    BY DEF RInv, ReportsTypeOK
  <2>2. CASE AlertsAnswer
    <3>1. told' = Latest /\ Latest \in Nat
      BY <2>2, LatestStored DEF AlertsAnswer, LatestSequence, RInv, IInv
    <3>2. \E k \in StoredSeqs : \A l \in StoredSeqs : k >= l
      BY StoredSeqsNat DEF HasLatest, RInv, IInv
    <3>3. told <= Latest
      BY <2>1, <3>1, <3>2 DEF Latest, Max
    <3> QED
      BY <3>1, <3>3
  <2>3. CASE told' = told
    BY <2>1, <2>3
  <2> QED
    BY <2>2, <2>3 DEF ReportsNext, NodeStep, SubReceiveNext, SaveThenPost, PostAlert,
       HealthLatest, HealthAnswer, HealthAnswerBlind, Restart, reports, nodeVars
<1> QED
  BY <1>1, ReportsInvariant, PTL DEF ReportsSpec, NeverFallsBack
=============================================================================
