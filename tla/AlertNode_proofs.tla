-------------------------- MODULE AlertNode_proofs --------------------------
(***************************************************************************)
(* Proofs about AlertNode for any alerts, any number of sync sessions and  *)
(* any number of faults: what is marked as processed was performed, the    *)
(* table has no gap, and rows are never lost.                              *)
(*                                                                         *)
(* The facts that carry the argument are about goroutines between two      *)
(* calls: what they know of the table when they act on it (WorkerOK), and  *)
(* that the row of the cron is still the row it loaded (CronRow).          *)
(***************************************************************************)
EXTENDS AlertNode, TLAPS

\* The predecessor of alert a is stored.
Follows(a) == SeqOf[a] > 0 => SeqOf[a] - 1 \in StoredSeqs

\* GetLatestAlert has an answer.
HasLatest == \E k \in StoredSeqs : \A l \in StoredSeqs : l <= k

\* What worker w may rely on at its next call.
WorkerOK(w) ==
  /\ pc[w] = "save" /\ ok[w] => cur[w] \in performed
  /\ w # "cron" /\ pc[w] \in {"dup", "check", "do", "install", "save"} => Follows(cur[w])
  /\ w \in Readers => pc[w] \in {"idle", "await", "do", "install", "save"}
  /\ w \in Readers /\ pc[w] = "await" => want[w] - 1 \in StoredSeqs

Working == \A w \in Workers : WorkerOK(w)

CronRow ==
  /\ pc["cron"] \in {"idle", "next", "do", "install", "save"}
  /\ queue \subseteq DOMAIN rows
  /\ pc["cron"] \in {"do", "install", "save"} =>
       row \in DOMAIN rows /\ rows[row].alert = cur["cron"]
  /\ pc["cron"] = "save" => ok["cron"]

IInv == TypeOK /\ ProcessedPerformed /\ GapFree /\ HasLatest /\ Working /\ CronRow

\* Rows stay what they are; only the mark of a row may be set.
RowsGrow ==
  /\ Len(rows) <= Len(rows')
  /\ \A i \in DOMAIN rows :
       /\ rows'[i].alert = rows[i].alert
       /\ rows[i].processed => rows'[i].processed

-----------------------------------------------------------------------------
(* Lemmas about the tables *)

LEMMA WorkerNames ==
  /\ "sub" \in Workers /\ "cron" \in Workers /\ Readers \subseteq Workers
  /\ "sub" \notin Readers /\ "cron" \notin Readers
  BY AlertNodeAssumption DEF Workers

LEMMA Domain ==
  ASSUME TypeOK
  PROVE  /\ DOMAIN rows = 1 .. Len(rows) /\ Len(rows) \in Nat
         /\ \A i \in DOMAIN rows : rows[i] \in Row /\ rows[i].alert \in Alerts
<1>1. rows \in Seq(Row)
  BY DEF TypeOK
<1>2. DOMAIN rows = 1 .. Len(rows) /\ Len(rows) \in Nat
  BY <1>1
<1>3. \A i \in DOMAIN rows : rows[i] \in Row
  BY <1>1, <1>2
<1>4. \A r \in Row : r.alert \in Alerts
  BY DEF Row
<1> QED
  BY <1>2, <1>3, <1>4

LEMMA StoredSeqsNat ==
  ASSUME TypeOK
  PROVE  StoredSeqs \subseteq Nat
  BY Domain, AlertNodeAssumption DEF StoredSeqs

LEMMA LatestStored ==
  ASSUME TypeOK, HasLatest
  PROVE  Latest \in StoredSeqs /\ Latest \in Nat
<1>1. \E k \in StoredSeqs : \A l \in StoredSeqs : k >= l
  BY StoredSeqsNat DEF HasLatest
<1>2. Latest \in StoredSeqs
  BY <1>1 DEF Latest, Max
<1> QED
  BY <1>2, StoredSeqsNat

\* Inserting the row of an alert whose predecessor is stored.
LEMMA AppendRow ==
  ASSUME TypeOK, ProcessedPerformed, GapFree, HasLatest,
         NEW a \in Alerts, NEW p \in BOOLEAN, Follows(a), p => a \in performed,
         rows' = Append(rows, [alert |-> a, processed |-> p]), performed' = performed
  PROVE  /\ rows' \in Seq(Row) /\ RowsGrow
         /\ ProcessedPerformed' /\ GapFree' /\ HasLatest'
         /\ StoredSeqs \subseteq StoredSeqs' /\ SeqOf[a] \in StoredSeqs'
<1> DEFINE new == [alert |-> a, processed |-> p]
<1>1. new \in Row /\ new.alert = a /\ new.processed = p
  BY DEF Row
<1>2. /\ rows' \in Seq(Row) /\ Len(rows') = Len(rows) + 1
      /\ DOMAIN rows' = DOMAIN rows \cup {Len(rows) + 1}
      /\ rows'[Len(rows) + 1] = new
      /\ \A i \in DOMAIN rows : rows'[i] = rows[i]
  BY <1>1, Domain DEF TypeOK
<1>3. StoredSeqs' = StoredSeqs \cup {SeqOf[a]}
  BY <1>1, <1>2 DEF StoredSeqs
<1>4. ProcessedPerformed'
  BY <1>1, <1>2 DEF ProcessedPerformed
<1>5. GapFree'
  BY <1>3 DEF GapFree, Follows
<1>6. HasLatest'
  <2>1. PICK k \in StoredSeqs : \A l \in StoredSeqs : l <= k
    BY DEF HasLatest
  <2>2. k \in Nat /\ SeqOf[a] \in Nat
    BY StoredSeqsNat, AlertNodeAssumption
  <2>3. CASE SeqOf[a] <= k
    BY <1>3, <2>1, <2>3 DEF HasLatest
  <2>4. CASE k < SeqOf[a]
    <3>1. \A l \in StoredSeqs' : l <= SeqOf[a]
      BY <1>3, <2>1, <2>2, <2>4, StoredSeqsNat
    <3> QED
      BY <1>3, <3>1 DEF HasLatest
  <2> QED
    BY <2>2, <2>3, <2>4
<1>7. RowsGrow
  BY <1>2, Domain DEF RowsGrow
<1> QED
  BY <1>2, <1>3, <1>4, <1>5, <1>6, <1>7

\* Marking the row of a performed alert.
LEMMA MarkRow ==
  ASSUME TypeOK, ProcessedPerformed, GapFree, HasLatest,
         NEW i \in DOMAIN rows, rows[i].alert \in performed,
         rows' = [rows EXCEPT ![i].processed = TRUE], performed' = performed
  PROVE  /\ rows' \in Seq(Row) /\ RowsGrow
         /\ ProcessedPerformed' /\ GapFree' /\ HasLatest'
         /\ StoredSeqs' = StoredSeqs
<1>1. rows[i] \in Row /\ [rows[i] EXCEPT !.processed = TRUE] \in Row
  BY Domain DEF Row
<1>2. /\ rows' \in Seq(Row) /\ Len(rows') = Len(rows) /\ DOMAIN rows' = DOMAIN rows
      /\ rows'[i] = [rows[i] EXCEPT !.processed = TRUE]
      /\ \A j \in DOMAIN rows \ {i} : rows'[j] = rows[j]
  BY <1>1, Domain DEF TypeOK
<1>3. /\ rows'[i].alert = rows[i].alert /\ rows'[i].processed
      /\ \A j \in DOMAIN rows : rows'[j].alert = rows[j].alert
  BY <1>1, <1>2 DEF Row
<1>4. StoredSeqs' = StoredSeqs
  BY <1>2, <1>3 DEF StoredSeqs
<1>5. RowsGrow
  BY <1>2, <1>3, Domain DEF RowsGrow
<1>6. ProcessedPerformed'
  BY <1>2, <1>3 DEF ProcessedPerformed
<1>7. GapFree' /\ HasLatest'
  BY <1>4 DEF GapFree, HasLatest
<1> QED
  BY <1>2, <1>4, <1>5, <1>6, <1>7

-----------------------------------------------------------------------------
(* Frames: what a step of one worker leaves alone *)

\* The table is unchanged.
LEMMA TableKept ==
  ASSUME TypeOK, ProcessedPerformed, GapFree, HasLatest,
         rows' = rows, performed \subseteq performed'
  PROVE  /\ ProcessedPerformed' /\ GapFree' /\ HasLatest'
         /\ StoredSeqs' = StoredSeqs /\ RowsGrow
<1>1. StoredSeqs' = StoredSeqs
  BY DEF StoredSeqs
<1>2. GapFree' /\ HasLatest'
  BY <1>1 DEF GapFree, HasLatest
<1>3. ProcessedPerformed'
  BY DEF ProcessedPerformed
<1>4. RowsGrow
  BY Domain DEF RowsGrow
<1> QED
  BY <1>1, <1>2, <1>3, <1>4

\* The step is one of worker w, or of none.
LEMMA OthersKept ==
  ASSUME Working, NEW w,
         \A v \in Workers \ {w} :
           /\ pc'[v] = pc[v] /\ cur'[v] = cur[v] /\ ok'[v] = ok[v]
           /\ v \in Readers => want'[v] = want[v],
         StoredSeqs \subseteq StoredSeqs', performed \subseteq performed',
         w \in Workers => WorkerOK(w)'
  PROVE  Working'
<1>1. ASSUME NEW v \in Workers, v # w PROVE WorkerOK(v)'
  <2>1. WorkerOK(v)
    BY DEF Working
  <2> QED
    BY <1>1, <2>1 DEF WorkerOK, Follows
<1> QED
  BY <1>1 DEF Working

\* The cron is where it was.
LEMMA CronKept ==
  ASSUME TypeOK, CronRow, RowsGrow, rows' \in Seq(Row),
         pc'["cron"] = pc["cron"], cur'["cron"] = cur["cron"], ok'["cron"] = ok["cron"],
         queue' = queue, row' = row
  PROVE  CronRow'
<1>1. DOMAIN rows \subseteq DOMAIN rows'
  BY Domain DEF RowsGrow
<1> QED
  BY <1>1 DEF CronRow, RowsGrow

LEMMA FaultType ==
  ASSUME TypeOK, Fault
  PROVE  faults' \in 0 .. MaxFaults /\ refusals' \in 0 .. MaxRefusals
  BY AlertNodeAssumption DEF TypeOK, Fault

\* A step of worker w that leaves the table alone.
LEMMA QuietStep ==
  ASSUME IInv, TypeOK', NEW w, rows' = rows, performed \subseteq performed',
         \A v \in Workers \ {w} :
           /\ pc'[v] = pc[v] /\ cur'[v] = cur[v] /\ ok'[v] = ok[v]
           /\ v \in Readers => want'[v] = want[v],
         w \in Workers => WorkerOK(w)',
         w = "cron" => CronRow',
         w # "cron" => queue' = queue /\ row' = row
  PROVE  IInv' /\ RowsGrow
<1>1. /\ ProcessedPerformed' /\ GapFree' /\ HasLatest'
      /\ StoredSeqs' = StoredSeqs /\ RowsGrow
  BY TableKept DEF IInv
<1>2. Working'
  BY <1>1, OthersKept DEF IInv
<1>3. CronRow'
  <2>1. CASE w # "cron"
    BY <1>1, <2>1, CronKept, WorkerNames DEF IInv, TypeOK
  <2> QED
    BY <2>1
<1> QED
  BY <1>1, <1>2, <1>3 DEF IInv

-----------------------------------------------------------------------------
(* Subscribe and the sync sessions *)

LEMMA SubReceiveStep ==
  ASSUME IInv, NEW a \in Alerts, SubReceive(a)
  PROVE  IInv' /\ RowsGrow
<1>1. TypeOK'
  BY WorkerNames DEF IInv, TypeOK, SubReceive, Goto, PC, tables, session, retry, counts
<1>2. WorkerOK("sub")'
  BY WorkerNames DEF IInv, TypeOK, SubReceive, Goto, WorkerOK
<1>3. /\ rows' = rows /\ performed' = performed /\ ok' = ok /\ want' = want
      /\ queue' = queue /\ row' = row
  BY DEF SubReceive, tables, session, retry
<1>4. \A v \in Workers \ {"sub"} : pc'[v] = pc[v] /\ cur'[v] = cur[v]
  <2>1. pc' = [pc EXCEPT !["sub"] = "prior"] /\ cur' = [cur EXCEPT !["sub"] = a]
    BY DEF SubReceive, Goto
  <2>2. pc \in [Workers -> PC] /\ cur \in [Workers -> Alerts]
    BY DEF IInv, TypeOK
  <2> QED
    BY <2>1, <2>2
<1>5. "sub" # "cron"
  OBVIOUS
<1> QED
  BY <1>1, <1>2, <1>3, <1>4, <1>5, QuietStep

LEMMA SubPriorStep ==
  ASSUME IInv, SubPrior
  PROVE  IInv' /\ RowsGrow
<1>1. TypeOK'
  BY WorkerNames, FaultType
     DEF IInv, TypeOK, SubPrior, Goto, PC, NoFault, tables, session, retry, counts
<1>2. StoredSeqs' = StoredSeqs /\ cur' = cur
  BY DEF SubPrior, tables, StoredSeqs
<1>3. pc'["sub"] = "dup" => HasSequence(SeqOf[cur["sub"]] - 1)
  BY WorkerNames DEF IInv, TypeOK, SubPrior, Goto
<1>4. pc'["sub"] \in {"dup", "idle"}
  BY WorkerNames DEF IInv, TypeOK, SubPrior, Goto
<1>5. WorkerOK("sub")'
  BY <1>2, <1>3, <1>4, WorkerNames DEF WorkerOK, Follows, HasSequence
<1>6. /\ rows' = rows /\ performed' = performed /\ ok' = ok /\ cur' = cur
      /\ queue' = queue /\ row' = row /\ want' = want
  BY DEF SubPrior, tables, session, retry
<1>7. \A v \in Workers \ {"sub"} : pc'[v] = pc[v]
  BY DEF IInv, TypeOK, SubPrior, Goto
<1> QED
  BY <1>1, <1>5, <1>6, <1>7, QuietStep, WorkerNames

LEMMA SubDupStep ==
  ASSUME IInv, SubDup
  PROVE  IInv' /\ RowsGrow
<1>1. TypeOK'
  BY WorkerNames, FaultType, AlertNodeAssumption
     DEF IInv, TypeOK, SubDup, Goto, PC, NoFault, tables, session, retry, counts
<1>2. StoredSeqs' = StoredSeqs /\ cur' = cur /\ pc'["sub"] = "check"
  BY WorkerNames DEF IInv, TypeOK, SubDup, Goto, tables, StoredSeqs
<1>3. WorkerOK("sub")'
  BY <1>2, WorkerNames DEF IInv, Working, WorkerOK, Follows, SubDup
<1>4. /\ rows' = rows /\ performed' = performed /\ ok' = ok /\ cur' = cur
      /\ queue' = queue /\ row' = row /\ want' = want
  BY DEF SubDup, tables, session, retry
<1>5. \A v \in Workers \ {"sub"} : pc'[v] = pc[v]
  BY DEF IInv, TypeOK, SubDup, Goto
<1> QED
  BY <1>1, <1>3, <1>4, <1>5, QuietStep, WorkerNames

LEMMA SubCheckStep ==
  ASSUME IInv, SubCheck
  PROVE  IInv' /\ RowsGrow
<1>1. TypeOK'
  BY WorkerNames DEF IInv, TypeOK, SubCheck, Goto, PC, tables, session, retry, counts
<1>2. StoredSeqs' = StoredSeqs /\ cur' = cur /\ pc'["sub"] \in {"do", "idle"}
  BY WorkerNames DEF IInv, TypeOK, SubCheck, Goto, tables, StoredSeqs
<1>3. WorkerOK("sub")'
  BY <1>2, WorkerNames DEF IInv, Working, WorkerOK, Follows, SubCheck
<1>4. /\ rows' = rows /\ performed' = performed /\ ok' = ok /\ cur' = cur
      /\ queue' = queue /\ row' = row /\ want' = want
  BY DEF SubCheck, tables, session, retry
<1>5. \A v \in Workers \ {"sub"} : pc'[v] = pc[v]
  BY DEF IInv, TypeOK, SubCheck, Goto
<1> QED
  BY <1>1, <1>3, <1>4, <1>5, QuietStep, WorkerNames

LEMMA SyncStartStep ==
  ASSUME IInv, NEW r \in Readers, NEW k \in Nat, SyncStart(r, k)
  PROVE  IInv' /\ RowsGrow
<1>1. Latest \in StoredSeqs /\ Latest \in Nat
  BY LatestStored DEF IInv
<1>2. TypeOK'
  BY <1>1, WorkerNames
     DEF IInv, TypeOK, SyncStart, Goto, PC, tables, retry, counts
<1>3. /\ StoredSeqs' = StoredSeqs /\ pc'[r] = "await"
      /\ want'[r] = Latest + 1
  BY WorkerNames DEF IInv, TypeOK, SyncStart, Goto, tables, StoredSeqs
<1>4. WorkerOK(r)'
  BY <1>1, <1>3 DEF WorkerOK
<1>5. /\ rows' = rows /\ performed' = performed /\ ok' = ok /\ cur' = cur
      /\ queue' = queue /\ row' = row
  BY DEF SyncStart, tables, session, retry
<1>6. \A v \in Workers \ {r} : pc'[v] = pc[v] /\ (v \in Readers => want'[v] = want[v])
  BY DEF IInv, TypeOK, SyncStart, Goto
<1> QED
  BY <1>2, <1>4, <1>5, <1>6, QuietStep, WorkerNames

LEMMA SyncReceiveStep ==
  ASSUME IInv, NEW r \in Readers, NEW a \in Alerts, SyncReceive(r, a)
  PROVE  IInv' /\ RowsGrow
<1>1. TypeOK'
  BY WorkerNames, FaultType
     DEF IInv, TypeOK, SyncReceive, Goto, PC, NoFault, tables, session, retry, counts
<1>2. /\ StoredSeqs' = StoredSeqs /\ pc'[r] \in {"do", "idle"} /\ cur'[r] = a
      /\ SeqOf[a] - 1 \in StoredSeqs
  BY WorkerNames DEF IInv, TypeOK, Working, WorkerOK, SyncReceive, Goto, tables, StoredSeqs
<1>3. WorkerOK(r)'
  BY <1>2, WorkerNames DEF WorkerOK, Follows
<1>4. /\ rows' = rows /\ performed' = performed /\ ok' = ok
      /\ queue' = queue /\ row' = row /\ want' = want
  BY DEF SyncReceive, tables, session, retry
<1>5. \A v \in Workers \ {r} : pc'[v] = pc[v] /\ cur'[v] = cur[v]
  BY DEF IInv, TypeOK, SyncReceive, Goto
<1> QED
  BY <1>1, <1>3, <1>4, <1>5, QuietStep, WorkerNames

LEMMA SyncTimeoutStep ==
  ASSUME IInv, NEW r \in Readers, SyncTimeout(r)
  PROVE  IInv' /\ RowsGrow
<1>1. TypeOK'
  BY WorkerNames, FaultType
     DEF IInv, TypeOK, SyncTimeout, Goto, PC, tables, retry
<1>2. /\ StoredSeqs' = StoredSeqs /\ cur' = cur /\ ok' = ok
      /\ performed' = performed
      /\ pc'[r] = pc[r] \/ pc'[r] = "idle"
      /\ want' = want
  BY WorkerNames DEF IInv, TypeOK, SyncTimeout, Goto, tables, StoredSeqs
<1>3. WorkerOK(r)'
  BY <1>2, WorkerNames DEF IInv, Working, WorkerOK, Follows
<1>4. /\ rows' = rows /\ performed' = performed /\ ok' = ok /\ cur' = cur
      /\ queue' = queue /\ row' = row /\ want' = want
  BY DEF SyncTimeout, tables, session, retry
<1>5. \A v \in Workers \ {r} : pc'[v] = pc[v]
  BY DEF IInv, TypeOK, SyncTimeout, Goto
<1> QED
  BY <1>1, <1>3, <1>4, <1>5, QuietStep, WorkerNames

-----------------------------------------------------------------------------
(* Do, the same for every worker *)

\* After Do the worker goes on as AfterDo says, or SetKeys.Do has more to do.
LEMMA DoAny ==
  ASSUME IInv, TypeOK', NEW w \in Workers, pc[w] \in {"do", "install"},
         rows' = rows, performed \subseteq performed',
         UNCHANGED <<cur, want, queue, row>>,
         \/ pc' = [pc EXCEPT ![w] = "install"] /\ ok' = ok
         \/ pc' = pc /\ ok' = ok
         \/ AfterDo(w, TRUE) /\ cur[w] \in performed'
         \/ AfterDo(w, FALSE)
  PROVE  IInv' /\ RowsGrow
<1>1. StoredSeqs' = StoredSeqs
  BY DEF StoredSeqs
<1>2. /\ pc'[w] \in {"do", "install", "save", "next"}
      /\ pc'[w] = "next" => w = "cron"
      /\ pc'[w] = "save" /\ w = "cron" => ok'[w]
      /\ pc'[w] = "save" /\ ok'[w] => cur[w] \in performed'
      /\ \A v \in Workers \ {w} : pc'[v] = pc[v] /\ ok'[v] = ok[v]
  BY DEF IInv, TypeOK, AfterDo, Goto
<1>3. WorkerOK(w)'
  BY <1>1, <1>2, WorkerNames DEF IInv, Working, WorkerOK, Follows
<1>4. w = "cron" => CronRow'
  BY <1>2 DEF IInv, CronRow
<1> QED
  BY <1>2, <1>3, <1>4, QuietStep

LEMMA DoCallStep ==
  ASSUME IInv, NEW w \in Workers, DoCall(w) \/ DoCallFails(w)
  PROVE  IInv' /\ RowsGrow
<1>1. performed \subseteq performed' /\ performed' \in SUBSET Alerts
  BY DEF IInv, TypeOK, DoCall, DoCallFails
<1>2. pc' \in [Workers -> PC] /\ ok' \in [Workers -> BOOLEAN]
  BY DEF IInv, TypeOK, DoCall, DoCallFails, AfterDo, Goto, PC
<1>3. faults' \in 0 .. MaxFaults /\ refusals' \in 0 .. MaxRefusals
  <2>1. faults' = faults
    BY DEF DoCall, DoCallFails, counts
  <2>2. refusals' = refusals \/ (refusals < MaxRefusals /\ refusals' = refusals + 1)
    BY DEF DoCall, DoCallFails, counts
  <2> QED
    BY <2>1, <2>2, AlertNodeAssumption DEF IInv, TypeOK
<1>4. TypeOK'
  BY <1>1, <1>2, <1>3 DEF IInv, TypeOK, DoCall, DoCallFails, tables, session, retry
<1> QED
  BY <1>1, <1>4, DoAny DEF DoCall, DoCallFails, tables, session, retry

LEMMA DoKeysStep ==
  ASSUME IInv, NEW w \in Workers,
         DoClear(w) \/ (\E k \in Keys : DoInstall(w, k)) \/ DoKeysFail(w)
  PROVE  IInv' /\ RowsGrow
<1>1. CASE DoClear(w)
  <2>1. TypeOK'
    BY <1>1, AlertNodeAssumption
       DEF IInv, TypeOK, DoClear, Goto, PC, session, retry, counts
  <2> QED
    BY <1>1, <2>1, DoAny DEF DoClear, Goto, session, retry
<1>2. ASSUME NEW k \in Keys, DoInstall(w, k) PROVE IInv' /\ RowsGrow
  <2>1. performed \subseteq performed' /\ performed' \in SUBSET Alerts
    <3>1. performed' = performed \/ performed' = performed \cup {cur[w]}
      BY <1>2 DEF DoInstall
    <3> QED
      BY <3>1 DEF IInv, TypeOK
  <2>2. pc' \in [Workers -> PC] /\ ok' \in [Workers -> BOOLEAN]
    BY <1>2 DEF IInv, TypeOK, DoInstall, AfterDo, Goto, PC
  <2>3. TypeOK'
    BY <1>2, <2>1, <2>2 DEF IInv, TypeOK, DoInstall, session, retry, counts
  <2> QED
    BY <1>2, <2>1, <2>3, DoAny DEF DoInstall, session, retry
<1>3. CASE DoKeysFail(w)
  <2>1. faults' \in 0 .. MaxFaults /\ refusals' \in 0 .. MaxRefusals
    BY <1>3, FaultType DEF IInv, TypeOK, DoKeysFail, NoFault, counts
  <2>2. TypeOK'
    BY <1>3, <2>1 DEF IInv, TypeOK, DoKeysFail, AfterDo, Goto, PC, tables, session, retry
  <2> QED
    BY <1>3, <2>2, DoAny DEF DoKeysFail, tables, session, retry
<1> QED
  BY <1>1, <1>2, <1>3

-----------------------------------------------------------------------------
(* Save *)

\* Worker w, which is not the cron, inserts the row of its alert.
LEMMA InsertStep ==
  ASSUME IInv, NEW w \in Workers, w # "cron", pc[w] = "save",
         Insert(w),
         UNCHANGED <<active, performed, cur, ok, todo, lookup, target, left, retry>>,
         NEW label \in {"idle", "await"}, Goto(w, label),
         label = "await" => w \in Readers /\ want' = [want EXCEPT ![w] = SeqOf[cur[w]] + 1],
         label = "idle" => want' = want,
         faults' \in 0 .. MaxFaults, refusals' \in 0 .. MaxRefusals
  PROVE  IInv' /\ RowsGrow
<1>1. cur[w] \in Alerts /\ ok[w] \in BOOLEAN /\ SeqOf[cur[w]] \in Nat
  BY AlertNodeAssumption DEF IInv, TypeOK
<1>2. Follows(cur[w]) /\ (ok[w] => cur[w] \in performed)
  BY DEF IInv, Working, WorkerOK
<1>3. /\ rows' \in Seq(Row) /\ RowsGrow
      /\ ProcessedPerformed' /\ GapFree' /\ HasLatest'
      /\ StoredSeqs \subseteq StoredSeqs' /\ SeqOf[cur[w]] \in StoredSeqs'
  <2>1. /\ rows' = Append(rows, [alert |-> cur[w], processed |-> ok[w]])
        /\ performed' = performed
    BY DEF Insert
  <2>2. TypeOK /\ ProcessedPerformed /\ GapFree /\ HasLatest
    BY DEF IInv
  <2> QED
    BY <1>1, <1>2, <2>1, <2>2, AppendRow
<1>4. want' \in [Readers -> Nat]
  <2>1. SeqOf[cur[w]] + 1 \in Nat /\ want \in [Readers -> Nat]
    BY <1>1 DEF IInv, TypeOK
  <2>2. want' = want \/ want' = [want EXCEPT ![w] = SeqOf[cur[w]] + 1]
    OBVIOUS
  <2> QED
    BY <2>1, <2>2
<1>5. TypeOK'
  BY <1>3, <1>4 DEF IInv, TypeOK, Goto, PC, retry
<1>6. pc'[w] = label /\ \A v \in Workers \ {w} : pc'[v] = pc[v]
  BY DEF IInv, TypeOK, Goto
<1>7. \A v \in Workers \ {w} : v \in Readers => want'[v] = want[v]
  BY DEF IInv, TypeOK
<1>8. WorkerOK(w)'
  <2>1. label = "await" => want'[w] = SeqOf[cur[w]] + 1
    BY DEF IInv, TypeOK
  <2>2. \A k \in Nat : (k + 1) - 1 = k
    OBVIOUS
  <2>3. label = "await" => want'[w] - 1 = SeqOf[cur[w]]
    BY <1>1, <2>1, <2>2
  <2>4. label = "await" => want'[w] - 1 \in StoredSeqs'
    BY <1>3, <2>3
  <2> QED
    BY <1>6, <2>4 DEF WorkerOK
<1>9. Working'
  BY <1>3, <1>6, <1>7, <1>8, OthersKept DEF IInv
<1>10. CronRow'
  BY <1>3, <1>6, CronKept, WorkerNames DEF IInv, retry
<1> QED
  BY <1>3, <1>5, <1>9, <1>10 DEF IInv

LEMMA SaveRowStep ==
  ASSUME IInv, NEW w \in Workers \ {"cron"}, SaveRow(w) \/ SaveRowFails(w)
  PROVE  IInv' /\ RowsGrow
<1>1. CASE SaveRow(w)
  <2>1. faults' \in 0 .. MaxFaults /\ refusals' \in 0 .. MaxRefusals
    BY <1>1 DEF IInv, TypeOK, SaveRow, counts
  <2>2. CASE w \in Readers /\ SeqOf[cur[w]] # target[w] /\ ~left[w]
    <3>1. Goto(w, "await") /\ want' = [want EXCEPT ![w] = SeqOf[cur[w]] + 1]
      BY <1>1, <2>2 DEF SaveRow
    <3> QED
      BY <1>1, <2>1, <3>1, InsertStep, WorkerNames DEF SaveRow
  <2>3. CASE ~(w \in Readers /\ SeqOf[cur[w]] # target[w] /\ ~left[w])
    <3>1. Goto(w, "idle") /\ want' = want
      BY <1>1, <2>3 DEF SaveRow, IInv, TypeOK
    <3> QED
      BY <1>1, <2>1, <3>1, InsertStep, WorkerNames DEF SaveRow
  <2> QED
    BY <2>2, <2>3
<1>2. CASE SaveRowFails(w)
  <2>1. TypeOK'
    BY <1>2, FaultType
       DEF IInv, TypeOK, SaveRowFails, Goto, PC, tables, session, retry
  <2>2. WorkerOK(w)'
    BY <1>2, WorkerNames DEF IInv, TypeOK, SaveRowFails, Goto, WorkerOK
  <2>3. /\ rows' = rows /\ performed' = performed /\ ok' = ok /\ cur' = cur
        /\ want' = want /\ queue' = queue /\ row' = row
    BY <1>2 DEF SaveRowFails, tables, session, retry
  <2>4. \A v \in Workers \ {w} : pc'[v] = pc[v]
    BY <1>2 DEF IInv, TypeOK, SaveRowFails, Goto
  <2> QED
    BY <2>1, <2>2, <2>3, <2>4, QuietStep, WorkerNames
<1> QED
  BY <1>1, <1>2

-----------------------------------------------------------------------------
(* The cron *)

LEMMA CronQuietStep ==
  ASSUME IInv, CronStart \/ CronNext \/ CronEnd \/ CronSaveFails
  PROVE  IInv' /\ RowsGrow
<1>1. /\ rows' = rows /\ performed' = performed /\ want' = want /\ ok' = ok
      /\ active' = active /\ todo' = todo /\ lookup' = lookup
      /\ target' = target /\ left' = left
  BY DEF CronStart, CronNext, CronEnd, CronSaveFails, tables, session, retry
<1>2. /\ pc' \in [Workers -> PC] /\ pc'["cron"] \in {"idle", "next", "do"}
      /\ \A v \in Workers \ {"cron"} : pc'[v] = pc[v]
  BY WorkerNames
     DEF IInv, TypeOK, PC, CronStart, CronNext, CronEnd, CronSaveFails, Goto
<1>3. faults' \in 0 .. MaxFaults /\ refusals' \in 0 .. MaxRefusals
  BY FaultType DEF IInv, TypeOK, counts, CronStart, CronNext, CronEnd, CronSaveFails
<1>4. /\ queue' \subseteq DOMAIN rows /\ row' \in Nat
      /\ cur' \in [Workers -> Alerts]
      /\ \A v \in Workers \ {"cron"} : cur'[v] = cur[v]
      /\ pc'["cron"] = "do" => row' \in DOMAIN rows /\ rows[row'].alert = cur'["cron"]
  <2>1. CASE CronNext
    <3>1. PICK i \in queue : /\ row' = i /\ queue' = queue \ {i}
                             /\ cur' = [cur EXCEPT !["cron"] = rows[i].alert]
      BY <2>1 DEF CronNext
    <3>2. i \in DOMAIN rows /\ i \in Nat /\ rows[i].alert \in Alerts
      BY <3>1, Domain DEF IInv, CronRow
    <3> QED
      BY <3>1, <3>2, WorkerNames DEF IInv, TypeOK, CronRow
  <2>2. CASE CronStart
    BY <2>2, WorkerNames DEF CronStart, Unprocessed, IInv, TypeOK, Goto
  <2>3. CASE CronEnd \/ CronSaveFails
    BY <2>3, WorkerNames DEF CronEnd, CronSaveFails, IInv, TypeOK, CronRow, Goto, retry
  <2> QED
    BY <2>1, <2>2, <2>3
<1>5. queue' \in SUBSET Nat
  BY <1>4, Domain DEF IInv
<1>6. TypeOK'
  BY <1>1, <1>2, <1>3, <1>4, <1>5 DEF IInv, TypeOK
<1>7. WorkerOK("cron")'
  BY <1>2, WorkerNames DEF WorkerOK
<1>8. CronRow'
  BY <1>1, <1>2, <1>4 DEF CronRow
<1> QED
  BY <1>1, <1>2, <1>4, <1>6, <1>7, <1>8, QuietStep

LEMMA CronSaveStep ==
  ASSUME IInv, CronSave
  PROVE  IInv' /\ RowsGrow
<1>1. /\ row \in DOMAIN rows /\ rows[row].alert = cur["cron"] /\ ok["cron"]
      /\ cur["cron"] \in performed
  BY WorkerNames DEF IInv, CronRow, Working, WorkerOK, CronSave
<1>2. ok["cron"] = TRUE
  BY <1>1, WorkerNames DEF IInv, TypeOK
<1>3. rows' = [rows EXCEPT ![row].processed = TRUE] /\ performed' = performed
  BY <1>2 DEF CronSave
<1>4. /\ rows' \in Seq(Row) /\ RowsGrow
      /\ ProcessedPerformed' /\ GapFree' /\ HasLatest'
      /\ StoredSeqs' = StoredSeqs
  BY <1>1, <1>3, MarkRow DEF IInv
<1>5. TypeOK'
  BY <1>4 DEF IInv, TypeOK, CronSave, Goto, PC, session, retry, counts
<1>6. pc'["cron"] = "next" /\ \A v \in Workers \ {"cron"} : pc'[v] = pc[v]
  BY WorkerNames DEF IInv, TypeOK, CronSave, Goto
<1>7. WorkerOK("cron")'
  BY <1>6, WorkerNames DEF WorkerOK
<1>8. Working'
  BY <1>4, <1>6, <1>7, OthersKept DEF IInv, CronSave, session
<1>9. CronRow'
  <2>1. DOMAIN rows \subseteq DOMAIN rows'
    BY <1>4, Domain DEF RowsGrow, IInv
  <2> QED
    BY <1>6, <2>1 DEF CronRow, IInv, CronSave, retry
<1> QED
  BY <1>4, <1>5, <1>8, <1>9 DEF IInv

LEMMA CrashStep ==
  ASSUME IInv, Crash
  PROVE  IInv' /\ RowsGrow
<1>1. TypeOK'
  BY FaultType DEF IInv, TypeOK, Crash, PC, tables, session
<1>2. /\ ProcessedPerformed' /\ GapFree' /\ HasLatest'
      /\ StoredSeqs' = StoredSeqs /\ RowsGrow
  BY TableKept DEF IInv, Crash, tables
<1>3. Working'
  BY WorkerNames DEF Crash, Working, WorkerOK
<1>4. CronRow'
  BY WorkerNames DEF Crash, CronRow
<1> QED
  BY <1>1, <1>2, <1>3, <1>4 DEF IInv

-----------------------------------------------------------------------------
(* The specification *)

LEMMA InitIInv == Init => IInv
<1> SUFFICES ASSUME Init PROVE IInv
  OBVIOUS
<1>1. rows = <<[alert |-> Genesis, processed |-> TRUE]>>
  BY DEF Init
<1>2. rows \in Seq(Row) /\ DOMAIN rows = {1} /\ rows[1].alert = Genesis
  BY <1>1, AlertNodeAssumption DEF Row
<1>3. StoredSeqs = {0}
  BY <1>2, AlertNodeAssumption DEF StoredSeqs
<1>4. TypeOK
  BY <1>2, AlertNodeAssumption DEF Init, TypeOK, PC
<1>5. ProcessedPerformed
  BY <1>2 DEF ProcessedPerformed, Init
<1>6. GapFree /\ HasLatest
  BY <1>3 DEF GapFree, HasLatest
<1>7. Working /\ CronRow
  BY WorkerNames DEF Init, Working, WorkerOK, CronRow
<1> QED
  BY <1>4, <1>5, <1>6, <1>7 DEF IInv

LEMMA DoStepIInv ==
  ASSUME IInv, NEW w \in Workers, DoStep(w)
  PROVE  IInv' /\ RowsGrow
  BY DoCallStep, DoKeysStep DEF DoStep

LEMMA NextIInv ==
  ASSUME IInv, [Next]_vars
  PROVE  IInv' /\ RowsGrow
<1>1. ASSUME NEW a \in Alerts, SubReceive(a) PROVE IInv' /\ RowsGrow
  BY <1>1, SubReceiveStep
<1>2. CASE SubStep
  BY <1>2, SubPriorStep, SubDupStep, SubCheckStep, SaveRowStep, DoStepIInv, WorkerNames
     DEF SubStep
<1>3. ASSUME NEW r \in Readers, NEW a \in Alerts, SyncStart(r, SeqOf[a])
      PROVE  IInv' /\ RowsGrow
  <2>1. SeqOf[a] \in Nat
    BY AlertNodeAssumption
  <2> QED
    BY <1>3, <2>1, SyncStartStep
<1>4. ASSUME NEW r \in Readers, SyncStep(r) \/ SyncTimeout(r) PROVE IInv' /\ RowsGrow
  BY <1>4, SyncReceiveStep, SaveRowStep, SyncTimeoutStep, DoStepIInv, WorkerNames
     DEF SyncStep
<1>5. CASE CronStep
  BY <1>5, CronQuietStep, CronSaveStep, DoStepIInv, WorkerNames DEF CronStep
<1>6. CASE Crash
  BY <1>6, CrashStep
<1>7. CASE UNCHANGED vars
  <2>1. UNCHANGED <<rows, active, performed, pc, cur, ok, todo, lookup, want, target,
                    left, queue, row, faults, refusals>>
    BY <1>7 DEF vars, tables, work, session, retry, counts
  <2>2. TypeOK'
    BY <2>1 DEF IInv, TypeOK
  <2>3. WorkerOK("cron")'
    BY <2>1, WorkerNames DEF IInv, Working, WorkerOK
  <2>4. CronRow'
    BY <2>1 DEF IInv, CronRow
  <2> QED
    BY <2>1, <2>2, <2>3, <2>4, QuietStep
<1> QED
  BY <1>1, <1>2, <1>3, <1>4, <1>5, <1>6, <1>7 DEF Next

LEMMA Inductive == Spec => []IInv
<1>1. Init => IInv
  BY InitIInv
<1>2. IInv /\ [Next]_vars => IInv'
  BY NextIInv
<1> QED
  BY <1>1, <1>2, PTL DEF Spec

\* The variables keep their types in every behaviour of a node, whatever the
\* alerts, the sessions and the failures.
THEOREM TypeCorrect == Spec => []TypeOK
<1>1. IInv => TypeOK
  BY DEF IInv
<1> QED
  BY <1>1, Inductive, PTL

\* Whatever goroutine marks a row as processed (Subscribe, a sync session or
\* processAlerts), and wherever the process dies, the alert took effect before.
THEOREM MarkedWasPerformed == Spec => []ProcessedPerformed
<1>1. IInv => ProcessedPerformed
  BY DEF IInv
<1> QED
  BY <1>1, Inductive, PTL

\* The two inserting paths, interleaved with each other and with readers whose
\* session was given up, never store an alert before its predecessor.
THEOREM GapFreeTable == Spec => []GapFree
<1>1. IInv => GapFree
  BY DEF IInv
<1> QED
  BY <1>1, Inductive, PTL

\* No step loses or replaces a row of alert_messages, or takes back the mark
\* of a processed one.
THEOREM RowsAreKept == Spec => RowsKept
<1>1. IInv /\ [Next]_vars => [RowsGrow]_vars
  BY NextIInv
<1>2. [RowsGrow]_vars <=> [/\ Len(rows) <= Len(rows')
                          /\ \A i \in DOMAIN rows :
                               /\ rows'[i].alert = rows[i].alert
                               /\ rows[i].processed => rows'[i].processed]_vars
  BY DEF RowsGrow
<1> QED
  BY <1>1, <1>2, Inductive, PTL DEF Spec, RowsKept
=============================================================================
