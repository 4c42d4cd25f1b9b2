---------------------- MODULE AlertNodeFaultless_proofs ----------------------
(***************************************************************************)
(* Proofs about an AlertNode of which nothing has failed yet, for any      *)
(* alerts and any number of sync sessions: every effect is recorded; and,  *)
(* with the code as it is, every alert is stored once and the keys are     *)
(* those of the latest set-keys alert whenever no goroutine is at work.    *)
(***************************************************************************)
EXTENDS AlertNode_proofs

-----------------------------------------------------------------------------
(* Steps without a fault *)

\* A step either is a fault or leaves the number of faults alone.
LEMMA FaultlessStep ==
  ASSUME IInv, [Next]_vars, faults' = 0
  PROVE  faults = 0 /\ ~Fault
<1>1. faults \in Nat
  BY AlertNodeAssumption DEF IInv, TypeOK
<1>2. ~Fault
  BY <1>1 DEF Fault
<1>3. ASSUME NEW w, DoStep(w) PROVE faults' = faults
  BY <1>2, <1>3 DEF DoStep, DoCall, DoCallFails, DoClear, DoInstall, DoKeysFail, NoFault, counts
<1>4. ASSUME NEW a, SubReceive(a) PROVE faults' = faults
  BY <1>4 DEF SubReceive, counts
<1>5. CASE SubStep
  BY <1>2, <1>3, <1>5 DEF SubStep, SubPrior, SubDup, SubCheck, SaveRow, SaveRowFails, NoFault, counts
<1>6. ASSUME NEW r, NEW k, SyncStart(r, k) PROVE faults' = faults
  BY <1>6 DEF SyncStart, counts
<1>7. ASSUME NEW r, SyncStep(r) \/ SyncTimeout(r) PROVE faults' = faults
  BY <1>2, <1>3, <1>7
     DEF SyncStep, SyncReceive, SaveRow, SaveRowFails, SyncTimeout, NoFault, counts
<1>8. CASE CronStep
  BY <1>2, <1>3, <1>8
     DEF CronStep, CronStart, CronNext, CronEnd, CronSave, CronSaveFails, counts
<1>9. CASE Crash
  BY <1>2, <1>9 DEF Crash
<1>10. ASSUME UNCHANGED vars PROVE faults' = faults
  <2>1. UNCHANGED counts
    BY <1>10 DEF vars
  <2> QED
    BY <2>1 DEF counts
<1>11. faults' = faults
  BY <1>4, <1>5, <1>6, <1>7, <1>8, <1>9, <1>10 DEF Next
<1> QED
  BY <1>2, <1>11

-----------------------------------------------------------------------------
(* Effects are recorded *)

LEMMA StoredStays ==
  ASSUME IInv, IInv', RowsGrow, NEW a, Stored(a)
  PROVE  Stored(a)'
<1>1. DOMAIN rows \subseteq DOMAIN rows'
  BY Domain DEF IInv, TypeOK, RowsGrow
<1> QED
  BY <1>1 DEF Stored, RowsGrow

\* A step of worker w, or of none.
LEMMA EffectsKept ==
  ASSUME IInv, IInv', RowsGrow, EffectsRecorded, faults = 0, NEW w,
         \A v \in Workers \ {w} : pc'[v] = pc[v] /\ cur'[v] = cur[v],
         NEW c, c = cur[w], w \in Workers /\ pc[w] = "save" => Stored(c)',
         \A a \in performed' \ performed :
           Stored(a)' \/ (w \in Workers /\ pc'[w] = "save" /\ cur'[w] = a)
  PROVE  EffectsRecorded'
<1>1. SUFFICES ASSUME NEW a \in performed'
               PROVE  Stored(a)' \/ \E v \in Workers : pc'[v] = "save" /\ cur'[v] = a
  BY DEF EffectsRecorded
<1>2. CASE a \notin performed
  BY <1>2
<1>3. CASE Stored(a)
  BY <1>3, StoredStays
<1>4. ASSUME NEW v \in Workers, pc[v] = "save", cur[v] = a
      PROVE  Stored(a)' \/ \E u \in Workers : pc'[u] = "save" /\ cur'[u] = a
  <2>1. CASE v = w
    BY <1>4, <2>1
  <2>2. CASE v # w
    BY <1>4, <2>2
  <2> QED
    BY <2>1, <2>2
<1> QED
  BY <1>2, <1>3, <1>4 DEF EffectsRecorded

\* The alert of a goroutine that inserts its row is stored.
LEMMA InsertStores ==
  ASSUME IInv, NEW w \in Workers, Insert(w), NEW c, c = cur[w]
  PROVE  Stored(c)'
<1>1. cur[w] \in Alerts /\ ok[w] \in BOOLEAN
  BY DEF IInv, TypeOK
<1>2. [alert |-> cur[w], processed |-> ok[w]] \in Row
  BY <1>1 DEF Row
<1>3. /\ Len(rows) + 1 \in DOMAIN rows'
      /\ rows'[Len(rows) + 1] = [alert |-> cur[w], processed |-> ok[w]]
  BY <1>2 DEF Insert, IInv, TypeOK
<1>4. rows'[Len(rows) + 1].alert = cur[w]
  BY <1>3
<1> QED
  BY <1>3, <1>4 DEF Stored

\* A step of Do: what takes effect is saved next, or is in the row of the cron.
LEMMA EffectsOfDo ==
  ASSUME IInv, IInv', RowsGrow, EffectsRecorded, faults = 0, ~Fault,
         NEW w \in Workers, DoStep(w)
  PROVE  EffectsRecorded'
<1>1. pc[w] \in {"do", "install"} /\ cur' = cur
  BY DEF DoStep, DoCall, DoCallFails, DoClear, DoInstall, DoKeysFail
<1>2. \A v \in Workers \ {w} : pc'[v] = pc[v] /\ cur'[v] = cur[v]
  BY <1>1 DEF IInv, TypeOK, DoStep, DoCall, DoCallFails, DoClear, DoInstall, DoKeysFail, AfterDo, Goto
<1>3. ASSUME NEW a \in performed' \ performed
      PROVE  Stored(a)' \/ (w \in Workers /\ pc'[w] = "save" /\ cur'[w] = a)
  <2>1. a = cur[w] /\ (AfterDo(w, TRUE) \/ AfterDo(w, FALSE))
    BY <1>3 DEF DoStep, DoCall, DoCallFails, DoClear, DoInstall, DoKeysFail
  <2>2. CASE w # "cron"
    <3>1. pc'[w] = "save"
      BY <2>1, <2>2 DEF AfterDo, Goto, IInv, TypeOK
    <3> QED
      BY <1>1, <2>1, <3>1
  <2>3. CASE w = "cron"
    <3>1. Stored(a)
      BY <1>1, <2>1, <2>3 DEF IInv, CronRow, Stored
    <3> QED
      BY <3>1, StoredStays
  <2> QED
    BY <2>2, <2>3
<1>4. pc[w] # "save"
  BY <1>1
<1> QED
  BY <1>2, <1>3, <1>4, EffectsKept

LEMMA EffectsStep ==
  ASSUME IInv, EffectsRecorded, [Next]_vars
  PROVE  EffectsRecorded'
<1>1. IInv' /\ RowsGrow
  BY NextIInv
<1>2. SUFFICES ASSUME faults' = 0 PROVE EffectsRecorded'
  BY DEF EffectsRecorded
<1>3. faults = 0 /\ ~Fault
  BY <1>2, FaultlessStep
<1>4. ASSUME NEW a \in Alerts, SubReceive(a) PROVE EffectsRecorded'
  <2>1. pc["sub"] # "save" /\ performed' = performed
    BY <1>4 DEF SubReceive
  <2>2. \A v \in Workers \ {"sub"} : pc'[v] = pc[v] /\ cur'[v] = cur[v]
    BY <1>4 DEF IInv, TypeOK, SubReceive, Goto
  <2> QED
    BY <1>1, <1>3, <2>1, <2>2, EffectsKept
<1>5. CASE SubPrior \/ SubDup \/ SubCheck
  <2>1. pc["sub"] # "save" /\ performed' = performed
    BY <1>5 DEF SubPrior, SubDup, SubCheck
  <2>2. \A v \in Workers \ {"sub"} : pc'[v] = pc[v] /\ cur'[v] = cur[v]
    BY <1>5 DEF IInv, TypeOK, SubPrior, SubDup, SubCheck, Goto
  <2> QED
    BY <1>1, <1>3, <2>1, <2>2, EffectsKept
<1>6. ASSUME NEW r \in Readers, NEW k \in Nat, SyncStart(r, k) PROVE EffectsRecorded'
  <2>1. pc[r] # "save" /\ performed' = performed
    BY <1>6 DEF SyncStart
  <2>2. \A v \in Workers \ {r} : pc'[v] = pc[v] /\ cur'[v] = cur[v]
    BY <1>6 DEF IInv, TypeOK, SyncStart, Goto
  <2> QED
    BY <1>1, <1>3, <2>1, <2>2, EffectsKept
<1>7. ASSUME NEW r \in Readers, NEW a \in Alerts, SyncReceive(r, a) PROVE EffectsRecorded'
  <2>1. pc[r] # "save" /\ performed' = performed
    BY <1>7 DEF SyncReceive
  <2>2. \A v \in Workers \ {r} : pc'[v] = pc[v] /\ cur'[v] = cur[v]
    BY <1>7 DEF IInv, TypeOK, SyncReceive, Goto
  <2> QED
    BY <1>1, <1>3, <2>1, <2>2, EffectsKept
<1>8. ASSUME NEW w \in Workers \ {"cron"}, SaveRow(w) PROVE EffectsRecorded'
  <2>1. performed' = performed /\ Insert(w)
    BY <1>8 DEF SaveRow
  <2>2. \A v \in Workers \ {w} : pc'[v] = pc[v] /\ cur'[v] = cur[v]
    BY <1>8 DEF IInv, TypeOK, SaveRow, Goto
  <2>3. ASSUME NEW c, c = cur[w] PROVE Stored(c)'
    BY <2>1, <2>3, InsertStores, WorkerNames
  <2> QED
    BY <1>1, <1>3, <2>1, <2>2, <2>3, EffectsKept
<1>9. CASE CronStart \/ CronNext \/ CronEnd
  <2>1. pc["cron"] # "save" /\ performed' = performed
    BY <1>9 DEF CronStart, CronNext, CronEnd
  <2>2. \A v \in Workers \ {"cron"} : pc'[v] = pc[v] /\ cur'[v] = cur[v]
    BY <1>9 DEF IInv, TypeOK, CronStart, CronNext, CronEnd, Goto
  <2> QED
    BY <1>1, <1>3, <2>1, <2>2, EffectsKept
<1>10. CASE CronSave
  <2>1. performed' = performed /\ pc["cron"] = "save"
    BY <1>10 DEF CronSave
  <2>2. \A v \in Workers \ {"cron"} : pc'[v] = pc[v] /\ cur'[v] = cur[v]
    BY <1>10 DEF IInv, TypeOK, CronSave, Goto
  <2>3. Stored(cur["cron"])
    BY <2>1 DEF IInv, CronRow, Stored
  <2>4. ASSUME NEW c, c = cur["cron"] PROVE Stored(c)'
    BY <1>1, <2>3, <2>4, StoredStays
  <2> QED
    BY <1>1, <1>3, <2>1, <2>2, <2>4, EffectsKept
<1>11. CASE UNCHANGED vars
  <2>1. performed' = performed /\ pc' = pc /\ cur' = cur /\ rows' = rows
    BY <1>11 DEF vars, tables, work
  <2> QED
    BY <1>3, <2>1 DEF EffectsRecorded, Stored
<1>12. ASSUME NEW w \in Workers, DoStep(w) PROVE EffectsRecorded'
  BY <1>1, <1>3, <1>12, EffectsOfDo
<1>13. /\ ~\E r \in Readers : SyncTimeout(r)
       /\ ~\E w \in Workers : SaveRowFails(w)
       /\ ~CronSaveFails /\ ~Crash
  BY <1>3 DEF SyncTimeout, SaveRowFails, CronSaveFails, Crash
<1>14. \A a \in Alerts : SeqOf[a] \in Nat
  BY AlertNodeAssumption
<1> QED
  BY <1>4, <1>5, <1>6, <1>7, <1>8, <1>9, <1>10, <1>11, <1>12, <1>13, <1>14, WorkerNames
     DEF Next, SubStep, SyncStep, CronStep

\* As long as nothing has failed but calls of the bitcoin node, which may take
\* effect nevertheless, the effect of an alert is recorded or about to be,
\* whichever goroutine performs it.
THEOREM EffectsAreRecorded == Spec => []EffectsRecorded
<1>1. Init => EffectsRecorded
  BY DEF Init, EffectsRecorded, Stored
<1>2. IInv /\ EffectsRecorded /\ [Next]_vars => EffectsRecorded'
  BY EffectsStep
<1> QED
  BY <1>1, <1>2, Inductive, PTL DEF Spec

-----------------------------------------------------------------------------
(* One goroutine at a time stores *)

\* The error that Subscribe does not test for, as the code has it.
AtCommit == NotFoundErr = "ErrAlertNotFound"

Ahead(k) == \A l \in StoredSeqs : l < k
Busy(r) == pc[r] \in {"do", "install", "save"}

\* Only one reader is at work, on an alert that is newer than all that is stored.
Serial ==
  /\ \A r, s \in Readers : pc[r] # "idle" /\ pc[s] # "idle" => r = s
  /\ \A r \in Readers : left[r] = FALSE
  /\ pc["sub"] \in {"idle", "prior", "dup", "check"}
  /\ lookup # "ErrNoResults"
  /\ \A r \in Readers : pc[r] = "await" => Ahead(want[r])
  /\ \A r \in Readers : Busy(r) => Ahead(SeqOf[cur[r]])
  /\ \A i, j \in DOMAIN rows : SeqOf[rows[i].alert] = SeqOf[rows[j].alert] => i = j

\* A step of reader w, or of none, that does not change the rows.
LEMMA SerialKept ==
  ASSUME Serial, rows' = rows, NEW w,
         \A r \in Readers : left'[r] = FALSE,
         pc'["sub"] \in {"idle", "prior", "dup", "check"}, lookup' # "ErrNoResults",
         \A r \in Readers \ {w} : pc'[r] = pc[r] /\ cur'[r] = cur[r] /\ want'[r] = want[r],
         w \in Readers =>
           /\ pc'[w] # "idle" => \A r \in Readers \ {w} : pc[r] = "idle"
           /\ pc'[w] = "await" => Ahead(want'[w])
           /\ Busy(w)' => Ahead(SeqOf[cur'[w]])
  PROVE  Serial'
<1>1. StoredSeqs' = StoredSeqs
  BY DEF StoredSeqs
<1>2. \A r, s \in Readers : pc'[r] # "idle" /\ pc'[s] # "idle" => r = s
  BY DEF Serial
<1>3. ASSUME NEW r \in Readers PROVE pc'[r] = "await" => Ahead(want[r])'
  BY <1>1 DEF Serial, Ahead
<1>4. ASSUME NEW r \in Readers PROVE Busy(r)' => Ahead(SeqOf[cur[r]])'
  BY <1>1 DEF Serial, Ahead, Busy
<1>5. \A i, j \in DOMAIN rows' : SeqOf[rows'[i].alert] = SeqOf[rows'[j].alert] => i = j
  BY DEF Serial
<1> QED
  BY <1>2, <1>3, <1>4, <1>5 DEF Serial

\* A step of Do, by whichever goroutine
LEMMA SerialDo ==
  ASSUME IInv, Serial, ~Fault, NEW w \in Workers, DoStep(w)
  PROVE  Serial'
<1>1. pc[w] \in {"do", "install"} /\ UNCHANGED <<rows, cur, lookup, want, left>>
  BY DEF DoStep, DoCall, DoCallFails, DoClear, DoInstall, DoKeysFail, tables, session
<1>2. \A v \in Workers \ {w} : pc'[v] = pc[v]
  BY DEF IInv, TypeOK, DoStep, DoCall, DoCallFails, DoClear, DoInstall, DoKeysFail, AfterDo, Goto
<1>3. pc'[w] \in {"install", "save", "next"} /\ (pc'[w] = "next" => w = "cron")
  BY <1>1 DEF IInv, TypeOK, DoStep, DoCall, DoCallFails, DoClear, DoInstall, DoKeysFail, AfterDo, Goto
<1>4. w # "sub"
  BY <1>1 DEF Serial
<1>5. w \in Readers =>
        /\ pc'[w] # "idle" => \A r \in Readers \ {w} : pc[r] = "idle"
        /\ pc'[w] = "await" => Ahead(want'[w])
        /\ Busy(w)' => Ahead(SeqOf[cur'[w]])
  BY <1>1, <1>3 DEF Serial, Busy
<1>6. \A r \in Readers : left'[r] = FALSE
  BY <1>1 DEF Serial
<1>7. pc'["sub"] \in {"idle", "prior", "dup", "check"} /\ lookup' # "ErrNoResults"
  BY <1>1, <1>2, <1>4, WorkerNames DEF Serial
<1>8. \A r \in Readers \ {w} : pc'[r] = pc[r] /\ cur'[r] = cur[r] /\ want'[r] = want[r]
  BY <1>1, <1>2, WorkerNames
<1> QED
  BY <1>1, <1>5, <1>6, <1>7, <1>8, SerialKept

\* A reader stores its alert and goes on to the next.
LEMMA SerialSave ==
  ASSUME IInv, Serial, NEW r \in Readers, SaveRow(r)
  PROVE  Serial'
<1> DEFINE seq == SeqOf[cur[r]]
<1>1. cur[r] \in Alerts /\ ok[r] \in BOOLEAN /\ seq \in Nat
  BY WorkerNames, AlertNodeAssumption DEF IInv, TypeOK
<1>2. [alert |-> cur[r], processed |-> ok[r]] \in Row
  BY <1>1 DEF Row
<1>3. /\ rows \in Seq(Row)
      /\ rows' = Append(rows, [alert |-> cur[r], processed |-> ok[r]])
  BY DEF IInv, TypeOK, SaveRow, Insert
<1>4. /\ DOMAIN rows' = DOMAIN rows \cup {Len(rows) + 1}
      /\ rows'[Len(rows) + 1] = [alert |-> cur[r], processed |-> ok[r]]
      /\ \A i \in DOMAIN rows : rows'[i] = rows[i]
  BY <1>2, <1>3
<1>5. rows'[Len(rows) + 1].alert = cur[r]
  BY <1>4
<1>6. StoredSeqs' = StoredSeqs \cup {seq}
  BY <1>4, <1>5 DEF StoredSeqs
<1>7. Ahead(seq) /\ \A s \in Readers \ {r} : pc[s] = "idle"
  BY DEF Serial, Busy, SaveRow
<1>8. /\ pc'[r] \in {"idle", "await"}
      /\ pc'[r] = "await" => want'[r] = seq + 1
      /\ \A v \in Workers \ {r} : pc'[v] = pc[v]
  BY WorkerNames DEF IInv, TypeOK, SaveRow, Goto
<1> HIDE DEF seq
<1>9. \A l \in StoredSeqs' : l < seq + 1
  BY <1>1, <1>6, <1>7, StoredSeqsNat DEF Ahead, IInv
<1>10. \A s \in Readers : pc'[s] = "await" => Ahead(want[s])'
  BY <1>7, <1>8, <1>9, WorkerNames DEF Ahead
<1>11. \A s \in Readers : ~Busy(s)'
  BY <1>7, <1>8, WorkerNames DEF Busy
<1>12. \A i, j \in DOMAIN rows' : SeqOf[rows'[i].alert] = SeqOf[rows'[j].alert] => i = j
  <2>1. \A i \in DOMAIN rows : SeqOf[rows[i].alert] \in StoredSeqs
    BY DEF StoredSeqs
  <2>2. \A i \in DOMAIN rows : SeqOf[rows'[i].alert] # seq
    BY <1>1, <1>4, <1>7, <2>1, StoredSeqsNat DEF Ahead, IInv
  <2> QED
    BY <1>4, <1>5, <2>2 DEF Serial, seq
<1>13. \A s, u \in Readers : pc'[s] # "idle" /\ pc'[u] # "idle" => s = u
  BY <1>7, <1>8, WorkerNames
<1>14. /\ \A s \in Readers : left'[s] = FALSE
       /\ pc'["sub"] \in {"idle", "prior", "dup", "check"}
       /\ lookup' # "ErrNoResults"
  BY <1>8, WorkerNames DEF Serial, SaveRow
<1> QED
  BY <1>10, <1>11, <1>12, <1>13, <1>14 DEF Serial

\* The cron marks a row.
LEMMA SerialMark ==
  ASSUME IInv, Serial, CronSave
  PROVE  Serial'
<1>1. IInv' /\ row \in DOMAIN rows /\ rows \in Seq(Row) /\ rows[row] \in Row
  BY CronSaveStep, Domain DEF IInv, TypeOK, CronRow, CronSave
<1>2. /\ DOMAIN rows' = DOMAIN rows
      /\ \A i \in DOMAIN rows : rows'[i].alert = rows[i].alert
  BY <1>1 DEF CronSave, Row
<1>3. StoredSeqs' = StoredSeqs
  BY <1>2 DEF StoredSeqs
<1>4. /\ \A v \in Workers \ {"cron"} : pc'[v] = pc[v]
      /\ UNCHANGED <<cur, want, left, lookup>>
  BY DEF IInv, TypeOK, CronSave, Goto, session
<1>5. \A r \in Readers : pc'[r] = pc[r]
  BY <1>4, WorkerNames
<1>6. pc'["sub"] = pc["sub"]
  BY <1>4, WorkerNames
<1> QED
  BY <1>2, <1>3, <1>4, <1>5, <1>6 DEF Serial, Busy, Ahead

LEMMA SerialStep ==
  ASSUME AtCommit, IInv, Serial, [Next]_vars, ~Fault
  PROVE  Serial'
<1>1. ASSUME NEW a \in Alerts, SubReceive(a) PROVE Serial'
  <2>1. /\ UNCHANGED <<rows, lookup, want, left>> /\ pc'["sub"] = "prior"
        /\ \A r \in Readers : pc'[r] = pc[r] /\ cur'[r] = cur[r]
    BY <1>1, WorkerNames DEF IInv, TypeOK, SubReceive, Goto, tables, session
  <2> QED
    BY <2>1, SerialKept, WorkerNames DEF Serial
<1>2. CASE SubPrior \/ SubDup \/ SubCheck
  <2>1. /\ UNCHANGED <<rows, cur, want, left>>
        /\ pc'["sub"] \in {"dup", "check", "idle"}
        /\ \A r \in Readers : pc'[r] = pc[r]
    BY <1>2, WorkerNames
       DEF IInv, TypeOK, Serial, AtCommit, SubPrior, SubDup, SubCheck, Goto, tables, session
  <2>2. lookup' # "ErrNoResults"
    BY <1>2 DEF Serial, AtCommit, SubPrior, SubDup, SubCheck
  <2> QED
    BY <2>1, <2>2, SerialKept, WorkerNames DEF Serial
<1>3. ~SaveRow("sub")
  BY DEF Serial, SaveRow
<1>4. ASSUME NEW r \in Readers, NEW k \in Nat, SyncStart(r, k) PROVE Serial'
  <2>1. Latest \in Nat /\ Ahead(Latest + 1)
    <3>1. PICK l \in StoredSeqs : \A k1 \in StoredSeqs : k1 <= l
      BY DEF IInv, HasLatest
    <3>2. \E k1 \in StoredSeqs : \A l1 \in StoredSeqs : k1 >= l1
      BY <3>1, StoredSeqsNat DEF IInv
    <3>3. Latest \in StoredSeqs /\ \A l1 \in StoredSeqs : Latest >= l1
      BY <3>2 DEF Latest, Max
    <3> QED
      BY <3>3, StoredSeqsNat DEF IInv, Ahead
  <2>2. /\ UNCHANGED <<rows, cur, lookup>> /\ pc'[r] = "await" /\ want'[r] = Latest + 1
        /\ \A s \in Readers \ {r} : pc'[s] = pc[s] /\ want'[s] = want[s]
        /\ pc'["sub"] = pc["sub"]
        /\ left'[r] = FALSE
        /\ \A s \in Readers \ {r} : left'[s] = left[s]
    BY <1>4, WorkerNames DEF IInv, TypeOK, SyncStart, Goto, tables
  <2>3. \A s \in Readers : pc[s] = "idle" /\ left'[s] = FALSE
    BY <1>4, <2>2 DEF Serial, SyncStart
  <2>4. Ahead(want'[r]) /\ ~Busy(r)'
    BY <2>1, <2>2 DEF Busy
  <2>5. pc'["sub"] \in {"idle", "prior", "dup", "check"} /\ lookup' # "ErrNoResults"
    BY <2>2 DEF Serial
  <2> QED
    BY <2>2, <2>3, <2>4, <2>5, SerialKept
<1>5. ASSUME NEW r \in Readers, NEW a \in Alerts, SyncReceive(r, a) PROVE Serial'
  <2>1. /\ UNCHANGED <<rows, lookup, want, left>>
        /\ pc'[r] \in {"do", "idle"} /\ cur'[r] = a
        /\ \A s \in Readers \ {r} : pc'[s] = pc[s] /\ cur'[s] = cur[s]
        /\ pc'["sub"] = pc["sub"]
    BY <1>5, WorkerNames DEF IInv, TypeOK, SyncReceive, Goto, tables, session
  <2>2. Ahead(SeqOf[a]) /\ \A s \in Readers \ {r} : pc[s] = "idle"
    BY <1>5 DEF SyncReceive, Serial
  <2> QED
    BY <2>1, <2>2, SerialKept DEF Serial
<1>6. ASSUME NEW r \in Readers, SaveRow(r) PROVE Serial'
  BY <1>6, SerialSave
<1>7. CASE CronStart \/ CronNext \/ CronEnd
  <2>1. /\ UNCHANGED <<rows, lookup, want, left>>
        /\ \A v \in Workers \ {"cron"} : pc'[v] = pc[v] /\ cur'[v] = cur[v]
    BY <1>7 DEF IInv, TypeOK, CronStart, CronNext, CronEnd, Goto, tables, session
  <2> QED
    BY <2>1, SerialKept, WorkerNames DEF Serial
<1>8. CASE CronSave
  BY <1>8, SerialMark
<1>9. CASE UNCHANGED vars
  <2>1. UNCHANGED <<rows, pc, cur, lookup, want, left>>
    BY <1>9 DEF vars, tables, work, session
  <2> QED
    BY <2>1, SerialKept, WorkerNames DEF Serial
<1>10. ASSUME NEW w \in Workers, DoStep(w) PROVE Serial'
  BY <1>10, SerialDo
<1>11. /\ ~\E r \in Readers : SyncTimeout(r)
       /\ ~\E w \in Workers : SaveRowFails(w)
       /\ ~CronSaveFails /\ ~Crash
  BY DEF SyncTimeout, SaveRowFails, CronSaveFails, Crash
<1>12. \A a \in Alerts : SeqOf[a] \in Nat
  BY AlertNodeAssumption
<1> QED
  BY <1>1, <1>2, <1>3, <1>4, <1>5, <1>6, <1>7, <1>8, <1>9, <1>10, <1>11, <1>12, WorkerNames
     DEF Next, SubStep, SyncStep, CronStep

FaultlessSerial == faults = 0 => Serial

LEMMA InitSerial ==
  ASSUME Init
  PROVE  Serial
<1>1. DOMAIN rows = {1}
  BY DEF Init
<1> QED
  BY <1>1, WorkerNames DEF Init, Serial, Busy

LEMMA InductiveSerial ==
  ASSUME AtCommit
  PROVE  Spec => []FaultlessSerial
<1>1. Init => FaultlessSerial
  BY InitSerial DEF FaultlessSerial
<1>2. IInv /\ FaultlessSerial /\ [Next]_vars => FaultlessSerial'
  BY FaultlessStep, SerialStep DEF FaultlessSerial
<1> QED
  BY <1>1, <1>2, Inductive, PTL DEF Spec

\* As long as nothing has failed, an alert is stored once, although the sync
\* readers insert without looking.
THEOREM StoredOnceAtCommit ==
  ASSUME AtCommit
  PROVE  Spec => []StoredOnce
<1>1. FaultlessSerial => StoredOnce
  BY DEF FaultlessSerial, Serial, StoredOnce
<1> QED
  BY <1>1, InductiveSerial, PTL

-----------------------------------------------------------------------------
(* The keys follow the log *)

\* a is the latest set-keys alert of the table.
Standing(a) ==
  /\ Stored(a) /\ SetKeys(a)
  /\ \A i \in DOMAIN rows : SetKeys(rows[i].alert) => SeqOf[rows[i].alert] <= SeqOf[a]

\* Reader r has begun to replace the keys.
Rekeys(r) == pc[r] \in {"install", "save"} /\ SetKeys(cur[r])

\* Set-keys alerts are never left to the cron; the keys are those of the latest
\* one, or a reader is on the way from them to its own.
Keyed ==
  /\ \E a \in Alerts : Standing(a)
  /\ \A i \in DOMAIN rows : ~rows[i].processed => ~SetKeys(rows[i].alert)
  /\ \A i \in queue : ~SetKeys(rows[i].alert)
  /\ pc["cron"] \in {"do", "install", "save"} => ~SetKeys(cur["cron"])
  /\ pc["cron"] # "install"
  /\ \A r \in Readers : pc[r] = "install" =>
       /\ SetKeys(cur[r])
       /\ todo[r] # {} /\ todo[r] \subseteq KeysOf[cur[r]]
       /\ active = KeysOf[cur[r]] \ todo[r]
  /\ \A r \in Readers : pc[r] = "save" /\ SetKeys(cur[r]) => ok[r] /\ active = KeysOf[cur[r]]
  /\ (\A r \in Readers : ~Rekeys(r)) => \A a \in Alerts : Standing(a) => active = KeysOf[a]

\* A step that changes neither rows nor keys, and begins or ends no change of
\* the keys.
LEMMA KeyedKept ==
  ASSUME IInv, Keyed, rows' = rows, active' = active, todo' = todo,
         \A r \in Readers :
           \/ pc'[r] = pc[r] /\ cur'[r] = cur[r] /\ ok'[r] = ok[r]
           \/ ~Rekeys(r) /\ ~Rekeys(r)' /\ pc'[r] # "install",
         \A i \in queue' : ~SetKeys(rows[i].alert),
         pc'["cron"] \in {"do", "save"} => ~SetKeys(cur'["cron"]),
         pc'["cron"] # "install"
  PROVE  Keyed'
<1>1. \A a : Standing(a)' <=> Standing(a)
  BY DEF Standing, Stored
<1>2. \A r \in Readers : Rekeys(r)' <=> Rekeys(r)
  BY DEF Rekeys
<1>3. ASSUME NEW r \in Readers
      PROVE  /\ pc'[r] = "install" =>
                  /\ SetKeys(cur'[r])
                  /\ todo'[r] # {} /\ todo'[r] \subseteq KeysOf[cur'[r]]
                  /\ active' = KeysOf[cur'[r]] \ todo'[r]
             /\ pc'[r] = "save" /\ SetKeys(cur'[r]) => ok'[r] /\ active' = KeysOf[cur'[r]]
  BY DEF Keyed, Rekeys
<1>4. (\A r \in Readers : ~Rekeys(r)') => \A a \in Alerts : Standing(a)' => active' = KeysOf[a]
  BY <1>1, <1>2 DEF Keyed
<1>5. \E a \in Alerts : Standing(a)'
  BY <1>1 DEF Keyed
<1>6. \A i \in DOMAIN rows' : ~rows'[i].processed => ~SetKeys(rows'[i].alert)
  BY DEF Keyed
<1> QED
  BY <1>3, <1>4, <1>5, <1>6 DEF Keyed

\* Do of a reader or of the cron
LEMMA KeyedDo ==
  ASSUME IInv, UpdateFindsTable, Serial, Keyed, ~Fault, NEW w \in Workers, DoStep(w)
  PROVE  Keyed'
<1>1. pc[w] \in {"do", "install"} /\ UNCHANGED <<rows, cur, queue>>
  BY DEF DoStep, DoCall, DoCallFails, DoClear, DoInstall, DoKeysFail, tables, retry
<1>2. /\ \A v \in Workers \ {w} : pc'[v] = pc[v] /\ ok'[v] = ok[v]
      /\ pc'[w] \in {"install", "save", "next"}
      /\ pc'[w] = "next" => w = "cron"
  BY <1>1 DEF IInv, TypeOK, DoStep, DoCall, DoCallFails, DoClear, DoInstall, DoKeysFail, AfterDo, Goto
<1>3. w # "sub"
  BY <1>1 DEF Serial
<1>4. ~DoKeysFail(w)
  BY DEF DoKeysFail
<1>5. CASE DoCall(w) \/ DoCallFails(w)
  <2>1. ~SetKeys(cur[w]) /\ pc[w] = "do" /\ pc'[w] \in {"save", "next"}
        /\ active' = active /\ todo' = todo
    BY <1>5 DEF IInv, TypeOK, DoCall, DoCallFails, AfterDo, Goto, tables
  <2>2. \A r \in Readers :
           \/ pc'[r] = pc[r] /\ cur'[r] = cur[r] /\ ok'[r] = ok[r]
           \/ ~Rekeys(r) /\ ~Rekeys(r)' /\ pc'[r] # "install"
    BY <1>1, <1>2, <2>1, WorkerNames DEF Rekeys
  <2>3. /\ pc'["cron"] \in {"do", "save"} => ~SetKeys(cur'["cron"])
        /\ pc'["cron"] # "install"
    BY <1>1, <1>2, <2>1, WorkerNames DEF Keyed
  <2>4. \A i \in queue' : ~SetKeys(rows[i].alert)
    BY <1>1 DEF Keyed
  <2> QED
    BY <1>1, <2>1, <2>2, <2>3, <2>4, KeyedKept
<1>6. CASE DoClear(w)
  <2>1. /\ SetKeys(cur[w]) /\ pc[w] = "do" /\ pc'[w] = "install"
        /\ active' = {} /\ todo'[w] = KeysOf[cur[w]] /\ KeysOf[cur[w]] # {}
    BY <1>6 DEF IInv, TypeOK, DoClear, Goto, SetKeys
  <2>2. w \in Readers
    BY <1>3, <2>1 DEF Keyed, Workers
  <2>3. \A r \in Readers \ {w} : pc'[r] = "idle"
    BY <1>1, <1>2, <2>2, WorkerNames DEF Serial
  <2>4. Rekeys(w)'
    BY <1>1, <2>1 DEF Rekeys
  <2>5. pc'["cron"] = pc["cron"]
    BY <1>2, <2>2, WorkerNames
  <2>6. \E a \in Alerts : Standing(a)'
    BY <1>1 DEF Keyed, Standing, Stored
  <2>7. \A r \in Readers : pc'[r] = "install" =>
          /\ SetKeys(cur'[r])
          /\ todo'[r] # {} /\ todo'[r] \subseteq KeysOf[cur'[r]]
          /\ active' = KeysOf[cur'[r]] \ todo'[r]
    BY <1>1, <2>1, <2>3
  <2>8. \A r \in Readers : pc'[r] # "save"
    BY <2>1, <2>3
  <2> QED
    BY <1>1, <2>2, <2>4, <2>5, <2>6, <2>7, <2>8 DEF Keyed
<1>7. ASSUME NEW k \in Keys, DoInstall(w, k) PROVE Keyed'
  <2>1. pc[w] = "install" /\ k \in todo[w]
        /\ active' = active \cup {k} /\ todo'[w] = todo[w] \ {k}
    BY <1>7 DEF IInv, TypeOK, DoInstall
  <2>2. w \in Readers
    BY <1>3, <2>1 DEF Keyed, Workers
  <2>3. \A r \in Readers \ {w} : pc'[r] = "idle"
    BY <1>1, <1>2, <2>1, <2>2, WorkerNames DEF Serial
  <2>4. /\ SetKeys(cur[w]) /\ todo[w] \subseteq KeysOf[cur[w]]
        /\ active = KeysOf[cur[w]] \ todo[w]
    BY <2>1, <2>2 DEF Keyed
  <2>5. active' = KeysOf[cur[w]] \ todo'[w] /\ todo'[w] \subseteq KeysOf[cur[w]]
    BY <2>1, <2>4
  <2>6. \/ todo'[w] # {} /\ pc'[w] = "install"
        \/ todo'[w] = {} /\ pc'[w] = "save" /\ ok'[w]
    <3>1. CASE todo[w] = {k}
      BY <1>7, <2>1, <2>2, <3>1, WorkerNames DEF IInv, TypeOK, DoInstall, AfterDo, Goto
    <3>2. CASE todo[w] # {k}
      BY <1>7, <2>1, <3>2 DEF DoInstall
    <3> QED
      BY <3>1, <3>2
  <2>7. Rekeys(w)'
    BY <1>1, <2>4, <2>6 DEF Rekeys
  <2>8. pc'["cron"] = pc["cron"]
    BY <1>2, <2>2, WorkerNames
  <2>9. \E a \in Alerts : Standing(a)'
    BY <1>1 DEF Keyed, Standing, Stored
  <2>10. \A r \in Readers : pc'[r] = "install" =>
          /\ SetKeys(cur'[r])
          /\ todo'[r] # {} /\ todo'[r] \subseteq KeysOf[cur'[r]]
          /\ active' = KeysOf[cur'[r]] \ todo'[r]
    BY <1>1, <2>3, <2>4, <2>5, <2>6
  <2>11. \A r \in Readers : pc'[r] = "save" => ok'[r] /\ active' = KeysOf[cur'[r]]
    BY <1>1, <2>3, <2>5, <2>6
  <2> QED
    BY <1>1, <2>2, <2>7, <2>8, <2>9, <2>10, <2>11 DEF Keyed
<1> QED
  BY <1>4, <1>5, <1>6, <1>7 DEF DoStep

\* A reader stores its alert.
LEMMA KeyedSave ==
  ASSUME IInv, Serial, Keyed, NEW r \in Readers, SaveRow(r)
  PROVE  Keyed'
<1>1. cur[r] \in Alerts /\ ok[r] \in BOOLEAN
  BY WorkerNames DEF IInv, TypeOK
<1>2. PICK c \in Alerts : c = cur[r]
  BY <1>1
<1>3. [alert |-> c, processed |-> ok[r]] \in Row
  BY <1>1 DEF Row
<1>4. /\ rows \in Seq(Row)
      /\ rows' = Append(rows, [alert |-> c, processed |-> ok[r]])
  BY <1>2 DEF IInv, TypeOK, SaveRow, Insert
<1>5. /\ DOMAIN rows' = DOMAIN rows \cup {Len(rows) + 1}
      /\ rows'[Len(rows) + 1] = [alert |-> c, processed |-> ok[r]]
      /\ \A i \in DOMAIN rows : rows'[i] = rows[i]
  BY <1>3, <1>4
<1>6. rows'[Len(rows) + 1].alert = c /\ rows'[Len(rows) + 1].processed = ok[r]
  BY <1>5
<1>7. \A i \in DOMAIN rows :
        /\ SeqOf[rows[i].alert] \in Nat /\ SeqOf[c] \in Nat
        /\ SeqOf[rows[i].alert] < SeqOf[c]
  <2>1. Ahead(SeqOf[c])
    BY <1>2 DEF Serial, Busy, SaveRow
  <2>2. \A i \in DOMAIN rows : rows[i].alert \in Alerts
    BY Domain DEF IInv
  <2> QED
    BY <1>2, <2>1, <2>2, AlertNodeAssumption DEF Ahead, StoredSeqs
<1>8. /\ pc[r] = "save" /\ pc'[r] \in {"idle", "await"}
      /\ \A v \in Workers \ {r} : pc'[v] = pc[v]
      /\ UNCHANGED <<active, cur, ok, todo, queue>>
  BY WorkerNames DEF IInv, TypeOK, SaveRow, Goto, retry
<1>9. \A s \in Readers \ {r} : pc[s] = "idle"
  BY <1>8 DEF Serial
<1>10. \A s \in Readers : pc'[s] \in {"idle", "await"}
  BY <1>8, <1>9, WorkerNames
<1>11. SetKeys(c) => ok[r] /\ active = KeysOf[c]
  BY <1>2, <1>8 DEF Keyed
<1>12. \A a : Stored(a)' <=> Stored(a) \/ a = c
  BY <1>5, <1>6 DEF Stored
<1>13. ASSUME SetKeys(c)
      PROVE  /\ \E a \in Alerts : Standing(a)'
             /\ \A a \in Alerts : Standing(a)' => active' = KeysOf[a]
  <2>1. \A i \in DOMAIN rows' : SetKeys(rows'[i].alert) => SeqOf[rows'[i].alert] <= SeqOf[c]
    BY <1>2, <1>5, <1>6, <1>7, AlertNodeAssumption
  <2>2. Standing(c)'
    BY <1>12, <1>13, <2>1 DEF Standing
  <2>3. ASSUME NEW a \in Alerts, Standing(a)' PROVE active' = KeysOf[a]
    <3>1. SeqOf[c] <= SeqOf[a]
      BY <1>5, <1>6, <1>13, <2>3 DEF Standing
    <3>2. ~Stored(a)
      BY <1>7, <3>1 DEF Stored
    <3> QED
      BY <1>8, <1>11, <1>12, <1>13, <2>3, <3>2 DEF Standing
  <2> QED
    BY <2>2, <2>3
<1>14. ASSUME ~SetKeys(c)
      PROVE  /\ \E a \in Alerts : Standing(a)'
             /\ \A a \in Alerts : Standing(a)' => active' = KeysOf[a]
  <2>1. \A a : Standing(a)' <=> Standing(a)
    BY <1>5, <1>6, <1>12, <1>14 DEF Standing
  <2>2. \A s \in Readers : ~Rekeys(s)
    BY <1>2, <1>9, <1>14 DEF Rekeys
  <2>3. \A a \in Alerts : Standing(a) => active = KeysOf[a]
    BY <2>2 DEF Keyed
  <2>4. \E a \in Alerts : Standing(a)
    BY DEF Keyed
  <2> QED
    BY <1>8, <2>1, <2>3, <2>4
<1>15. /\ \E a \in Alerts : Standing(a)'
       /\ \A a \in Alerts : Standing(a)' => active' = KeysOf[a]
  <2>1. CASE SetKeys(c)
    BY <2>1, <1>13
  <2>2. CASE ~SetKeys(c)
    BY <2>2, <1>14
  <2> QED
    BY <2>1, <2>2
<1>16. \A i \in DOMAIN rows' : ~rows'[i].processed => ~SetKeys(rows'[i].alert)
  BY <1>5, <1>6, <1>11 DEF Keyed
<1>17. \A i \in queue' : ~SetKeys(rows'[i].alert)
  BY <1>5, <1>8 DEF Keyed, IInv, CronRow
<1>18. pc'["cron"] = pc["cron"]
  BY <1>8, WorkerNames
<1> QED
  BY <1>8, <1>10, <1>15, <1>16, <1>17, <1>18 DEF Keyed

\* The cron marks a row.
LEMMA KeyedMark ==
  ASSUME IInv, Keyed, CronSave
  PROVE  Keyed'
<1>1. /\ row \in DOMAIN rows /\ rows \in Seq(Row) /\ rows[row] \in Row
      /\ rows[row].alert = cur["cron"]
  BY CronSaveStep, Domain DEF IInv, TypeOK, CronRow, CronSave
<1>2. /\ DOMAIN rows' = DOMAIN rows
      /\ \A i \in DOMAIN rows : rows'[i].alert = rows[i].alert
      /\ \A i \in DOMAIN rows \ {row} : rows'[i] = rows[i]
  BY <1>1 DEF CronSave, Row
<1>3. \A a : Standing(a)' <=> Standing(a)
  BY <1>2 DEF Standing, Stored
<1>4. /\ pc["cron"] = "save" /\ pc'["cron"] = "next"
      /\ \A v \in Workers \ {"cron"} : pc'[v] = pc[v]
      /\ UNCHANGED <<active, cur, ok, todo, queue>>
  BY WorkerNames DEF IInv, TypeOK, CronSave, Goto, retry
<1>5. \A r \in Readers : pc'[r] = pc[r]
  BY <1>4, WorkerNames
<1>6. \A i \in DOMAIN rows' : ~rows'[i].processed => ~SetKeys(rows'[i].alert)
  BY <1>1, <1>2, <1>4 DEF Keyed
<1>7. \A i \in queue' : ~SetKeys(rows'[i].alert)
  BY <1>2, <1>4 DEF Keyed, IInv, CronRow
<1>8. \A r \in Readers : Rekeys(r)' <=> Rekeys(r)
  BY <1>4, <1>5 DEF Rekeys
<1> QED
  BY <1>3, <1>4, <1>5, <1>6, <1>7, <1>8 DEF Keyed

LEMMA KeyedStep ==
  ASSUME AtCommit, UpdateFindsTable, IInv, Serial, Keyed, [Next]_vars, ~Fault
  PROVE  Keyed'
<1>1. ASSUME NEW a \in Alerts, SubReceive(a) PROVE Keyed'
  <2>1. /\ UNCHANGED <<rows, active, ok, todo, queue>>
        /\ \A v \in Workers \ {"sub"} : pc'[v] = pc[v] /\ cur'[v] = cur[v]
    BY <1>1 DEF IInv, TypeOK, SubReceive, Goto, tables, retry
  <2> QED
    BY <2>1, KeyedKept, WorkerNames DEF Keyed
<1>2. CASE SubPrior \/ SubDup \/ SubCheck
  <2>1. /\ UNCHANGED <<rows, active, cur, ok, todo, queue>>
        /\ \A v \in Workers \ {"sub"} : pc'[v] = pc[v]
    BY <1>2 DEF IInv, TypeOK, SubPrior, SubDup, SubCheck, Goto, tables, retry
  <2> QED
    BY <2>1, KeyedKept, WorkerNames DEF Keyed
<1>3. ~SaveRow("sub")
  BY DEF Serial, SaveRow
<1>4. ASSUME NEW r \in Readers, NEW k \in Nat, SyncStart(r, k) PROVE Keyed'
  <2>1. /\ UNCHANGED <<rows, active, cur, ok, todo, queue>>
        /\ pc[r] = "idle" /\ pc'[r] = "await"
        /\ \A v \in Workers \ {r} : pc'[v] = pc[v]
    BY <1>4, WorkerNames DEF IInv, TypeOK, SyncStart, Goto, tables, retry
  <2> QED
    BY <2>1, KeyedKept, WorkerNames DEF Keyed, Rekeys
<1>5. ASSUME NEW r \in Readers, NEW a \in Alerts, SyncReceive(r, a) PROVE Keyed'
  <2>1. /\ UNCHANGED <<rows, active, ok, todo, queue>>
        /\ pc[r] = "await" /\ pc'[r] \in {"do", "idle"}
        /\ \A v \in Workers \ {r} : pc'[v] = pc[v] /\ cur'[v] = cur[v]
    BY <1>5, WorkerNames DEF IInv, TypeOK, SyncReceive, Goto, tables, retry
  <2> QED
    BY <2>1, KeyedKept, WorkerNames DEF Keyed, Rekeys
<1>6. ASSUME NEW r \in Readers, SaveRow(r) PROVE Keyed'
  BY <1>6, KeyedSave
<1>7. CASE CronStart \/ CronNext \/ CronEnd
  <2>1. /\ UNCHANGED <<rows, active, ok, todo>>
        /\ \A v \in Workers \ {"cron"} : pc'[v] = pc[v] /\ cur'[v] = cur[v]
        /\ pc'["cron"] \in {"next", "do", "idle"}
    BY <1>7, WorkerNames DEF IInv, TypeOK, CronStart, CronNext, CronEnd, Goto, tables
  <2>2. \A i \in queue' : ~SetKeys(rows[i].alert)
    BY <1>7 DEF Keyed, CronStart, CronNext, CronEnd, Unprocessed, retry
  <2>3. pc'["cron"] = "do" => ~SetKeys(cur'["cron"])
    BY <1>7, WorkerNames
       DEF Keyed, IInv, TypeOK, CronStart, CronNext, CronEnd, Goto
  <2>4. \A r \in Readers : pc'[r] = pc[r] /\ cur'[r] = cur[r] /\ ok'[r] = ok[r]
    BY <2>1, WorkerNames
  <2> QED
    BY <2>1, <2>2, <2>3, <2>4, KeyedKept
<1>8. CASE CronSave
  BY <1>8, KeyedMark
<1>9. CASE UNCHANGED vars
  <2>1. UNCHANGED <<rows, active, pc, cur, ok, todo, queue>>
    BY <1>9 DEF vars, tables, work, retry
  <2> QED
    BY <2>1, KeyedKept DEF Keyed
<1>10. ASSUME NEW w \in Workers, DoStep(w) PROVE Keyed'
  BY <1>10, KeyedDo
<1>11. /\ ~\E r \in Readers : SyncTimeout(r)
       /\ ~\E w \in Workers : SaveRowFails(w)
       /\ ~CronSaveFails /\ ~Crash
  BY DEF SyncTimeout, SaveRowFails, CronSaveFails, Crash
<1>12. \A a \in Alerts : SeqOf[a] \in Nat
  BY AlertNodeAssumption
<1> QED
  BY <1>1, <1>2, <1>3, <1>4, <1>5, <1>6, <1>7, <1>8, <1>9, <1>10, <1>11, <1>12, WorkerNames
     DEF Next, SubStep, SyncStep, CronStep

FaultlessKeyed == faults = 0 => Keyed

LEMMA InitKeyed ==
  ASSUME SetKeys(Genesis), Init
  PROVE  Keyed
<1>1. DOMAIN rows = {1} /\ rows[1].alert = Genesis /\ rows[1].processed
  BY DEF Init
<1>2. \A a \in Alerts : Standing(a) <=> a = Genesis
  BY <1>1, AlertNodeAssumption DEF Standing, Stored
<1> QED
  BY <1>1, <1>2, WorkerNames, AlertNodeAssumption DEF Init, Keyed

LEMMA InductiveKeyed ==
  ASSUME AtCommit, UpdateFindsTable, SetKeys(Genesis)
  PROVE  Spec => []FaultlessKeyed
<1>1. Init => FaultlessKeyed
  BY InitKeyed DEF FaultlessKeyed
<1>2. IInv /\ FaultlessSerial /\ FaultlessKeyed /\ [Next]_vars => FaultlessKeyed'
  BY FaultlessStep, KeyedStep DEF FaultlessSerial, FaultlessKeyed
<1> QED
  BY <1>1, <1>2, Inductive, InductiveSerial, PTL DEF Spec

\* As long as nothing has failed but calls of the bitcoin node, the keys are
\* those of the latest set-keys alert of the table whenever no goroutine is at
\* work: no set-keys alert is left to the cron, which would install old keys
\* over newer ones.
THEOREM KeysFollowLogAtCommit ==
  ASSUME AtCommit, UpdateFindsTable, SetKeys(Genesis)
  PROVE  Spec => []KeysFollowLog
<1>1. IInv /\ FaultlessKeyed => KeysFollowLog
  <2> SUFFICES ASSUME IInv, Keyed, Quiet PROVE active = KeysOf[LatestSetKeys]
    BY DEF FaultlessKeyed, KeysFollowLog
  <2>1. PICK a \in Alerts : Standing(a)
    BY DEF Keyed
  <2>2. \E b \in {rows[i].alert : i \in DOMAIN rows} :
          /\ SetKeys(b)
          /\ \A i \in DOMAIN rows : SetKeys(rows[i].alert) => SeqOf[rows[i].alert] <= SeqOf[b]
    BY <2>1 DEF Standing, Stored
  <2>3. /\ LatestSetKeys \in {rows[i].alert : i \in DOMAIN rows}
        /\ SetKeys(LatestSetKeys)
        /\ \A i \in DOMAIN rows :
             SetKeys(rows[i].alert) => SeqOf[rows[i].alert] <= SeqOf[LatestSetKeys]
    BY <2>2 DEF LatestSetKeys
  <2>4. LatestSetKeys \in Alerts /\ Standing(LatestSetKeys)
    BY <2>3, Domain DEF IInv, Standing, Stored
  <2>5. \A r \in Readers : ~Rekeys(r)
    BY DEF Quiet, Rekeys, Workers
  <2> QED
    BY <2>4, <2>5 DEF Keyed
<1> QED
  BY <1>1, Inductive, InductiveKeyed, PTL
=============================================================================
