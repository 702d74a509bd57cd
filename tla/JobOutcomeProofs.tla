-------------------------- MODULE JobOutcomeProofs --------------------------
(***************************************************************************)
(* What the statuses and rows JobExecutor writes may say, for all jobs,    *)
(* devices, handlers, pool and queue sizes and any number of database      *)
(* faults and restarts; and that JobExecutor implements JobLifecycle.      *)
(***************************************************************************)
EXTENDS JobExecutorProofs

-----------------------------------------------------------------------------
(* Device lists                                                            *)

\* Entries of a device list are numbered from 1 to its length.
LEMMA EntryNumbers ==
  ASSUME NEW j \in Jobs
  PROVE  /\ DeviceList[j] \in Seq(Devices) /\ Len(DeviceList[j]) \in Nat
         /\ Entries(j) = 1..Len(DeviceList[j])
         /\ \A i \in Entries(j) : i \in Nat /\ i >= 1 /\ DeviceList[j][i] \in Devices
<1>1. DeviceList[j] \in Seq(Devices)
  BY ExecutorAssumption DEF ExecutorAssumption
<1>2. Len(DeviceList[j]) \in Nat /\ DOMAIN DeviceList[j] = 1..Len(DeviceList[j])
  BY <1>1
<1> QED BY <1>1, <1>2 DEF Entries

-----------------------------------------------------------------------------
(* Frames: a thread and its workers touch their own job only               *)

\* A step that does not concern job k.
Untouched(k) ==
  /\ status'[k] = status[k] /\ rows'[k] = rows[k] /\ event'[k] = event[k]
  /\ pc'[k] = pc[k] /\ at'[k] = at[k] /\ fut'[k] = fut[k] /\ stored'[k] = stored[k]

\* A database call, raising or not, never lowers the count of faults.
LEMMA FaultsGrow ==
  TypeOK /\ (DbOk \/ DbFault) => faults' \in Nat /\ faults' >= faults /\ UNCHANGED crashes
BY ExecutorAssumption DEF TypeOK, DbOk, DbFault, bounds

\* A job's thread and workers leave the other jobs alone.
LEMMA ThreadFrame ==
  ASSUME TypeOK, NEW j \in Jobs, Thread(j) \/ Worker(j)
  PROVE  /\ \A k \in Jobs \ {j} : Untouched(k)
         /\ faults' \in Nat /\ faults' >= faults /\ UNCHANGED crashes
<1> USE DEF TypeOK, Untouched, Goto, database, registry, pool
<1>1. UNCHANGED bounds => faults' \in Nat /\ faults' >= faults /\ UNCHANGED crashes
  BY ExecutorAssumption DEF bounds
<1>2. DbOk => UNCHANGED bounds
  BY DEF DbOk
<1>3. CASE Acquire(j) \/ AcquireTimeout(j)
  BY <1>1, <1>3 DEF Acquire, AcquireTimeout
<1>4. CASE QueueFull(j)
  BY <1>4, FaultsGrow DEF QueueFull
<1>5. CASE CheckCancelled(j) \/ CheckFinal(j)
  BY <1>1, <1>5 DEF CheckCancelled, CheckFinal
<1>6. ASSUME NEW from, NEW s, NEW to, Mark(j, from, s, to)
      PROVE  /\ \A k \in Jobs \ {j} : Untouched(k)
             /\ faults' \in Nat /\ faults' >= faults /\ UNCHANGED crashes
  BY <1>6, FaultsGrow DEF Mark
<1>7. CASE MarkRunning(j) \/ MarkCancelled(j) \/ MarkComplete(j)
  BY <1>6, <1>7 DEF MarkRunning, MarkCancelled, MarkComplete
<1>8. CASE SubmitNext(j) \/ SubmitEnd(j)
  BY <1>1, <1>8 DEF SubmitNext, SubmitEnd
<1>9. ASSUME NEW i \in Entries(j), Yield(j, i)
      PROVE  /\ \A k \in Jobs \ {j} : Untouched(k)
             /\ faults' \in Nat /\ faults' >= faults /\ UNCHANGED crashes
  BY <1>1, <1>9 DEF Yield
<1>10. CASE Withdraw(j)
  BY <1>1, <1>10 DEF Withdraw
<1>11. CASE StoreResult(j)
  <2>1. \A k \in Jobs \ {j} : rows'[k] = rows[k]
    BY <1>11 DEF StoreResult
  <2>2. \A k \in Jobs \ {j} : pc'[k] = pc[k] /\ stored'[k] = stored[k]
    BY <1>11 DEF StoreResult
  <2> QED BY <1>11, <2>1, <2>2, FaultsGrow DEF StoreResult
<1>12. CASE ResultRaises(j) \/ CollectEnd(j) \/ Drained(j)
  BY <1>1, <1>12 DEF ResultRaises, CollectEnd, Drained
<1>13. CASE ReadBack(j) \/ MarkFailed(j)
  BY <1>13, FaultsGrow DEF ReadBack, MarkFailed
<1>14. CASE Release(j) \/ CleanUp(j)
  BY <1>1, <1>14 DEF Release, CleanUp
<1>15. CASE Worker(j)
  BY <1>1, <1>15 DEF Worker, WorkerTake, WorkerFinish
<1> QED BY <1>3, <1>4, <1>5, <1>7, <1>8, <1>9, <1>10, <1>11, <1>12, <1>13, <1>14, <1>15
     DEF Thread

\* What is known of a job stays true while nothing touches it.
LEMMA UntouchedKeeps ==
  ASSUME TypeOK, NEW k \in Jobs, JobInv(k), Untouched(k),
         faults' \in Nat, faults' >= faults
  PROVE  JobInv(k)'
<1> USE DEF Untouched
<1>1. Path(k)'
  BY ExecutorAssumption DEF JobInv, Path, TypeOK
<1>2. Submissions(k)'
  BY DEF JobInv, Submissions, Entries
<1>3. Told(k)'
  BY DEF JobInv, Told, Entries
<1>4. WithdrawnAll(k)'
  BY DEF JobInv, WithdrawnAll, Entries
<1>5. StatusIsTrue(k)'
  BY DEF JobInv, StatusIsTrue, Sessions, Entries
<1> QED BY <1>1, <1>2, <1>3, <1>4, <1>5 DEF JobInv

-----------------------------------------------------------------------------
(* Where a thread is and the status it finds there                         *)

\* A thread comes to a status update with the status it expects: active, but
\* for the except clause after a fault.
LEMMA ThreadPath ==
  ASSUME TypeOK, Lifeline, NEW j \in Jobs, Path(j), Thread(j)
  PROVE  Path(j)'
<1> USE DEF Path, TypeOK, Goto, database, registry, pool
<1> DEFINE Marking == {"final", "markcomplete", "markcancelled", "report", "except"}
<1>1. pc'[j] \notin Marking => Path(j)'
  OBVIOUS
<1>2. CASE Acquire(j) \/ AcquireTimeout(j) \/ QueueFull(j) \/ Release(j) \/ CleanUp(j)
  BY <1>1, <1>2 DEF Acquire, AcquireTimeout, QueueFull, Release, CleanUp
<1>3. CASE SubmitNext(j) \/ SubmitEnd(j) \/ StoreResult(j) \/ ResultRaises(j) \/ MarkFailed(j)
  BY <1>1, <1>3 DEF SubmitNext, SubmitEnd, StoreResult, ResultRaises, MarkFailed
<1>4. CASE Withdraw(j) \/ \E i \in Entries(j) : Yield(j, i)
  BY <1>1, <1>4 DEF Withdraw, Yield
<1>5. CASE CheckCancelled(j)
  BY <1>5 DEF CheckCancelled, Lifeline, Early, Active
<1>6. CASE CollectEnd(j) \/ Drained(j)
  BY <1>6 DEF CollectEnd, Drained, Lifeline, InPool, Active
<1>7. CASE CheckFinal(j)
  BY <1>7 DEF CheckFinal, Active
<1>8. DbFault => faults' > 0
  BY ExecutorAssumption DEF DbFault
<1>9. CASE ReadBack(j)
  BY <1>8, <1>9 DEF ReadBack
<1>10. CASE MarkRunning(j) \/ MarkCancelled(j)
  BY <1>8, <1>10 DEF MarkRunning, MarkCancelled, Mark
<1>11. CASE MarkComplete(j)
  BY <1>8, <1>11, VerdictIsTerminal DEF MarkComplete, Mark
<1> QED BY <1>2, <1>3, <1>4, <1>5, <1>6, <1>7, <1>9, <1>10, <1>11 DEF Thread

-----------------------------------------------------------------------------
(* Which devices have been submitted and which stored                      *)

\* A thread moves on and leaves futures, event and results as they are.
LEMMA SubmissionsMove ==
  ASSUME TypeOK, NEW j \in Jobs, Submissions(j), NEW from, NEW to,
         Goto(j, from, to), UNCHANGED <<fut, stored>>,
         event'[j] = event[j], at'[j] = at[j] \/ to \in {"withdraw", "result"},
         to \in Early \cup {"none"} => from \in Early \cup {"none"},
         to # "submit",
         to \in (InPool \ {"submit"}) \cup {"final"}
           => \/ from \in (InPool \ {"submit"})
              \/ event[j] = "set" \/ \A i \in Entries(j) : fut[j][i] # "idle",
         to = "markcomplete" => \A i \in Entries(j) : fut[j][i] # "idle",
         to \in {"final", "markcomplete", "markcancelled"} =>
           \A i \in Entries(j) : fut[j][i] = "idle" \/ i \in stored[j]
  PROVE  Submissions(j)'
BY DEF Submissions, TypeOK, Goto, Entries, Early, InPool

\* The submission loop makes a prefix of the list pending; a thread leaves the
\* collection loop when everything submitted is stored.
LEMMA ThreadSubmissions ==
  ASSUME TypeOK, Futures, NEW j \in Jobs, Submissions(j), Thread(j)
  PROVE  Submissions(j)'
<1> USE SubmissionsMove DEF database, registry, pool, Early, InPool
<1>1. CASE Acquire(j) \/ AcquireTimeout(j)
  BY <1>1 DEF Acquire, AcquireTimeout
<1>2. CASE QueueFull(j)
  BY <1>2 DEF QueueFull
<1>3. CASE CheckCancelled(j)
  <2>1. PICK to \in {"markcancelled", "markrunning"} : Goto(j, "check", to)
    BY <1>3 DEF CheckCancelled
  <2>2. \A i \in Entries(j) : fut[j][i] = "idle"
    BY <2>1 DEF Submissions, Goto
  <2> QED BY <1>3, <2>1, <2>2 DEF CheckCancelled
<1>4. CASE MarkRunning(j)
  <2>1. at[j] = 1 /\ \A i \in Entries(j) : fut[j][i] = "idle"
    BY <1>4 DEF MarkRunning, Mark, Goto, Submissions
  <2>2. CASE Goto(j, "markrunning", "submit")
    <3>1. \A i \in Entries(j) : i >= 1
      BY EntryNumbers
    <3>2. pc'[j] = "submit" /\ UNCHANGED <<at, fut>>
      BY <1>4, <2>2 DEF MarkRunning, Mark, Goto, TypeOK
    <3> QED BY <2>1, <3>1, <3>2 DEF Submissions, Entries
  <2>3. CASE Goto(j, "markrunning", "except")
    BY <1>4, <2>3 DEF MarkRunning, Mark
  <2> QED BY <1>4, <2>2, <2>3 DEF MarkRunning, Mark
<1>5. CASE MarkCancelled(j) \/ MarkComplete(j)
  BY <1>5 DEF MarkCancelled, MarkComplete, Mark
<1>6. CASE SubmitNext(j)
  <2>1. pc'[j] = "submit" /\ at'[j] = at[j] + 1 /\ fut'[j] = [fut[j] EXCEPT ![at[j]] = "pending"]
    BY <1>6 DEF SubmitNext, Goto, TypeOK
  <2>2. pc[j] = "submit" /\ at[j] \in Nat /\ \A i \in Entries(j) : i \in Nat
    BY <1>6, EntryNumbers DEF SubmitNext, Goto, TypeOK
  <2>3. \A i \in Entries(j) : fut'[j][i] = IF i = at[j] THEN "pending" ELSE fut[j][i]
    BY <2>1 DEF TypeOK
  <2>4. /\ at'[j] >= 1
        /\ \A i \in Entries(j) : /\ fut'[j][i] = "idle" <=> i >= at'[j]
                                 /\ fut'[j][i] \notin {"cancelled", "notified"}
    BY <2>1, <2>2, <2>3 DEF Submissions
  <2> QED BY <2>1, <2>4 DEF Submissions, Entries
<1>7. CASE SubmitEnd(j)
  <2>1. pc[j] = "submit" /\ at[j] \in Nat /\ at[j] >= 1
    BY <1>7 DEF SubmitEnd, Goto, TypeOK, Submissions
  <2>2. CASE at[j] \notin Entries(j)
    <3>1. \A i \in Entries(j) : i \in Nat /\ ~(i >= at[j])
      BY <2>1, <2>2, EntryNumbers
    <3>2. \A i \in Entries(j) : fut[j][i] # "idle"
      BY <2>1, <3>1 DEF Submissions
    <3> QED BY <1>7, <3>2 DEF SubmitEnd
  <2> QED BY <1>7, <2>2 DEF SubmitEnd
<1>8. ASSUME NEW i \in Entries(j), Yield(j, i) PROVE Submissions(j)'
  <2>1. PICK to \in {"withdraw", "result"} : Goto(j, "collect", to)
    BY <1>8 DEF Yield
  <2> QED BY <1>8, <2>1 DEF Yield
<1>9. CASE Withdraw(j)
  <2>1. CASE UNCHANGED fut
    <3>1. PICK to \in {"withdraw", "result"} : Goto(j, "withdraw", to)
      BY <1>9 DEF Withdraw
    <3> QED BY <1>9, <2>1, <3>1 DEF Withdraw
  <2>2. ASSUME NEW i \in Entries(j), FirstIn(j, {"pending"}, i), Goto(j, "withdraw", "withdraw"),
               fut' = [fut EXCEPT ![j][i] = "cancelled"]
        PROVE  Submissions(j)'
    <3>1. pc[j] = "withdraw" /\ pc'[j] = "withdraw"
      BY <2>2 DEF Goto, TypeOK
    <3>2. \A k \in Entries(j) : fut[j][k] # "idle" => fut'[j][k] # "idle"
      BY <2>2 DEF TypeOK
    <3> QED BY <1>9, <3>1, <3>2 DEF Submissions, Entries, Withdraw
  <2> QED BY <1>9, <2>1, <2>2 DEF Withdraw
<1>10. CASE StoreResult(j)
  <2>1. PICK to \in {"collect", "drain"} : Goto(j, "result", to)
    BY <1>10 DEF StoreResult
  <2>2. pc[j] = "result" /\ pc'[j] = to
    BY <2>1 DEF Goto, TypeOK
  <2> QED BY <1>10, <2>2 DEF Submissions, Entries, StoreResult
<1>11. CASE ResultRaises(j)
  BY <1>11 DEF ResultRaises
<1>12. CASE CollectEnd(j)
  BY <1>12 DEF CollectEnd
<1>13. CASE Drained(j)
  BY <1>13 DEF Drained
<1>14. CASE CheckFinal(j)
  <2>1. /\ \A i \in Entries(j) : fut[j][i] = "idle" \/ i \in stored[j]
        /\ event[j] = "set" \/ \A i \in Entries(j) : fut[j][i] # "idle"
    BY <1>14 DEF CheckFinal, Goto, Submissions
  <2>2. CASE Goto(j, "final", "markcancelled")
    BY <1>14, <2>1, <2>2 DEF CheckFinal
  <2>3. CASE Goto(j, "final", "markcomplete") /\ event[j] # "set"
    BY <1>14, <2>1, <2>3 DEF CheckFinal
  <2> QED BY <1>14, <2>2, <2>3 DEF CheckFinal
<1>15. CASE ReadBack(j) \/ MarkFailed(j)
  BY <1>15 DEF ReadBack, MarkFailed
<1>16. CASE Release(j)
  BY <1>16 DEF Release
<1>17. CASE CleanUp(j)
  <2>1. pc'[j] = "done"
    BY <1>17 DEF CleanUp, Goto, TypeOK
  <2> QED BY <2>1 DEF Submissions
<1> QED BY <1>1, <1>2, <1>3, <1>4, <1>5, <1>6, <1>7, <1>8, <1>9, <1>10, <1>11, <1>12,
           <1>13, <1>14, <1>15, <1>16, <1>17 DEF Thread

-----------------------------------------------------------------------------
(* Rows, withdrawals and final statuses                                    *)

\* The steps of a thread that leave futures, rows and stored results alone.
Quiet(j) ==
  \/ Acquire(j) \/ AcquireTimeout(j) \/ QueueFull(j) \/ CheckCancelled(j)
  \/ MarkRunning(j) \/ SubmitEnd(j) \/ ResultRaises(j) \/ CollectEnd(j) \/ Drained(j)
  \/ CheckFinal(j) \/ MarkCancelled(j) \/ MarkComplete(j) \/ ReadBack(j)
  \/ MarkFailed(j) \/ Release(j) \/ CleanUp(j)
  \/ \E i \in Entries(j) : Yield(j, i)

\* They do.
LEMMA QuietSteps ==
  ASSUME NEW j \in Jobs
  PROVE  /\ Quiet(j) => UNCHANGED <<rows, fut, stored>>
         /\ Thread(j) => Quiet(j) \/ SubmitNext(j) \/ Withdraw(j) \/ StoreResult(j)
<1>1. Thread(j) => Quiet(j) \/ SubmitNext(j) \/ Withdraw(j) \/ StoreResult(j)
  BY DEF Thread, Quiet
<1>2. Quiet(j) => UNCHANGED <<rows, fut, stored>>
  BY DEF Quiet, Acquire, AcquireTimeout, QueueFull, CheckCancelled, MarkRunning, SubmitEnd, Yield,
         ResultRaises, CollectEnd, Drained, CheckFinal, MarkCancelled, MarkComplete, Mark,
         ReadBack, MarkFailed, Release, CleanUp, database, pool
<1> QED BY <1>1, <1>2

\* Futures with a result keep it while their job's thread or workers run.
LEMMA OutcomesKept ==
  ASSUME TypeOK, NEW j \in Jobs, Submissions(j), Thread(j) \/ Worker(j)
  PROVE  \A i \in Entries(j) : fut[j][i] \in Outcome => fut'[j][i] = fut[j][i]
<1>1. CASE SubmitNext(j)
  <2>1. at[j] \in Entries(j) /\ fut[j][at[j]] = "idle"
    BY <1>1, EntryNumbers DEF SubmitNext, Goto, Submissions
  <2> QED BY <1>1, <2>1 DEF SubmitNext, TypeOK, Outcome
<1>2. CASE Withdraw(j)
  BY <1>2 DEF Withdraw, FirstIn, TypeOK, Outcome
<1>3. CASE StoreResult(j)
  BY <1>3 DEF StoreResult
<1>4. CASE Worker(j)
  BY <1>4 DEF Worker, WorkerTake, WorkerFinish, FirstIn, Queued, TypeOK, Outcome
<1> QED BY <1>1, <1>2, <1>3, <1>4, QuietSteps

\* A row is written with the result of a session with its host.
LEMMA ThreadTold ==
  ASSUME TypeOK, Futures, NEW j \in Jobs, Submissions(j), Told(j), Thread(j) \/ Worker(j)
  PROVE  Told(j)'
<1>1. \A d \in Devices : rows[j][d] \in Outcome \cup {"none"}
  BY DEF TypeOK, Row
<1>2. ASSUME UNCHANGED <<rows, stored>> PROVE Told(j)'
  BY <1>1, <1>2, OutcomesKept DEF Told, Entries
<1>3. CASE StoreResult(j)
  <2> DEFINE i == at[j]
             e == DeviceList[j][i]
  <2>1. i \in Entries(j) /\ e \in Devices /\ fut[j][i] \in Outcome /\ UNCHANGED fut
    BY <1>3, EntryNumbers DEF StoreResult, Futures
  <2>2. stored'[j] \subseteq stored[j] \cup {i}
    BY <1>3 DEF StoreResult, TypeOK
  <2>3. CASE UNCHANGED rows /\ UNCHANGED stored
    BY <1>2, <2>3
  <2>4. CASE rows' = [rows EXCEPT ![j][e] = fut[j][i]]
    <3>1. \A d \in Devices : rows'[j][d] = IF d = e THEN fut[j][i] ELSE rows[j][d]
      BY <2>1, <2>4 DEF TypeOK
    <3>2. \A d \in Devices : rows'[j][d] # "none" =>
            \E k \in Entries(j) : DeviceList[j][k] = d /\ fut[j][k] = rows'[j][d]
      BY <2>1, <3>1 DEF Told
    <3>3. \A k \in stored'[j] : k \in Entries(j) /\ DeviceList[j][k] \in Devices
      BY <2>1, <2>2, EntryNumbers DEF TypeOK
    <3>4. \A k \in stored'[j] : rows'[j][DeviceList[j][k]] # "none"
      BY <2>1, <2>2, <3>1, <3>3 DEF Told, Outcome
    <3> QED BY <2>1, <3>2, <3>4 DEF Told, Entries
  <2> QED BY <1>3, <2>3, <2>4 DEF StoreResult
<1>4. CASE SubmitNext(j) \/ Withdraw(j)
  BY <1>2, <1>4 DEF SubmitNext, Withdraw, database
<1>5. CASE Worker(j)
  BY <1>2, <1>5 DEF Worker, WorkerTake, WorkerFinish, database
<1> QED BY <1>2, <1>3, <1>4, <1>5, QuietSteps

\* The thread comes to the next result only when it has withdrawn them all.
LEMMA ThreadWithdrawn ==
  ASSUME TypeOK, NEW j \in Jobs, Submissions(j), WithdrawnAll(j), Thread(j)
  PROVE  WithdrawnAll(j)'
<1> USE DEF TypeOK, Goto
<1>1. pc'[j] \notin {"result", "collect", "drain"} => WithdrawnAll(j)'
  BY DEF WithdrawnAll
<1>2. ASSUME pc[j] \in {"result", "collect", "drain"}, UNCHANGED fut
      PROVE  WithdrawnAll(j)'
  BY <1>2 DEF WithdrawnAll, Entries
<1>3. CASE SubmitEnd(j)
  <2>1. UNCHANGED fut /\ pc[j] = "submit"
    BY <1>3 DEF SubmitEnd, pool
  <2> QED BY <2>1 DEF WithdrawnAll, Submissions, Entries
<1>4. CASE Withdraw(j)
  <2>1. CASE pc'[j] = "result"
    <3>1. UNCHANGED fut /\ \A i \in Entries(j) : fut[j][i] # "pending"
      BY <1>4, <2>1 DEF Withdraw
    <3> QED BY <3>1 DEF WithdrawnAll, Entries
  <2> QED BY <1>1, <1>4, <2>1 DEF Withdraw
<1>5. CASE StoreResult(j) \/ ResultRaises(j) \/ CollectEnd(j) \/ Drained(j)
  BY <1>2, <1>5 DEF StoreResult, ResultRaises, CollectEnd, Drained, pool
<1>6. CASE \E i \in Entries(j) : Yield(j, i)
  BY <1>2, <1>6 DEF Yield
<1>7. CASE Acquire(j) \/ AcquireTimeout(j) \/ QueueFull(j) \/ CheckCancelled(j) \/ SubmitNext(j)
  BY <1>1, <1>7 DEF Acquire, AcquireTimeout, QueueFull, CheckCancelled, SubmitNext
<1>8. CASE MarkRunning(j) \/ MarkCancelled(j) \/ MarkComplete(j)
  BY <1>1, <1>8 DEF MarkRunning, MarkCancelled, MarkComplete, Mark
<1>9. CASE CheckFinal(j) \/ ReadBack(j) \/ MarkFailed(j) \/ Release(j) \/ CleanUp(j)
  BY <1>1, <1>9 DEF CheckFinal, ReadBack, MarkFailed, Release, CleanUp
<1> QED BY <1>3, <1>4, <1>5, <1>6, <1>7, <1>8, <1>9 DEF Thread

\* What mark_complete writes for a job without step outputs: "completed" when
\* there is a row and every row is a success, "partial_failure" when there is
\* one of each kind.
LEMMA VerdictMeaning ==
  ASSUME NEW R
  PROVE  /\ Verdict(R, {}) = "completed" => WithRow(R, "failed") = {}
         /\ Verdict(R, {}) = "partial_failure" =>
              WithRow(R, "success") # {} /\ WithRow(R, "failed") # {}
BY DEF Verdict

\* When all that was submitted is stored, every session that ran has its row.
LEMMA StoredHaveRows ==
  ASSUME TypeOK, NEW j \in Jobs, Submissions(j), Told(j),
         pc[j] \in {"markcomplete", "markcancelled"}
  PROVE  \A i \in Sessions(j, Outcome) : rows[j][DeviceList[j][i]] # "none"
<1>1. \A i \in Sessions(j, Outcome) : i \in Entries(j) /\ fut[j][i] # "idle"
  BY DEF Sessions, Outcome
<1> QED BY <1>1 DEF Submissions, Told

\* The status mark_complete derives from the rows is true of the sessions.
LEMMA CompleteIsTrue ==
  ASSUME TypeOK, Futures, NEW j \in Jobs, Submissions(j), Told(j), MarkComplete(j),
         status' = [status EXCEPT ![j] = Verdict(rows[j], {})]
  PROVE  StatusIsTrue(j)'
<1>1. pc[j] = "markcomplete" /\ UNCHANGED <<rows, fut>>
  BY DEF MarkComplete, Mark, Goto, pool
<1>2. status'[j] = Verdict(rows[j], {})
  BY DEF TypeOK
<1>3. \A i \in Entries(j) : i \in stored[j] /\ fut[j][i] \in Outcome
  BY <1>1 DEF Submissions, Futures
<1>4. Sessions(j, Outcome) = Entries(j)
  BY <1>3 DEF Sessions
<1>5. ASSUME Verdict(rows[j], {}) = "completed", NEW i \in Entries(j)
      PROVE  \E k \in Sessions(j, {"success"}) : DeviceList[j][k] = DeviceList[j][i]
  <2> DEFINE d == DeviceList[j][i]
  <2>1. d \in Devices /\ rows[j][d] \in Row /\ d \in DOMAIN rows[j]
    BY EntryNumbers DEF TypeOK
  <2>2. rows[j][d] # "none" /\ rows[j][d] # "failed"
    BY <1>3, <1>5, <2>1, VerdictMeaning DEF Told, WithRow
  <2>3. PICK k \in Entries(j) : DeviceList[j][k] = d /\ fut[j][k] = rows[j][d]
    BY <2>1, <2>2 DEF Told
  <2> QED BY <2>1, <2>2, <2>3 DEF Sessions, Row, Outcome
<1>6. Verdict(rows[j], {}) = "partial_failure" => \A o \in Outcome : WithRow(rows[j], o) # {}
  BY VerdictMeaning DEF Outcome
<1>7. \A i \in Sessions(j, Outcome) : rows[j][DeviceList[j][i]] # "none"
  BY <1>1, StoredHaveRows
<1> QED BY <1>1, <1>2, <1>4, <1>5, <1>6, <1>7 DEF StatusIsTrue, Sessions, Entries

\* A status that says nothing of the sessions: true whatever they did.
LEMMA OtherStatusIsTrue ==
  ASSUME NEW j \in Jobs, status'[j] \notin {"completed", "partial_failure", "cancelled"}
  PROVE  StatusIsTrue(j)'
BY DEF StatusIsTrue

\* No thread writes a status its sessions belie, or belies one that is written.
LEMMA ThreadStatus ==
  ASSUME TypeOK, Lifeline, Futures, NEW j \in Jobs, JobInv(j), Thread(j) \/ Worker(j)
  PROVE  StatusIsTrue(j)'
<1>1. StatusIsTrue(j) /\ Submissions(j) /\ Told(j)
  BY DEF JobInv
<1>2. pc[j] \in InPool => status[j] = "running"
  BY DEF Lifeline
<1>3. UNCHANGED <<status, rows, fut>> => StatusIsTrue(j)'
  BY <1>1 DEF StatusIsTrue, Sessions, Entries
<1>4. pc[j] \in InPool /\ UNCHANGED status => StatusIsTrue(j)'
  BY <1>2, OtherStatusIsTrue
<1>5. CASE SubmitNext(j) \/ Withdraw(j) \/ StoreResult(j)
  BY <1>4, <1>5 DEF SubmitNext, Withdraw, StoreResult, Goto, InPool, database
<1>6. CASE Worker(j)
  <2>1. pc[j] \in InPool
    BY <1>6 DEF Worker, WorkerTake, WorkerFinish, FirstIn, Futures, PoolIdle
  <2> QED BY <1>4, <1>6, <2>1 DEF Worker, WorkerTake, WorkerFinish, database
<1>7. ASSUME NEW s \in {"running", "failed"}, status' = [status EXCEPT ![j] = s]
      PROVE  StatusIsTrue(j)'
  BY <1>7, OtherStatusIsTrue DEF TypeOK
<1>8. CASE QueueFull(j) \/ MarkFailed(j)
  BY <1>3, <1>7, <1>8 DEF QueueFull, MarkFailed, pool
<1>9. CASE MarkRunning(j)
  BY <1>3, <1>7, <1>9 DEF MarkRunning, Mark, pool
<1>10. CASE MarkComplete(j)
  <2>1. status' = [status EXCEPT ![j] = Verdict(rows[j], {})] \/ UNCHANGED <<status, rows, fut>>
    BY <1>10 DEF MarkComplete, Mark, pool
  <2> QED BY <1>1, <1>3, <1>10, <2>1, CompleteIsTrue
<1>11. CASE MarkCancelled(j)
  <2>1. CASE UNCHANGED status
    BY <1>3, <1>11, <2>1 DEF MarkCancelled, Mark, pool
  <2>2. CASE status' = [status EXCEPT ![j] = "cancelled"]
    <3>1. pc[j] = "markcancelled" /\ UNCHANGED <<rows, fut>> /\ status'[j] = "cancelled"
      BY <1>11, <2>2 DEF MarkCancelled, Mark, Goto, pool, TypeOK
    <3>2. \A i \in Sessions(j, Outcome) : rows[j][DeviceList[j][i]] # "none"
      BY <1>1, <3>1, StoredHaveRows
    <3> QED BY <3>1, <3>2 DEF StatusIsTrue, Sessions, Entries
  <2> QED BY <1>11, <2>1, <2>2 DEF MarkCancelled, Mark
<1>12. CASE Quiet(j) /\ UNCHANGED status
  BY <1>3, <1>12, QuietSteps
<1>13. Quiet(j) => \/ UNCHANGED status \/ QueueFull(j) \/ MarkFailed(j) \/ MarkRunning(j)
                  \/ MarkComplete(j) \/ MarkCancelled(j)
  BY DEF Quiet, Acquire, AcquireTimeout, CheckCancelled, SubmitEnd, Yield, ResultRaises,
         CollectEnd, Drained, CheckFinal, ReadBack, Release, CleanUp, database
<1> QED BY <1>5, <1>6, <1>8, <1>9, <1>10, <1>11, <1>12, <1>13, QuietSteps

\* A worker takes only futures that were submitted, and ends no wait it should
\* not: what was submitted stays submitted, what was withdrawn withdrawn.
LEMMA WorkerPlaces ==
  ASSUME TypeOK, Futures, NEW j \in Jobs, JobInv(j), Worker(j)
  PROVE  Path(j)' /\ Submissions(j)' /\ WithdrawnAll(j)'
<1>1. PICK i \in Entries(j) : WorkerTake(j, i) \/ WorkerFinish(j, i)
  BY DEF Worker
<1>2. UNCHANGED <<status, rows, event, pc, at, stored, faults>>
  BY <1>1 DEF WorkerTake, WorkerFinish, database, registry, bounds
<1>3. pc[j] \in InPool
  BY <1>1 DEF WorkerTake, WorkerFinish, FirstIn, Futures, PoolIdle
<1>4. PICK v : /\ fut' = [fut EXCEPT ![j][i] = v]
               /\ \/ fut[j][i] = "pending" /\ v = "running"
                  \/ fut[j][i] = "cancelled" /\ v = "notified"
                  \/ fut[j][i] = "running" /\ v \in Outcome
  BY <1>1, Names DEF WorkerTake, WorkerFinish, FirstIn, Queued
<1>5. \A k \in Entries(j) : fut'[j][k] = IF k = i THEN v ELSE fut[j][k]
  BY <1>4 DEF TypeOK
<1>6. \A k \in Entries(j) :
        /\ fut'[j][k] = "idle" <=> fut[j][k] = "idle"
        /\ fut'[j][k] = "pending" => fut[j][k] = "pending"
        /\ fut'[j][k] \in {"cancelled", "notified"}
             => fut[j][k] \in {"cancelled", "notified"}
  BY <1>4, <1>5 DEF Outcome
<1>7. Path(j)'
  BY <1>2 DEF JobInv, Path
<1>8. Submissions(j)'
  BY <1>2, <1>3, <1>6 DEF JobInv, Submissions, Entries, InPool, Early
<1>9. WithdrawnAll(j)'
  BY <1>2, <1>6 DEF JobInv, WithdrawnAll, Entries
<1> QED BY <1>7, <1>8, <1>9

\* What is known of a job is preserved by its thread and its workers.
LEMMA ThreadJobInv ==
  ASSUME IInv, NEW j \in Jobs, JobInv(j), Thread(j) \/ Worker(j)
  PROVE  JobInv(j)'
<1> USE DEF IInv
<1>1. Path(j) /\ Submissions(j) /\ Told(j) /\ WithdrawnAll(j)
  BY DEF JobInv
<1>2. Path(j)' /\ Submissions(j)' /\ WithdrawnAll(j)'
  BY <1>1, ThreadPath, ThreadSubmissions, ThreadWithdrawn, WorkerPlaces
<1> QED BY <1>1, <1>2, ThreadTold, ThreadStatus DEF JobInv

-----------------------------------------------------------------------------
(* Handlers and restarts                                                   *)

\* A handler inserts a row where there is none, starts a thread where there is
\* none, and takes no cancellation back.
LEMMA HandlerFrame ==
  ASSUME TypeOK, Lifeline, NEW c \in Clients, Handler(c)
  PROVE  /\ UNCHANGED <<rows, at, fut, stored, crashes>>
         /\ faults' \in Nat /\ faults' >= faults
         /\ \A k \in Jobs :
              /\ \/ status'[k] = status[k]
                 \/ status[k] = "absent" /\ status'[k] = "queued"
              /\ \/ pc'[k] = pc[k]
                 \/ pc[k] = "none" /\ pc'[k] = "acquire"
              /\ event[k] = "set" => event'[k] = "set"
<1> USE DEF TypeOK, database, registry, pool
<1>1. UNCHANGED bounds => faults' \in Nat /\ faults' >= faults /\ UNCHANGED crashes
  BY ExecutorAssumption DEF bounds
<1>2. ASSUME NEW j \in Jobs, PostArrive(c, j) \/ DeleteArrive(c, j)
      PROVE  UNCHANGED <<status, rows, event, pc, at, fut, stored, bounds>>
  BY <1>2 DEF PostArrive, DeleteArrive
<1>3. CASE UNCHANGED <<status, rows, event, pc, at, fut, stored, bounds>>
  BY <1>1, <1>3
<1>4. CASE PostExists(c) \/ PostDepth(c) \/ DeleteCheck(c)
  BY <1>3, <1>4 DEF PostExists, PostDepth, DeleteCheck
<1>5. CASE PostRegister(c)
  BY <1>1, <1>5 DEF PostRegister, Registered
<1>6. CASE PostCreate(c)
  BY <1>1, <1>6 DEF PostCreate
<1>7. CASE PostStart(c)
  <2>1. pc[req[c].job] = "none"
    BY <1>7 DEF PostStart, Lifeline, RunsOnce
  <2> QED BY <1>1, <1>7, <2>1 DEF PostStart, Registered
<1>8. CASE DeleteSignal(c)
  BY <1>1, <1>8 DEF DeleteSignal
<1>9. CASE RequestFault(c)
  BY <1>9, FaultsGrow DEF RequestFault
<1> QED BY <1>2, <1>3, <1>4, <1>5, <1>6, <1>7, <1>8, <1>9 DEF Handler, Serve

\* What is known of a job is preserved by every handler.
LEMMA HandlerJobInv ==
  ASSUME TypeOK, Lifeline, NEW c \in Clients, Handler(c), NEW k \in Jobs, JobInv(k)
  PROVE  JobInv(k)'
<1> USE HandlerFrame DEF JobInv
<1>1. UNCHANGED <<rows, at, fut, stored>> /\ (event[k] = "set" => event'[k] = "set")
  OBVIOUS
<1>2. Path(k)'
  BY ExecutorAssumption DEF Path, TypeOK, Active, Terminal
<1>3. Submissions(k)'
  BY <1>1 DEF Submissions, Entries, Early, InPool
<1>4. Told(k)'
  BY <1>1 DEF Told, Entries
<1>5. WithdrawnAll(k)'
  BY <1>1 DEF WithdrawnAll, Entries
<1>6. StatusIsTrue(k)'
  BY <1>1 DEF StatusIsTrue, Sessions, Entries
<1> QED BY <1>2, <1>3, <1>4, <1>5, <1>6

\* A restart ends threads and sessions, and no result that was told.
LEMMA RestartJobInv ==
  ASSUME TypeOK, Lifeline, Futures, Restart, NEW k \in Jobs, JobInv(k)
  PROVE  JobInv(k)'
<1>1. UNCHANGED <<status, rows, at, stored>>
  BY DEF Restart, database
<1>2. pc'[k] \in {"none", "done"} /\ (pc'[k] = "none" => pc[k] = "none")
  BY DEF Restart, Lifeline
<1>3. \A i \in Entries(k) :
        fut'[k][i] = IF fut[k][i] \in Queued \cup {"running"} THEN "lost" ELSE fut[k][i]
  BY DEF Restart
<1>4. \A i \in Entries(k) :
        /\ fut[k][i] \in Outcome <=> fut'[k][i] \in Outcome
        /\ fut[k][i] \in Outcome \cup {"idle"} => fut'[k][i] = fut[k][i]
  BY <1>3 DEF Queued, Outcome
<1>5. Path(k)'
  BY <1>2 DEF Path
<1>6. Submissions(k)'
  BY <1>1, <1>2, <1>4 DEF JobInv, Submissions, Entries, Early, InPool
<1>7. Told(k)'
  <2>1. \A d \in Devices : rows[k][d] \in Outcome \cup {"none"}
    BY DEF TypeOK, Row
  <2> QED BY <1>1, <1>4, <2>1 DEF JobInv, Told, Entries
<1>8. WithdrawnAll(k)'
  BY <1>2 DEF WithdrawnAll
<1>9. StatusIsTrue(k)'
  BY <1>1, <1>4 DEF JobInv, StatusIsTrue, Sessions, Entries, Outcome
<1> QED BY <1>5, <1>6, <1>7, <1>8, <1>9 DEF JobInv

\* What is known of each job is preserved by every step.
LEMMA JobInvStep ==
  ASSUME IInv, \A j \in Jobs : JobInv(j), [Next]_vars
  PROVE  \A j \in Jobs : JobInv(j)'
<1> SUFFICES ASSUME NEW k \in Jobs PROVE JobInv(k)'
  OBVIOUS
<1>1. TypeOK /\ Lifeline /\ Futures /\ JobInv(k)
  BY DEF IInv
<1>2. CASE UNCHANGED vars
  <2>1. Untouched(k) /\ faults' \in Nat /\ faults' >= faults
    BY <1>1, <1>2, ExecutorAssumption DEF Untouched, vars, TypeOK
  <2> QED BY <1>1, <2>1, UntouchedKeeps
<1>3. ASSUME NEW c \in Clients, Handler(c) PROVE JobInv(k)'
  BY <1>1, <1>3, HandlerJobInv
<1>4. ASSUME NEW j \in Jobs, Thread(j) \/ Worker(j) PROVE JobInv(k)'
  <2>1. CASE j = k
    BY <1>1, <1>4, <2>1, ThreadJobInv
  <2>2. CASE j # k
    <3>1. Untouched(k) /\ faults' \in Nat /\ faults' >= faults
      BY <1>1, <1>4, <2>2, ThreadFrame
    <3> QED BY <1>1, <3>1, UntouchedKeeps
  <2> QED BY <2>1, <2>2
<1>5. CASE Restart
  BY <1>1, <1>5, RestartJobInv
<1> QED BY <1>2, <1>3, <1>4, <1>5 DEF Next

-----------------------------------------------------------------------------
(* Jobs without an end: one failed database call each                      *)

\* The doomed jobs are counted by a natural number.
LEMMA DoomedFinite == IsFiniteSet(Doomed) /\ Cardinality(Doomed) \in Nat
<1>1. IsFiniteSet(Doomed)
  BY ExecutorAssumption, FS_Subset DEF ExecutorAssumption, Doomed
<1> QED BY <1>1, FS_CardinalityType

\* A thread that gives its job up without a terminal status has paid with a
\* database call.
LEMMA ThreadDoomed ==
  ASSUME TypeOK, NEW j \in Jobs, Path(j), Thread(j) \/ Worker(j)
  PROVE  Doomed' \subseteq Doomed \/ (Doomed' \subseteq Doomed \cup {j} /\ faults' = faults + 1)
<1> DEFINE Gone == {"release", "cleanup", "done"}
<1> USE DEF TypeOK, Goto, database, registry, pool
<1>1. \A k \in Jobs \ {j} : pc'[k] = pc[k] /\ status'[k] = status[k]
  BY ThreadFrame DEF Untouched
<1>2. Doomed' \subseteq Doomed \cup {j}
  BY <1>1 DEF Doomed
<1>3. pc'[j] \notin Gone \/ status'[j] \notin Active => Doomed' \subseteq Doomed
  BY <1>2 DEF Doomed
<1>4. j \in Doomed => Doomed' \subseteq Doomed
  BY <1>2
<1>5. CASE DbFault
  BY <1>2, <1>5 DEF DbFault
<1>6. CASE Acquire(j) \/ AcquireTimeout(j) \/ CheckCancelled(j) \/ CheckFinal(j)
  BY <1>3, <1>6 DEF Acquire, AcquireTimeout, CheckCancelled, CheckFinal
<1>7. CASE SubmitNext(j) \/ SubmitEnd(j) \/ CollectEnd(j) \/ Drained(j) \/ ResultRaises(j)
  BY <1>3, <1>7 DEF SubmitNext, SubmitEnd, CollectEnd, Drained, ResultRaises
<1>8. CASE Withdraw(j) \/ StoreResult(j) \/ \E i \in Entries(j) : Yield(j, i)
  BY <1>3, <1>8 DEF Withdraw, StoreResult, Yield
<1>9. CASE QueueFull(j) \/ MarkFailed(j)
  BY <1>3, <1>5, <1>9 DEF QueueFull, MarkFailed, Active
<1>10. CASE MarkRunning(j) \/ MarkComplete(j) \/ MarkCancelled(j)
  BY <1>3, <1>5, <1>10 DEF MarkRunning, MarkComplete, MarkCancelled, Mark, Active
<1>11. CASE ReadBack(j)
  BY <1>3, <1>5, <1>11 DEF ReadBack, Path, Terminal, Active
<1>12. CASE Release(j) \/ CleanUp(j)
  BY <1>3, <1>4, <1>12 DEF Release, CleanUp, Doomed
<1>13. CASE Worker(j)
  BY <1>3, <1>4, <1>13 DEF Worker, WorkerTake, WorkerFinish, Doomed
<1> QED BY <1>6, <1>7, <1>8, <1>9, <1>10, <1>11, <1>12, <1>13 DEF Thread

\* The count of doomed jobs never overtakes that of the faults.
LEMMA DoomedStep ==
  ASSUME IInv, \A j \in Jobs : JobInv(j), DoomedNeedFaults, [Next]_vars
  PROVE  DoomedNeedFaults'
<1> USE DEF DoomedNeedFaults
<1>1. TypeOK /\ Lifeline /\ faults \in Nat /\ crashes \in Nat
  BY ExecutorAssumption DEF IInv, TypeOK
<1>2. ASSUME Doomed' \subseteq Doomed, faults' \in Nat, faults' >= faults, UNCHANGED crashes
      PROVE  DoomedNeedFaults'
  <2>1. Cardinality(Doomed') <= Cardinality(Doomed) /\ Cardinality(Doomed') \in Nat
    BY <1>2, DoomedFinite, FS_Subset, FS_CardinalityType
  <2> QED BY <1>1, <1>2, <2>1, DoomedFinite
<1>3. CASE UNCHANGED vars
  <2>1. Doomed' = Doomed /\ UNCHANGED <<faults, crashes>>
    BY <1>3 DEF vars, Doomed
  <2> QED BY <2>1
<1>4. ASSUME NEW c \in Clients, Handler(c) PROVE DoomedNeedFaults'
  <2>1. faults' \in Nat /\ faults' >= faults /\ UNCHANGED crashes
    BY <1>1, <1>4, HandlerFrame
  <2>2. \A k \in Jobs :
          /\ status'[k] = status[k] \/ (status[k] = "absent" /\ status'[k] = "queued")
          /\ pc'[k] = pc[k] \/ (pc[k] = "none" /\ pc'[k] = "acquire")
    BY <1>1, <1>4, HandlerFrame
  <2>3. \A k \in Jobs : status[k] = "absent" => pc[k] = "none"
    BY <1>1 DEF Lifeline
  <2>4. Doomed' \subseteq Doomed
    BY <2>2, <2>3 DEF Doomed
  <2> QED BY <1>2, <2>1, <2>4
<1>5. ASSUME NEW j \in Jobs, Thread(j) \/ Worker(j) PROVE DoomedNeedFaults'
  <2>1. faults' \in Nat /\ faults' >= faults /\ UNCHANGED crashes
    BY <1>1, <1>5, ThreadFrame
  <2>2. CASE Doomed' \subseteq Doomed
    BY <1>2, <2>1, <2>2
  <2>3. CASE Doomed' \subseteq Doomed \cup {j} /\ faults' = faults + 1
    <3> DEFINE More == Doomed \cup {j}
    <3>1. IsFiniteSet(More) /\ Cardinality(More) \in Nat
      BY DoomedFinite, FS_AddElement, FS_CardinalityType
    <3>2. Cardinality(More) = IF j \in Doomed THEN Cardinality(Doomed) ELSE Cardinality(Doomed) + 1
      BY DoomedFinite, FS_AddElement
    <3>3. Cardinality(Doomed') <= Cardinality(More) /\ Cardinality(Doomed') \in Nat
      BY <2>3, <3>1, FS_Subset, FS_CardinalityType
    <3> HIDE DEF More
    <3> QED BY <1>1, <2>1, <2>3, <3>1, <3>2, <3>3, DoomedFinite
  <2> QED BY <1>1, <1>5, <2>2, <2>3, ThreadDoomed DEF JobInv
<1>6. CASE Restart
  BY <1>1, <1>6 DEF Restart
<1> QED BY <1>3, <1>4, <1>5, <1>6 DEF Next

-----------------------------------------------------------------------------
(* The invariant                                                           *)

\* It holds initially.
LEMMA InitSInv == Init => SInv
<1> SUFFICES ASSUME Init PROVE SInv
  OBVIOUS
<1>1. ASSUME NEW j \in Jobs PROVE JobInv(j)
  <2>1. /\ status[j] = "absent" /\ pc[j] = "none" /\ at[j] = 1 /\ stored[j] = {}
        /\ \A i \in Entries(j) : fut[j][i] = "idle"
        /\ \A d \in Devices : rows[j][d] = "none"
    BY DEF Init
  <2>2. Path(j) /\ Submissions(j)
    BY <2>1 DEF Path, Submissions, Early, InPool
  <2>3. Told(j) /\ WithdrawnAll(j) /\ StatusIsTrue(j)
    BY <2>1 DEF Told, WithdrawnAll, StatusIsTrue
  <2> QED BY <2>2, <2>3 DEF JobInv
<1>2. DoomedNeedFaults
  <2>1. Doomed = {}
    BY DEF Init, Doomed
  <2> QED BY <2>1, FS_EmptySet DEF Init, DoomedNeedFaults
<1> QED BY <1>1, <1>2, InitIInv DEF SInv

\* Every step preserves it.
LEMMA NextSInv == SInv /\ [Next]_vars => SInv'
BY NextIInv, JobInvStep, DoomedStep DEF SInv

-----------------------------------------------------------------------------
(* Theorems                                                                *)

\* What every reachable state of the executor satisfies, whatever is
\* cancelled, withdrawn, failed or restarted on the way.
THEOREM StatusInvariance == Spec => []SInv
BY InitSInv, NextSInv, PTL DEF Spec

\* "completed", "partial_failure" and "cancelled" are true of the sessions and
\* rows of their job in every reachable state.
THEOREM FinalStatusTrue == Spec => []FinalStatusIsTrue
<1>1. SInv => FinalStatusIsTrue
  BY DEF SInv, JobInv, FinalStatusIsTrue
<1> QED BY <1>1, StatusInvariance, PTL

\* Once a cancellation has withdrawn one session of a job, no worker will open
\* another one.
THEOREM WithdrawalTotal == Spec => []WithdrawalIsTotal
<1>1. SInv => WithdrawalIsTotal
  BY DEF SInv, JobInv, WithdrawalIsTotal
<1> QED BY <1>1, StatusInvariance, PTL

\* While the process lives, the jobs left active without a thread are at most
\* as many as the database calls that failed.
THEOREM OrphansCostFaults == Spec => []OrphansNeedFaults
<1>1. ASSUME SInv PROVE OrphansNeedFaults
  <2>1. Orphans \subseteq Doomed
    BY DEF Orphans, Doomed
  <2>2. Cardinality(Orphans) <= Cardinality(Doomed) /\ Cardinality(Orphans) \in Nat
    BY <2>1, DoomedFinite, FS_Subset, FS_CardinalityType
  <2>3. faults \in Nat
    BY <1>1, ExecutorAssumption DEF SInv, IInv, TypeOK
  <2> QED BY <1>1, <2>2, <2>3, DoomedFinite DEF SInv, DoomedNeedFaults, OrphansNeedFaults
<1> QED BY <1>1, StatusInvariance, PTL

\* For a list without a host twice, "completed" means that every session of the
\* job succeeded.
THEOREM CompletedMeansAll ==
  ASSUME NEW j \in Jobs,
         \A i, k \in Entries(j) : DeviceList[j][i] = DeviceList[j][k] => i = k
  PROVE  Spec => [](status[j] = "completed" => Sessions(j, {"success"}) = Entries(j))
<1>1. SInv => (status[j] = "completed" => Sessions(j, {"success"}) = Entries(j))
  BY DEF SInv, JobInv, StatusIsTrue, Sessions
<1> QED BY <1>1, StatusInvariance, PTL

-----------------------------------------------------------------------------
(* The lifecycle clients are promised                                      *)

\* The except clause takes a terminal status back, after a database error.
Reversal(j) ==
  /\ status[j] \in Terminal /\ pc[j] = "except" /\ faults > 0
  /\ status' = [status EXCEPT ![j] = "failed"]
  /\ UNCHANGED rows

\* A step of a job's thread is a step of its lifecycle, none at all or, after a
\* database error, a reversal.
LEMMA ThreadLifecycle ==
  ASSUME TypeOK, Lifeline, Futures, NEW j \in Jobs, Path(j), Thread(j)
  PROVE  \/ Lifecycle!LifecycleNext \/ UNCHANGED <<status, rows>>
         \/ Reversal(j)
<1> USE DEF database
<1>1. ASSUME NEW s \in {"failed", "cancelled"}, status[j] \in Active,
             status' = [status EXCEPT ![j] = s], UNCHANGED rows
      PROVE  Lifecycle!LifecycleNext
  BY <1>1 DEF Lifecycle!LifecycleNext, Lifecycle!Abandon, Lifecycle!Active, Active
<1>2. CASE QueueFull(j)
  <2>1. status[j] \in Active
    BY <1>2 DEF QueueFull, Goto, Lifeline, Early, Active
  <2> QED BY <1>1, <1>2, <2>1 DEF QueueFull
<1>3. CASE MarkRunning(j)
  <2>1. status[j] = "queued"
    BY <1>3 DEF MarkRunning, Mark, Goto, Lifeline, Early
  <2>2. CASE status' = [status EXCEPT ![j] = "running"]
    <3>1. Lifecycle!Start(j)
      BY <1>3, <2>1, <2>2 DEF MarkRunning, Mark, Lifecycle!Start
    <3> QED BY <3>1 DEF Lifecycle!LifecycleNext
  <2> QED BY <1>3, <2>2 DEF MarkRunning, Mark
<1>4. CASE MarkCancelled(j)
  <2>1. status[j] \in Active
    BY <1>4 DEF MarkCancelled, Mark, Goto, Path
  <2> QED BY <1>1, <1>4, <2>1 DEF MarkCancelled, Mark
<1>5. CASE MarkComplete(j)
  <2>1. status[j] = "running"
    BY <1>5 DEF MarkComplete, Mark, Goto, Path
  <2>2. CASE status' = [status EXCEPT ![j] = Verdict(rows[j], {})]
    <3>1. Verdict(rows[j], {}) = Lifecycle!Verdict(rows[j], {})
      BY DEF Verdict, Lifecycle!Verdict, WithRow, Lifecycle!WithRow
    <3>2. Lifecycle!Finish(j)
      BY <1>5, <2>1, <2>2, <3>1 DEF MarkComplete, Mark, Lifecycle!Finish
    <3> QED BY <3>2 DEF Lifecycle!LifecycleNext
  <2> QED BY <1>5, <2>2 DEF MarkComplete, Mark
<1>6. CASE StoreResult(j)
  <2> DEFINE o == fut[j][at[j]]
             d == DeviceList[j][at[j]]
  <2>1. status[j] = "running" /\ o \in Outcome /\ d \in Devices /\ UNCHANGED status
    BY <1>6, EntryNumbers DEF StoreResult, Lifeline, InPool, Futures
  <2>2. CASE rows' = [rows EXCEPT ![j][d] = o]
    <3>1. Lifecycle!Report(j, d, o)
      BY <2>1, <2>2 DEF Lifecycle!Report
    <3> QED BY <2>1, <3>1 DEF Lifecycle!LifecycleNext, Lifecycle!Outcome, Outcome
  <2> QED BY <1>6, <2>1, <2>2 DEF StoreResult
<1>7. CASE MarkFailed(j)
  <2>1. CASE status' = [status EXCEPT ![j] = "failed"] /\ UNCHANGED rows
    <3>1. pc[j] = "except" /\ status[j] # "absent"
      BY <1>7 DEF MarkFailed, Goto, Lifeline
    <3>2. status[j] \in Active \/ (status[j] \in Terminal /\ faults > 0)
      BY <3>1 DEF Path, TypeOK, Statuses
    <3> QED BY <1>1, <2>1, <3>1, <3>2 DEF Reversal
  <2> QED BY <1>7, <2>1 DEF MarkFailed
<1>8. CASE Acquire(j) \/ AcquireTimeout(j) \/ CheckCancelled(j) \/ CheckFinal(j) \/ Release(j)
  BY <1>8 DEF Acquire, AcquireTimeout, CheckCancelled, CheckFinal, Release
<1>9. CASE SubmitNext(j) \/ SubmitEnd(j) \/ CollectEnd(j) \/ Drained(j) \/ CleanUp(j)
  BY <1>9 DEF SubmitNext, SubmitEnd, CollectEnd, Drained, CleanUp
<1>10. CASE Withdraw(j) \/ ResultRaises(j) \/ ReadBack(j) \/ \E i \in Entries(j) : Yield(j, i)
  BY <1>10 DEF Withdraw, ResultRaises, ReadBack, Yield
<1> QED BY <1>2, <1>3, <1>4, <1>5, <1>6, <1>7, <1>8, <1>9, <1>10 DEF Thread

\* Of the handlers only the INSERT of POST is a step of the lifecycle.
LEMMA HandlerLifecycle ==
  ASSUME TypeOK, NEW c \in Clients, Handler(c)
  PROVE  Lifecycle!LifecycleNext \/ UNCHANGED <<status, rows>>
<1>1. CASE PostCreate(c) /\ status[req[c].job] = "absent"
  <2>1. req[c].job \in Jobs
    BY <1>1, BusyHandler DEF PostCreate, TypeOK
  <2>2. Lifecycle!Accept(req[c].job)
    BY <1>1 DEF PostCreate, Lifecycle!Accept
  <2> QED BY <2>1, <2>2 DEF Lifecycle!LifecycleNext
<1> QED BY <1>1
     DEF Handler, Serve, PostArrive, DeleteArrive, PostExists, PostDepth, PostRegister, PostCreate,
         PostStart, DeleteCheck, DeleteSignal, RequestFault, database

\* Every step of the system is a step of the lifecycle, none or a reversal.
LEMMA NextLifecycle ==
  SInv /\ [Next]_vars =>
    \/ Lifecycle!LifecycleNext \/ UNCHANGED <<status, rows>>
    \/ \E j \in Jobs : Reversal(j)
<1> SUFFICES ASSUME SInv, [Next]_vars
             PROVE  \/ Lifecycle!LifecycleNext \/ UNCHANGED <<status, rows>>
                    \/ \E j \in Jobs : Reversal(j)
  OBVIOUS
<1>1. TypeOK /\ Lifeline /\ Futures /\ \A j \in Jobs : Path(j)
  BY DEF SInv, IInv, JobInv
<1>2. ASSUME NEW j \in Jobs, Worker(j) PROVE UNCHANGED <<status, rows>>
  BY <1>2 DEF Worker, WorkerTake, WorkerFinish, database
<1>3. CASE UNCHANGED vars \/ Restart
  BY <1>3 DEF vars, Restart, database
<1> QED BY <1>1, <1>2, <1>3, ThreadLifecycle, HandlerLifecycle DEF Next

\* A job begins as the lifecycle has it begin.
LEMMA InitLifecycle == Init => Lifecycle!LifecycleInit
BY DEF Init, Lifecycle!LifecycleInit

\* The executor is a lifecycle of jobs in which, after a database error, the
\* except clause may turn a terminal status into "failed".
THEOREM LifecycleUpToReversals ==
  Spec => /\ Lifecycle!LifecycleInit
          /\ [][Lifecycle!LifecycleNext \/ \E j \in Jobs : Reversal(j)]_<<status, rows>>
<1>1. SInv /\ [Next]_vars =>
        [Lifecycle!LifecycleNext \/ \E j \in Jobs : Reversal(j)]_<<status, rows>>
  BY NextLifecycle
<1> QED BY <1>1, InitLifecycle, StatusInvariance, PTL DEF Spec

\* While no database call raises it implements the lifecycle, whatever clients
\* cancel and however often the process is restarted.
THEOREM LifecycleImplemented == Spec /\ [](faults = 0) => ImplementsLifecycle
<1>1. SInv /\ faults = 0 /\ [Next]_vars => [Lifecycle!LifecycleNext]_(Lifecycle!lifecycleVars)
  BY NextLifecycle DEF Reversal, Lifecycle!lifecycleVars
<1> QED BY <1>1, InitLifecycle, StatusInvariance, PTL
     DEF Spec, ImplementsLifecycle, Lifecycle!LifecycleSpec

\* A terminal status is only ever taken back by the except clause, after a
\* database error, and only for "failed".
THEOREM ReversalsCostFaults == Spec => ReversalNeedsFault
<1> DEFINE A == \A j \in Jobs :
                  status[j] \in Terminal /\ status'[j] # status[j]
                    => status'[j] = "failed" /\ pc[j] = "except" /\ faults > 0
<1>1. ASSUME SInv, [Next]_vars PROVE A
  <2> SUFFICES ASSUME NEW k \in Jobs, status[k] \in Terminal, status'[k] # status[k]
               PROVE  status'[k] = "failed" /\ pc[k] = "except" /\ faults > 0
    OBVIOUS
  <2>1. status \in [Jobs -> Statuses]
    BY <1>1 DEF SInv, IInv, TypeOK
  <2>2. CASE Lifecycle!LifecycleNext
    <3>1. PICK j \in Jobs :
            \/ Lifecycle!Accept(j) \/ Lifecycle!Start(j) \/ Lifecycle!Finish(j)
            \/ \E d \in Devices, o \in Lifecycle!Outcome : Lifecycle!Report(j, d, o)
            \/ \E s \in {"failed", "cancelled"} : Lifecycle!Abandon(j, s)
      BY <2>2 DEF Lifecycle!LifecycleNext
    <3>2. status[j] \notin Terminal \/ UNCHANGED status
      BY <3>1 DEF Lifecycle!Accept, Lifecycle!Start, Lifecycle!Finish, Lifecycle!Report,
                  Lifecycle!Abandon, Lifecycle!Active, Terminal
    <3>3. j # k => status'[k] = status[k]
      BY <2>1, <3>1 DEF Lifecycle!Accept, Lifecycle!Start, Lifecycle!Finish, Lifecycle!Report,
                        Lifecycle!Abandon
    <3> QED BY <3>2, <3>3
  <2>3. ASSUME NEW j \in Jobs, Reversal(j)
        PROVE  status'[k] = "failed" /\ pc[k] = "except" /\ faults > 0
    BY <2>1, <2>3 DEF Reversal
  <2> QED BY <1>1, <2>2, <2>3, NextLifecycle
<1> QED BY <1>1, StatusInvariance, PTL DEF Spec, ReversalNeedsFault
=============================================================================
