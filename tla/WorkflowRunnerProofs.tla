------------------------ MODULE WorkflowRunnerProofs ------------------------
(***************************************************************************)
(* Theorems about WorkflowRunner, for any workflow file and device list,   *)
(* any number of steps, devices, pool workers and failures: who is left    *)
(* alone after a failure, who is rolled back, whose result a condition     *)
(* looks at, what the row of a device says, and that a workflow job is a   *)
(* job as JobLifecycle has it.                                             *)
(***************************************************************************)
EXTENDS WorkflowRunner, SequenceTheorems, FiniteSetTheorems, TLAPS

\* The thread is at work on step number step.
InStep == {"begin", "fan", "store", "rollback", "rbfan", "storeonce", "close"}
Places == InStep \cup {"create", "register", "markrunning", "next", "complete", "abort",
                       "fail", "finally", "done"}

Types ==
  /\ status \in Statuses /\ rows \in [Devices -> Row] /\ codes \in SUBSET {0, 1}
  /\ wf \in Seq(Steps) /\ list \in Seq(Devices)
  /\ registered \in BOOLEAN /\ accepted \in 0..(Len(wf) + 1)
  /\ pc \in Places
  /\ step \in 0..Len(wf) /\ rb \in Nat \ {0} /\ failed \in SUBSET Devices
  /\ context \in [DOMAIN wf -> [code : {"none", "ok", "bad"}, devices : [Devices -> Codes]]]
  /\ session \in [Entries -> Codes \cup {"queued", "running"}]
  /\ got \in [Devices -> Codes] /\ left \in SUBSET Devices
  /\ once \in {"none", "ok", "bad"}
  /\ undone \in SUBSET ((DOMAIN wf) \X Nat \X Devices)
  /\ failures \in 0..MaxFailures

\* Where the thread is, against the job's status and the pool.
Placed ==
  /\ pc \in InStep => step > 0
  /\ pc \in {"create", "register", "markrunning"} => step = 0
  /\ pc = "create" => status = "absent"
  /\ pc \in {"register", "markrunning"} => status = "queued"
  /\ pc \in InStep \cup {"next", "complete", "abort"} => status = "running"
  /\ pc = "fail" => failures > 0 /\ status \in Active
  /\ pc = "rbfan" => rb <= Len(Current.rollback)
  /\ \A i \in Entries : session[i] \in {"queued", "running"} => pc \in {"fan", "rbfan"}

\* Steps not closed have no context yet; the results of the current step are
\* there from the end of its fan-out until the next step begins.
Ran(k) == k < step \/ (k = step /\ pc \notin InStep)
Collected ==
  /\ \A k \in DOMAIN wf : ~Ran(k) => context[k] = NotRun
  /\ pc \in {"next", "complete"} /\ step > 0 => context[step].devices = got
  /\ pc \in {"begin", "fan"} => got = NoResult /\ once = "none"
  /\ once # "none" => got = NoResult
  /\ pc = "storeonce" => once # "none"
  /\ left # {} => pc \in {"store", "fail", "finally", "done"}
  /\ \A h \in left : got[h] # "none"
  /\ \A h \in Devices : got[h] # "none" => \E i \in Entries : list[i] = h

\* Hosts in failed_devices are not fanned out to, and a host that failed a step
\* for good is there as soon as its result is stored.
Bad(k, h) == Result(k, h) = "bad" /\ GivesUp(wf[k])
GivenUp ==
  /\ pc = "fan" => \A i \in Entries : session[i] = "none" <=> list[i] \in failed
  /\ \A h \in Devices \ left :
       step > 0 /\ got[h] = "bad" /\ GivesUp(Current) => h \in failed
  /\ \A k \in DOMAIN wf, h \in Devices : Bad(k, h) =>
       /\ h \in failed
       /\ k < step => got[h] = "none"
       /\ \A m \in DOMAIN wf : m > k => Result(m, h) = "none"

\* The step s is not for the host h.
Passed(s, h) ==
  \/ ~IsShell(s) /\ s.only # {} /\ h \notin s.only
  \/ ~Holds(s.when, h)

\* A step for devices has a result of every host that had not failed; who is at
\* work on the current one meets its condition, and a device step passes over
\* those only that it is not for.
Reached(R) ==
  (\E g \in Devices : R[g] # "none") =>
    \A i \in Entries : R[list[i]] = "none" => list[i] \in failed
Chosen ==
  /\ Reached(got)
  /\ \A k \in DOMAIN wf : Reached(context[k].devices)
  /\ pc = "fan" => \A i \in Entries :
       /\ session[i] \in {"running", "ok"} => Holds(Current.when, list[i])
       /\ session[i] = "skip" /\ ~IsShell(Current) => Passed(Current, list[i])

\* Every rollback step is tried for every host that failed and that it is for.
Tried(k, r, h) == Due(k, r, h) => <<k, r, h>> \in undone
Undone ==
  /\ \A u \in undone : /\ u[1] <= step
                       /\ u[1] < step => Result(u[1], u[3]) = "bad"
                       /\ u[1] = step => got[u[3]] = "bad"
  /\ pc = "rbfan" => \A i \in Entries : session[i] # "none" => list[i] \in FailedNow
  /\ pc \in {"rollback", "rbfan"} =>
       \A r \in DOMAIN Current.rollback, h \in FailedNow : r < rb => Tried(step, r, h)
  /\ pc = "rbfan" =>
       \A h \in FailedNow : \/ Tried(step, rb, h)
                            \/ \E i \in EntriesOf({h}) : session[i] = "queued"
  /\ pc \in {"storeonce", "close"} /\ GivesUp(Current) =>
       \A r \in DOMAIN Current.rollback, h \in Devices : got[h] = "bad" => Tried(step, r, h)
  /\ \A k \in DOMAIN wf, h \in Devices : Bad(k, h) =>
       \A r \in DOMAIN wf[k].rollback : Tried(k, r, h)

\* A row is the outcome of the last device step, the current one if its result
\* has been stored.
RowFor(c) == IF c = "ok" THEN "success" ELSE "failed"
Fresh(h) ==
  pc \in InStep /\ ~IsShell(Current) /\ h \notin left /\ got[h] \in {"ok", "bad"}
Told(h) ==
  \/ DeviceSteps(h) = {} /\ rows[h] = "none"
  \/ \E k \in DeviceSteps(h) : /\ \A m \in DeviceSteps(h) : m <= k
                               /\ rows[h] = RowFor(Result(k, h))
Rows ==
  Undisturbed => \A h \in Devices :
    IF Fresh(h) THEN rows[h] = RowFor(got[h]) ELSE Told(h)

RunnerInv ==
  /\ Types /\ Cardinality(Open) <= MaxWorkers
  /\ Placed /\ Collected /\ GivenUp /\ Chosen /\ Undone /\ Rows

-----------------------------------------------------------------------------
(* Steps, entries and results                                              *)

\* The step the thread is at is a step of the file.
LEMMA StepThere ==
  ASSUME Types
  PROVE  /\ Len(wf) \in Nat /\ DOMAIN wf = 1..Len(wf) /\ step \in Nat
         /\ step > 0 => step \in DOMAIN wf /\ Current \in Steps
         /\ \A k \in DOMAIN wf : k \in Nat /\ k > 0 /\ wf[k] \in Steps
BY DEF Types, Current

\* Entries of the device list are numbered, and finitely many.
LEMMA EntriesThere ==
  ASSUME Types
  PROVE  /\ IsFiniteSet(Entries) /\ \A i \in Entries : list[i] \in Devices
         /\ IsFiniteSet(Open) /\ Cardinality(Open) \in Nat
<1>1. Len(list) \in Nat /\ Entries = 1..Len(list)
  BY DEF Types, Entries
<1>2. IsFiniteSet(Entries)
  BY <1>1, FS_Interval
<1>3. Open \in SUBSET Entries
  BY DEF Open
<1> QED BY <1>2, <1>3, FS_Subset, FS_CardinalityType DEF Types, Entries

\* The rollback steps of a step are numbered, too.
LEMMA RollbackThere ==
  ASSUME NEW s \in Steps
  PROVE  /\ Len(s.rollback) \in Nat /\ DOMAIN s.rollback = 1..Len(s.rollback)
         /\ \A r \in DOMAIN s.rollback : s.rollback[r] \in RollbackSteps
BY DEF Steps

\* What a step as a whole is said to have returned.
LEMMA RollupType ==
  ASSUME NEW R PROVE Rollup(R) \in {"none", "ok", "bad"}
BY DEF Rollup

\* No result, for every host.
LEMMA NothingRun ==
  /\ NoResult \in [Devices -> Codes] /\ \A h \in Devices : NoResult[h] = "none"
  /\ NotRun.devices = NoResult /\ NotRun.code = "none"
  /\ NotRun \in [code : {"none", "ok", "bad"}, devices : [Devices -> Codes]]
BY DEF NoResult, NotRun, Codes

\* The verdict is a terminal status.
LEMMA VerdictTerminal ==
  ASSUME NEW R, NEW c PROVE Verdict(R, c) \in Statuses
BY DEF Verdict, Statuses, Terminal

-----------------------------------------------------------------------------
(* Types                                                                   *)

\* The failure of a call, or none, keeps the count within its bound.
LEMMA FailuresKept ==
  ASSUME Types, DbOk \/ DbFault PROVE failures' \in 0..MaxFailures
BY RunnerAssumption DEF Types, DbOk, DbFault, RunnerAssumption

\* Every step keeps the shapes.
LEMMA TypesKept ==
  ASSUME Types, Placed, [Next]_vars PROVE Types'
<1> USE DEF database, place, results, fixed
<1>1. DbOk \/ DbFault => failures' \in 0..MaxFailures
  BY FailuresKept
<1>2. DOMAIN wf = 1..Len(wf) /\ Len(wf) \in Nat /\ step \in Nat /\ rb \in Nat
      /\ (step > 0 => step \in DOMAIN wf)
  BY StepThere DEF Types
<1>3. CASE Create
  BY <1>1, <1>3 DEF Create, Types, Goto, Places, InStep, Statuses, Active, Entries
<1>4. CASE Register \/ Finally
  BY <1>4 DEF Register, Finally, Types, Goto, Places, InStep, Entries
<1>5. CASE MarkRunning
  BY <1>1, <1>5 DEF MarkRunning, Types, Goto, Raise, Places, InStep, Statuses, Active, Entries
<1>6. CASE MarkComplete
  BY <1>1, <1>6, VerdictTerminal DEF MarkComplete, Types, Goto, Raise, Places, Entries
<1>7. CASE Abort \/ MarkFailed
  BY <1>1, <1>7 DEF Abort, MarkFailed, Types, Goto, Raise, Places, Statuses, Terminal, Entries
<1>8. CASE NextStep
  <2>1. step' \in 0..Len(wf) /\ pc' \in Places
    BY <1>2, <1>8 DEF NextStep, Types, Places, InStep
  <2>2. got' \in [Devices -> Codes] /\ once' \in {"none", "ok", "bad"}
        /\ session' \in [Entries -> Codes \cup {"queued", "running"}]
    BY <1>8, NothingRun DEF NextStep, Types, Codes
  <2> QED BY <1>8, <2>1, <2>2 DEF NextStep, Types, Entries
<1>9. CASE SkipStep
  <2>1. codes' \in SUBSET {0, 1} /\ pc' \in Places /\ failures' \in 0..MaxFailures
    BY <1>1, <1>9 DEF SkipStep, Types, StoreCode, Goto, Raise, Places
  <2>2. context' \in [DOMAIN wf -> [code : {"none", "ok", "bad"}, devices : [Devices -> Codes]]]
    <3>1. CASE UNCHANGED context
      BY <3>1 DEF Types
    <3>2. CASE ~UNCHANGED context
      <4> DEFINE c == [context[step] EXCEPT !.code = "ok"]
      <4>1. context' = [context EXCEPT ![step] = c] /\ step \in DOMAIN wf
        BY <1>2, <1>9, <3>2 DEF SkipStep, Placed, InStep
      <4>2. c \in [code : {"none", "ok", "bad"}, devices : [Devices -> Codes]]
        BY <4>1 DEF Types
      <4> QED BY <4>1, <4>2 DEF Types
    <3> QED BY <3>1, <3>2
  <2> QED BY <1>9, <2>1, <2>2 DEF SkipStep, Types, Goto, Raise, Entries
<1>10. CASE RunOnce
  BY <1>10 DEF RunOnce, Types, Places, InStep, Entries
<1>11. CASE StoreOnce
  <2>1. codes' \in SUBSET {0, 1} /\ pc' \in Places /\ failures' \in 0..MaxFailures
    BY <1>1, <1>11 DEF StoreOnce, Types, StoreCode, Goto, Raise, Places, InStep
  <2> QED BY <1>11, <2>1 DEF StoreOnce, Types, Goto, Raise, Entries
<1>12. CASE StartFanOut
  <2>1. session' \in [Entries -> Codes \cup {"queued", "running"}]
    BY <1>12 DEF StartFanOut, FanOut, Codes
  <2> QED BY <1>12, <2>1 DEF StartFanOut, FanOut, Types, Places, InStep, Entries
<1>13. CASE FanOutDone
  <2>1. got' \in [Devices -> Codes] /\ left' \in SUBSET Devices
    BY <1>13, EntriesThere DEF FanOutDone
  <2> QED BY <1>13, <2>1 DEF FanOutDone, Goto, Types, Places, InStep, Entries
<1>14. ASSUME NEW h \in Devices, StoreResult(h) PROVE Types'
  <2>1. codes' \in SUBSET {0, 1}
    BY <1>14 DEF StoreResult, StoreCode, Types
  <2>2. pc' \in Places /\ failures' \in 0..MaxFailures /\ UNCHANGED <<step, rb>>
    BY <1>1, <1>14 DEF StoreResult, Raise, Goto, Types, Places, InStep
  <2>3. failed' \in SUBSET Devices /\ left' \in SUBSET Devices
    BY <1>14 DEF StoreResult, Types
  <2>4. rows' \in [Devices -> Row]
    BY <1>14 DEF StoreResult, Types, Row, Outcome
  <2> QED BY <1>14, <2>1, <2>2, <2>3, <2>4 DEF StoreResult, Types, Entries
<1>15. CASE StoreDone
  BY <1>15 DEF StoreDone, Types, Places, InStep, Entries
<1>16. CASE RollbackStep
  <2>1. pc' \in Places /\ rb' \in Nat \ {0}
    BY <1>16 DEF RollbackStep, FanOut, Types, Places, InStep
  <2>2. session' \in [Entries -> Codes \cup {"queued", "running"}]
    BY <1>16 DEF RollbackStep, FanOut, Types, Codes
  <2> QED BY <1>16, <2>1, <2>2 DEF RollbackStep, Types, Entries
<1>17. CASE RollbackFanDone \/ RollbackDone
  <2>1. rb' \in Nat \ {0} /\ pc' \in Places
    BY <1>2, <1>17 DEF RollbackFanDone, RollbackDone, Types, Places, InStep
  <2> QED BY <1>17, <2>1 DEF RollbackFanDone, RollbackDone, Types, Entries
<1>18. CASE CloseStep
  <2> DEFINE c == [code |-> IF once # "none" THEN once ELSE Rollup(got), devices |-> got]
  <2>1. c \in [code : {"none", "ok", "bad"}, devices : [Devices -> Codes]]
    BY RollupType DEF Types
  <2>2. context' = [context EXCEPT ![step] = c]
    BY <1>18 DEF CloseStep
  <2>3. context' \in [DOMAIN wf -> [code : {"none", "ok", "bad"}, devices : [Devices -> Codes]]]
    BY <2>1, <2>2 DEF Types
  <2> QED BY <1>18, <2>3 DEF CloseStep, Goto, Types, Places, InStep, Entries
<1>19. ASSUME NEW i \in Entries, WorkerStart(i) PROVE Types'
  <2>1. i \in Entries /\ list[i] \in Devices
    BY EntriesThere
  <2>2. session' \in [Entries -> Codes \cup {"queued", "running"}]
    BY <1>19 DEF WorkerStart, Starts, Types, Codes
  <2>3. undone' \in SUBSET ((DOMAIN wf) \X Nat \X Devices)
    BY <1>2, <1>19, <2>1 DEF WorkerStart, Types, Placed, InStep
  <2> QED BY <1>19, <2>2, <2>3 DEF WorkerStart, Types, Entries
<1>20. ASSUME NEW i \in Entries, WorkerFinish(i) PROVE Types'
  <2>1. session' \in [Entries -> Codes \cup {"queued", "running"}]
    BY <1>20 DEF WorkerFinish, Types, Codes
  <2> QED BY <1>20, <2>1 DEF WorkerFinish, Types, Entries
<1>21. CASE Delete
  BY <1>2, <1>21 DEF Delete, Types, Entries
<1>22. CASE Restart
  <2>1. session' \in [Entries -> Codes \cup {"queued", "running"}]
    BY <1>22 DEF Restart, Codes
  <2> QED BY <1>1, <1>22, <2>1 DEF Restart, Types, Places, Entries
<1>23. CASE UNCHANGED vars
  BY <1>23 DEF vars, Types, Entries
<1> QED
  BY <1>3, <1>4, <1>5, <1>6, <1>7, <1>8, <1>9, <1>10, <1>11, <1>12, <1>13, <1>14, <1>15,
     <1>16, <1>17, <1>18, <1>19, <1>20, <1>21, <1>22, <1>23 DEF Next, Thread, Pool

-----------------------------------------------------------------------------
(* The pool                                                                *)

\* Who does not start a session leaves no more of them open.
LEMMA PoolKept ==
  ASSUME Types, Cardinality(Open) <= MaxWorkers, [Next]_vars
  PROVE  Cardinality(Open') <= MaxWorkers
<1> USE DEF database, place, results, fixed
<1>1. IsFiniteSet(Open) /\ Cardinality(Open) \in Nat /\ MaxWorkers \in Nat /\ MaxWorkers > 0
  BY EntriesThere, RunnerAssumption DEF RunnerAssumption
<1>2. ASSUME Open' \in SUBSET Open PROVE Cardinality(Open') <= MaxWorkers
  BY <1>1, <1>2, FS_Subset, FS_CardinalityType
<1>3. ASSUME UNCHANGED <<session, list>> PROVE Cardinality(Open') <= MaxWorkers
  BY <1>2, <1>3 DEF Open, Entries
<1>4. CASE Create \/ Register \/ MarkRunning \/ MarkComplete \/ Abort \/ MarkFailed \/ Finally
  BY <1>3, <1>4 DEF Create, Register, MarkRunning, MarkComplete, Abort, MarkFailed, Finally
<1>5. CASE SkipStep \/ RunOnce \/ StoreOnce \/ FanOutDone \/ StoreDone
           \/ \E h \in Devices : StoreResult(h)
  BY <1>3, <1>5 DEF SkipStep, RunOnce, StoreOnce, FanOutDone, StoreDone, StoreResult
<1>6. CASE RollbackFanDone \/ RollbackDone \/ CloseStep \/ Delete \/ UNCHANGED vars
  BY <1>3, <1>6 DEF RollbackFanDone, RollbackDone, CloseStep, Delete, vars
<1>7. CASE NextStep \/ StartFanOut \/ RollbackStep \/ Restart
  <2>1. Open' \in SUBSET Open
    BY <1>7 DEF NextStep, StartFanOut, RollbackStep, FanOut, Restart, Open, Entries
  <2> QED BY <1>2, <2>1
<1>8. ASSUME NEW i \in Entries, WorkerStart(i) PROVE Cardinality(Open') <= MaxWorkers
  <2>1. Open' \in SUBSET (Open \cup {i}) /\ Cardinality(Open) < MaxWorkers
    BY <1>8 DEF WorkerStart, Open, Entries, Types
  <2>2. IsFiniteSet(Open \cup {i}) /\ Cardinality(Open \cup {i}) <= Cardinality(Open) + 1
    BY <1>1, FS_AddElement
  <2>3. Cardinality(Open \cup {i}) \in Nat
    BY <2>2, FS_CardinalityType
  <2>4. Cardinality(Open') <= Cardinality(Open \cup {i}) /\ Cardinality(Open') \in Nat
    BY <2>1, <2>2, FS_Subset, FS_CardinalityType
  <2> QED BY <1>1, <2>1, <2>2, <2>3, <2>4, RunnerAssumption DEF RunnerAssumption
<1>9. ASSUME NEW i \in Entries, WorkerFinish(i) PROVE Cardinality(Open') <= MaxWorkers
  <2>1. Open' \in SUBSET Open
    BY <1>9 DEF WorkerFinish, Open, Entries, Types
  <2> QED BY <1>2, <2>1
<1> QED
  BY <1>4, <1>5, <1>6, <1>7, <1>8, <1>9 DEF Next, Thread, Pool

-----------------------------------------------------------------------------
(* The thread's place                                                      *)

\* Every step goes from one place to the next as Placed has it.
LEMMA PlacedKept ==
  ASSUME Types, Placed, [Next]_vars PROVE Placed'
<1> USE DEF database, place, results, fixed, Current
<1>1. Len(wf) \in Nat /\ step \in Nat /\ failures \in Nat
  BY RunnerAssumption DEF Types, RunnerAssumption
<1>2. DbFault => failures' > 0
  BY <1>1 DEF DbFault
<1>3. CASE Create \/ Register \/ MarkRunning
  BY <1>2, <1>3 DEF Create, Register, MarkRunning, Goto, Raise, Placed, InStep, Entries, Active
<1>4. CASE MarkComplete \/ Abort
  BY <1>2, <1>4 DEF MarkComplete, Abort, Goto, Raise, Placed, InStep, Entries, Active
<1>5. CASE MarkFailed \/ Finally
  BY <1>5 DEF MarkFailed, Finally, Goto, Placed, InStep, Entries
<1>6. CASE NextStep
  BY <1>1, <1>6 DEF NextStep, Placed, InStep, Entries
<1>7. CASE SkipStep \/ StoreOnce
  BY <1>2, <1>7 DEF SkipStep, StoreOnce, Goto, Raise, Placed, InStep, Entries, Active
<1>8. CASE RunOnce \/ StartFanOut
  BY <1>8 DEF RunOnce, StartFanOut, FanOut, Placed, InStep, Entries
<1>9. CASE FanOutDone
  BY <1>9 DEF FanOutDone, Goto, Placed, InStep, Entries
<1>10. CASE StoreDone \/ RollbackDone
  BY <1>10 DEF StoreDone, RollbackDone, Placed, InStep, Entries
<1>11. ASSUME NEW h \in Devices, StoreResult(h) PROVE Placed'
  <2>1. /\ pc = "store" /\ pc' \in {"store", "fail"}
        /\ pc' = "fail" => failures' > 0
        /\ UNCHANGED <<status, step, rb, wf, list, session>>
        /\ status \in Active
    BY <1>2, <1>11 DEF StoreResult, Raise, Goto, Placed, InStep, Active
  <2> QED BY <2>1 DEF Placed, InStep, Entries
<1>12. CASE RollbackStep
  BY <1>12 DEF RollbackStep, FanOut, Placed, InStep, Entries
<1>13. CASE RollbackFanDone
  BY <1>13 DEF RollbackFanDone, Placed, InStep, Entries
<1>14. CASE CloseStep
  BY <1>14 DEF CloseStep, Goto, Placed, InStep, Entries
<1>15. ASSUME NEW i \in Entries, WorkerStart(i) \/ WorkerFinish(i) PROVE Placed'
  <2>1. pc \in {"fan", "rbfan"} /\ UNCHANGED <<status, pc, step, rb, wf, list, failures>>
    BY <1>15 DEF WorkerStart, WorkerFinish, Placed
  <2> QED BY <2>1 DEF Placed, InStep, Entries
<1>16. CASE Delete
  BY <1>16 DEF Delete, Placed, InStep, Entries
<1>17. CASE Restart
  BY <1>17 DEF Restart, Placed, InStep, Entries
<1>18. CASE UNCHANGED vars
  BY <1>18 DEF vars, Placed, InStep, Entries
<1> QED
  BY <1>3, <1>4, <1>5, <1>6, <1>7, <1>8, <1>9, <1>10, <1>11, <1>12, <1>13, <1>14, <1>15,
     <1>16, <1>17, <1>18 DEF Next, Thread, Pool

-----------------------------------------------------------------------------
(* Results                                                                 *)

\* A step that leaves list, results and contexts alone and goes on within the
\* step, or leaves it for good.
Keeps(P) == /\ UNCHANGED <<wf, list, step, context, got, once, left>>
            /\ pc' \in P

\* The end of a fan-out puts its results where Collected wants them.
LEMMA FanOutCollected ==
  ASSUME Types, Placed, Collected, GivenUp, FanOutDone
  PROVE  /\ pc = "fan" /\ pc' = "store" /\ once = "none" /\ got = NoResult
         /\ UNCHANGED <<wf, list, step, rb, status, rows, failed, context, session, once, undone,
                        failures>>
         /\ \A h \in left' : h \in Devices /\ got'[h] # "none"
         /\ \A h \in Devices : got'[h] # "none" => h \in left'
         /\ \A h \in left' : \E i \in Entries : list[i] = h /\ session[i] # "none"
         /\ \A i \in Entries : session[i] # "none" => list[i] \in left'
         /\ \A h \in left' : \E i \in Entries : list[i] = h /\ got'[h] = session[i]
<1> USE DEF database, place, results, fixed
<1>1. /\ pc = "fan" /\ pc' = "store"
      /\ UNCHANGED <<wf, list, step, rb, status, rows, failed, context, session, once, undone,
                     failures>>
  BY DEF FanOutDone, Goto
<1>2. once = "none" /\ got = NoResult
  BY <1>1 DEF Collected
<1> DEFINE Hosts == {list[i] : i \in {e \in Entries : session[e] # "none"}}
<1>3. /\ left' = Hosts
      /\ \A h \in Devices : IF h \in Hosts THEN \E i \in EntriesOf({h}) : got'[h] = session[i]
                                           ELSE got'[h] = "none"
  BY DEF FanOutDone
<1>4. \A h \in Hosts : h \in Devices /\ \E i \in Entries : list[i] = h /\ session[i] # "none"
  BY EntriesThere
<1>5. \A h \in Hosts : \E i \in Entries : list[i] = h /\ got'[h] = session[i]
  BY <1>3, <1>4 DEF EntriesOf
<1>6. \A i, j \in Entries : list[i] = list[j] /\ session[i] # "none" => session[j] # "none"
  BY <1>1 DEF GivenUp
<1>7. \A h \in Hosts : got'[h] # "none"
  BY <1>4, <1>5, <1>6
<1> QED BY <1>1, <1>2, <1>3, <1>4, <1>5, <1>7

\* Such a step keeps what Collected says if it enters no place that asks for more.
LEMMA KeepsCollected ==
  ASSUME Types, Collected, Keeps(Places),
         pc' \in InStep => pc \in InStep,
         pc' \in {"next", "complete"} => pc = "next" \/ step = 0,
         pc' \in {"begin", "fan"} => pc \in {"begin", "fan"},
         pc' = "storeonce" => once # "none",
         left # {} => pc' \in {"store", "fail", "finally", "done"}
  PROVE  Collected'
BY StepThere DEF Keeps, Collected, Ran, Entries

\* Every step keeps them.
LEMMA CollectedKept ==
  ASSUME Types, Placed, Collected, GivenUp, [Next]_vars PROVE Collected'
<1> USE DEF database, place, results, fixed
<1>1. CASE Create \/ Register \/ MarkRunning
  <2>1. /\ pc \in {"create", "register", "markrunning"} /\ step = 0
        /\ pc' \in {"register", "markrunning", "next", "fail", "done"} /\ Keeps(Places)
        /\ left # {} => pc' \in {"store", "fail", "finally", "done"}
    BY <1>1 DEF Create, Register, MarkRunning, Goto, Raise, Placed, Keeps, Places, InStep,
                Collected
  <2> QED BY <2>1, KeepsCollected DEF InStep
<1>2. CASE MarkComplete \/ Abort \/ MarkFailed \/ Finally
  <2>1. pc' \in {"fail", "finally", "done"} /\ Keeps(Places)
    BY <1>2 DEF MarkComplete, Abort, MarkFailed, Finally, Goto, Raise, Keeps, Places
  <2> QED BY <2>1, KeepsCollected DEF InStep
<1>3. CASE NextStep
  <2>1. CASE step < Len(wf)
    <3>1. /\ step' = step + 1 /\ pc' = "begin" /\ got' = NoResult /\ once' = "none"
          /\ UNCHANGED <<wf, list, context, left>> /\ pc = "next" /\ left = {}
      BY <1>3, <2>1 DEF NextStep, Collected
    <3>2. \A k \in DOMAIN wf : ~Ran(k)' => ~Ran(k)
      BY <3>1, StepThere DEF Ran, InStep
    <3>3. \A h \in Devices : got'[h] = "none"
      BY <3>1, NothingRun
    <3> QED BY <3>1, <3>2, <3>3 DEF Collected
  <2>2. CASE ~(step < Len(wf))
    <3>1. pc' = "complete" /\ pc = "next" /\ Keeps(Places) /\ left = {}
      BY <1>3, <2>2 DEF NextStep, Keeps, Places, Collected
    <3> QED BY <3>1, KeepsCollected DEF InStep
  <2> QED BY <2>1, <2>2
<1>4. CASE SkipStep
  <2>1. pc = "begin" /\ UNCHANGED <<wf, list, step, got, once, left>> /\ left = {}
        /\ pc' \in {"next", "fail"} /\ (pc' = "fail" => UNCHANGED context)
        /\ (pc' = "next" => context' = [context EXCEPT ![step].code = "ok"])
    BY <1>4 DEF SkipStep, Goto, Raise, Collected
  <2>2. step \in DOMAIN wf /\ step > 0
    BY <2>1, StepThere DEF Placed, InStep
  <2>3. got = NoResult /\ once = "none" /\ context[step] = NotRun
    BY <2>1, <2>2, StepThere DEF Collected, Ran, InStep
  <2>4. \A k \in DOMAIN wf : ~Ran(k)' => k # step /\ ~Ran(k)
    BY <2>1, StepThere DEF Ran, InStep
  <2>5. \A k \in DOMAIN wf : k # step => context'[k] = context[k]
    BY <2>1 DEF Types
  <2>6. context'[step].devices = context[step].devices
    BY <2>1, <2>2 DEF Types
  <2>7. context'[step].devices = got'
    BY <2>1, <2>3, <2>6, NothingRun
  <2> QED BY <2>1, <2>3, <2>4, <2>5, <2>7, NothingRun DEF Collected
<1>5. CASE RunOnce
  <2>1. /\ pc = "begin" /\ UNCHANGED <<wf, list, step, got, left, context>>
        /\ pc' \in {"rollback", "storeonce"} /\ once' \in {"ok", "bad"}
    BY <1>5 DEF RunOnce
  <2>2. got = NoResult /\ left = {}
    BY <2>1 DEF Collected
  <2> QED BY <2>1, <2>2, NothingRun DEF Collected, Ran, InStep
<1>6. CASE StoreOnce
  <2>1. /\ pc = "storeonce" /\ pc' \in {"abort", "close", "fail"} /\ Keeps(Places) /\ left = {}
    BY <1>6 DEF StoreOnce, Goto, Raise, Keeps, Places, InStep, Collected
  <2> QED BY <2>1, KeepsCollected DEF InStep
<1>7. CASE StartFanOut
  <2>1. pc = "begin" /\ pc' = "fan" /\ Keeps(Places) /\ left = {}
    BY <1>7 DEF StartFanOut, FanOut, Keeps, Places, InStep, Collected
  <2> QED BY <2>1, KeepsCollected DEF InStep
<1>8. CASE FanOutDone
  <2>1. \A k \in DOMAIN wf : ~Ran(k)' => ~Ran(k)
    BY <1>8, FanOutCollected, StepThere DEF Ran, InStep
  <2>2. \A h \in Devices : got'[h] # "none" => \E i \in Entries' : list'[i] = h
    BY <1>8, FanOutCollected DEF Entries
  <2> QED BY <1>8, <2>1, <2>2, FanOutCollected DEF Collected
<1>9. ASSUME NEW h \in Devices, StoreResult(h) PROVE Collected'
  <2>1. /\ pc = "store" /\ pc' \in {"store", "fail"} /\ left' \in SUBSET left
        /\ UNCHANGED <<wf, list, step, context, got, once>>
    BY <1>9 DEF StoreResult, Raise, Goto
  <2>2. \A k \in DOMAIN wf : ~Ran(k)' => ~Ran(k)
    BY <2>1, StepThere DEF Ran, InStep
  <2> QED BY <2>1, <2>2 DEF Collected, Entries
<1>10. CASE StoreDone \/ RollbackFanDone \/ RollbackDone \/ RollbackStep
  <2>1. /\ pc \in {"store", "rollback", "rbfan"} /\ Keeps(Places) /\ left = {}
        /\ pc' \in {"rollback", "rbfan", "close", "storeonce"}
        /\ pc' = "storeonce" => once # "none"
    BY <1>10 DEF StoreDone, RollbackFanDone, RollbackDone, RollbackStep, FanOut, Keeps, Places,
                 InStep, Collected
  <2> QED BY <2>1, KeepsCollected DEF InStep
<1>11. CASE CloseStep
  <2> DEFINE c == [code |-> IF once # "none" THEN once ELSE Rollup(got), devices |-> got]
  <2>1. pc = "close" /\ UNCHANGED <<wf, list, step, got, once, left>> /\ left = {}
        /\ pc' = "next" /\ context' = [context EXCEPT ![step] = c]
    BY <1>11 DEF CloseStep, Goto, Collected
  <2>2. step \in DOMAIN wf /\ step > 0
    BY <2>1, StepThere DEF Placed, InStep
  <2>3. \A k \in DOMAIN wf : ~Ran(k)' => k # step /\ ~Ran(k)
    BY <2>1, StepThere DEF Ran, InStep
  <2>4. \A k \in DOMAIN wf : context'[k] = IF k = step THEN c ELSE context[k]
    BY <2>1 DEF Types
  <2>5. context'[step'].devices = got'
    BY <2>1, <2>2, <2>4
  <2> QED BY <2>1, <2>3, <2>4, <2>5 DEF Collected, Entries
<1>12. ASSUME NEW i \in Entries, WorkerStart(i) \/ WorkerFinish(i) PROVE Collected'
  <2>1. UNCHANGED <<wf, list, step, pc, context, got, once, left>>
    BY <1>12 DEF WorkerStart, WorkerFinish
  <2> QED BY <2>1 DEF Collected, Ran, Entries
<1>13. CASE Delete \/ UNCHANGED vars
  <2>1. UNCHANGED <<wf, list, step, pc, context, got, once, left>>
    BY <1>13 DEF Delete, vars
  <2> QED BY <2>1 DEF Collected, Ran, Entries
<1>14. CASE Restart
  <2>1. pc' = "done" /\ Keeps(Places)
    BY <1>14 DEF Restart, Keeps, Places
  <2> QED BY <2>1, KeepsCollected DEF InStep
<1> QED
  BY <1>1, <1>2, <1>3, <1>4, <1>5, <1>6, <1>7, <1>8, <1>9, <1>10, <1>11, <1>12, <1>13, <1>14
     DEF Next, Thread, Pool

\* A step whose result is not there yet has none of any host.
LEMMA NotYet ==
  ASSUME Types, Collected, NEW k \in DOMAIN wf, ~Ran(k), NEW h \in Devices
  PROVE  Result(k, h) = "none"
BY NothingRun DEF Collected, Result

\* The context after a step was closed, or after a shell step was skipped.
Contexts(R) ==
  \A k \in DOMAIN wf, h \in Devices : Result(k, h)' = IF k = step THEN R[h] ELSE Result(k, h)

\* Closing a step is putting its results in the context.
LEMMA Closing ==
  ASSUME Types, Placed, Collected, CloseStep
  PROVE  /\ pc = "close" /\ pc' = "next" /\ step \in DOMAIN wf /\ step > 0
         /\ UNCHANGED <<status, rows, codes, wf, list, step, rb, failed, session, got, left, once,
                        undone, failures>>
         /\ \A h \in Devices : Result(step, h) = "none"
         /\ Contexts(got) /\ left = {}
<1> DEFINE c == [code |-> IF once # "none" THEN once ELSE Rollup(got), devices |-> got]
<1>1. /\ pc = "close" /\ pc' = "next" /\ context' = [context EXCEPT ![step] = c]
      /\ UNCHANGED <<status, rows, codes, wf, list, step, rb, failed, session, got, left, once,
                     undone, failures>>
  BY DEF CloseStep, Goto, database, fixed, results
<1>2. step \in DOMAIN wf /\ step > 0 /\ ~Ran(step) /\ left = {}
  BY <1>1, StepThere DEF Placed, InStep, Ran, Collected
<1>3. \A k \in DOMAIN wf : context'[k] = IF k = step THEN c ELSE context[k]
  BY <1>1 DEF Types
<1>4. Contexts(got)
  BY <1>3 DEF Contexts, Result
<1> QED BY <1>1, <1>2, <1>4, NotYet

\* Skipping a step leaves no host with a result of it.
LEMMA Skipping ==
  ASSUME Types, Placed, Collected, SkipStep
  PROVE  /\ pc = "begin" /\ pc' \in {"next", "fail"} /\ step \in DOMAIN wf /\ step > 0
         /\ UNCHANGED <<status, rows, wf, list, step, rb, failed, session, got, left, once, undone>>
         /\ pc' = "fail" => failures' > 0
         /\ pc' = "next" => UNCHANGED failures
         /\ \A k \in DOMAIN wf, h \in Devices : Result(k, h)' = Result(k, h)
         /\ IsShell(Current) /\ left = {}
<1>1. /\ pc = "begin" /\ pc' \in {"next", "fail"} /\ (pc' = "fail" => UNCHANGED context /\ DbFault)
      /\ (pc' = "next" => context' = [context EXCEPT ![step].code = "ok"] /\ UNCHANGED failures)
      /\ UNCHANGED <<status, rows, wf, list, step, rb, failed, session, got, left, once, undone>>
      /\ IsShell(Current)
  BY DEF SkipStep, Goto, Raise, fixed, results, DbOk
<1>2. step \in DOMAIN wf /\ step > 0 /\ left = {}
  BY <1>1, StepThere DEF Placed, InStep, Collected
<1>3. DbFault => failures' > 0
  BY RunnerAssumption DEF Types, DbFault, RunnerAssumption
<1>4. \A k \in DOMAIN wf : context'[k].devices = context[k].devices
  <2>1. CASE UNCHANGED context
    BY <2>1
  <2>2. CASE context' = [context EXCEPT ![step].code = "ok"]
    BY <1>2, <2>2 DEF Types
  <2> QED BY <1>1, <2>1, <2>2
<1>5. \A k \in DOMAIN wf, h \in Devices : Result(k, h)' = Result(k, h)
  BY <1>4 DEF Result
<1>6. (pc' = "fail" => failures' > 0) /\ (pc' = "next" => UNCHANGED failures)
  BY <1>1, <1>3
<1> QED BY <1>1, <1>2, <1>5, <1>6

\* Every other step but the close of one leaves the contexts as they are.
LEMMA ContextsStay ==
  ASSUME UNCHANGED <<context, wf>>
  PROVE  \A k, h : Result(k, h)' = Result(k, h) /\ wf'[k] = wf[k] /\ (Bad(k, h)' <=> Bad(k, h))
BY DEF Result, Bad, GivesUp

-----------------------------------------------------------------------------
(* Who is given up                                                         *)

\* A step that leaves results, contexts and failed_devices alone and starts no
\* fan-out keeps them.
LEMMA KeepsGivenUp ==
  ASSUME Types, GivenUp, pc' # "fan",
         UNCHANGED <<wf, list, step, context, got, failed, left>>
  PROVE  GivenUp'
BY DEF GivenUp, Bad, Result, GivesUp, Entries, Current

\* Every step keeps who was given up.
LEMMA GivenUpKept ==
  ASSUME Types, Placed, Collected, GivenUp, [Next]_vars PROVE GivenUp'
<1> USE DEF database, place, results, fixed
<1>1. CASE \/ Create \/ Register \/ MarkRunning \/ MarkComplete \/ Abort \/ MarkFailed \/ Finally
           \/ StoreOnce \/ Restart
  <2>1. pc' # "fan" /\ UNCHANGED <<wf, list, step, context, got, failed, left>>
    BY <1>1 DEF Create, Register, MarkRunning, MarkComplete, Abort, MarkFailed, Finally, StoreOnce,
                Restart, Goto, Raise
  <2> QED BY <2>1, KeepsGivenUp
<1>2. CASE NextStep
  <2>1. CASE step < Len(wf)
    <3>1. /\ step' = step + 1 /\ pc' = "begin" /\ got' = NoResult
          /\ UNCHANGED <<wf, list, context, failed, left>>
      BY <1>2, <2>1 DEF NextStep
    <3>2. \A h \in Devices : got'[h] = "none"
      BY <3>1, NothingRun
    <3> QED BY <3>1, <3>2, ContextsStay DEF GivenUp
  <2>2. CASE ~(step < Len(wf))
    <3>1. pc' # "fan" /\ UNCHANGED <<wf, list, step, context, got, failed, left>>
      BY <1>2, <2>2 DEF NextStep
    <3> QED BY <3>1, KeepsGivenUp
  <2> QED BY <2>1, <2>2
<1>3. CASE SkipStep
  <2>1. \A k \in DOMAIN wf, h \in Devices : Bad(k, h)' <=> Bad(k, h)
    BY <1>3, Skipping DEF Bad, GivesUp
  <2> QED BY <1>3, <2>1, Skipping DEF GivenUp, GivesUp, Current
<1>4. CASE RunOnce \/ StoreDone \/ RollbackFanDone \/ RollbackDone \/ RollbackStep
  <2>1. pc' # "fan" /\ UNCHANGED <<wf, list, step, context, got, failed, left>>
    BY <1>4 DEF RunOnce, StoreDone, RollbackFanDone, RollbackDone, RollbackStep, FanOut
  <2> QED BY <2>1, KeepsGivenUp
<1>5. CASE StartFanOut
  <2>1. /\ pc' = "fan" /\ UNCHANGED <<wf, list, step, context, got, failed, left>>
        /\ \A i \in Entries : session'[i] = IF i \in EntriesOf(Devices \ failed) THEN "queued"
                                                                               ELSE "none"
    BY <1>5 DEF StartFanOut, FanOut
  <2>2. \A i \in Entries : i \in EntriesOf(Devices \ failed) <=> list[i] \notin failed
    BY EntriesThere DEF EntriesOf
  <2>3. \A i \in Entries : session'[i] = "none" <=> list[i] \in failed
    BY <2>1, <2>2
  <2> QED BY <2>1, <2>3, ContextsStay DEF GivenUp, GivesUp, Current, Entries
<1>6. CASE FanOutDone
  <2>1. \A h \in Devices \cap failed : got'[h] = "none"
    BY <1>6, FanOutCollected DEF GivenUp
  <2> QED BY <1>6, <2>1, FanOutCollected, ContextsStay DEF GivenUp
<1>7. ASSUME NEW h \in Devices, StoreResult(h) PROVE GivenUp'
  <2> DEFINE givenUp == IF got[h] = "bad" /\ GivesUp(Current) THEN failed \cup {h} ELSE failed
  <2>1. /\ pc' # "fan" /\ UNCHANGED <<wf, list, step, context, got>>
        /\ \/ failed' = givenUp /\ left' = left \ {h}
           \/ UNCHANGED <<failed, left>>
           \/ failed' = givenUp /\ left' = left
    BY <1>7 DEF StoreResult, Raise, Goto
  <2>2. failed \subseteq failed'
    BY <2>1
  <2>3. \A g \in Devices \ left' :
          step > 0 /\ got[g] = "bad" /\ GivesUp(Current) => g \in failed'
    BY <2>1, <2>2 DEF GivenUp
  <2> QED BY <2>1, <2>2, <2>3, ContextsStay DEF GivenUp, GivesUp, Current
<1>8. CASE CloseStep
  <2>1. \A k \in DOMAIN wf, h \in Devices : Bad(k, h)' =>
          Bad(k, h) \/ (k = step /\ got[h] = "bad" /\ GivesUp(Current))
    BY <1>8, Closing DEF Bad, GivesUp, Contexts, Current
  <2>2. ASSUME NEW k \in DOMAIN wf, NEW h \in Devices, Bad(k, h)'
        PROVE  h \in failed /\ (k < step => got[h] = "none")
    <3>1. CASE Bad(k, h)
      BY <3>1 DEF GivenUp
    <3>2. CASE k = step /\ got[h] = "bad" /\ GivesUp(Current)
      BY <1>8, <3>2, Closing, StepThere DEF GivenUp
    <3> QED BY <2>1, <2>2, <3>1, <3>2
  <2>3. ASSUME NEW k \in DOMAIN wf, NEW h \in Devices, Bad(k, h)', NEW m \in DOMAIN wf, m > k
        PROVE  Result(m, h)' = "none"
    <3>1. CASE k = step
      <4>1. m # step /\ ~Ran(m)
        BY <2>3, <3>1, StepThere DEF Ran
      <4> QED BY <1>8, <4>1, Closing, NotYet DEF Contexts
    <3>2. CASE k # step
      <4>1. Bad(k, h)
        BY <2>1, <2>3, <3>2
      <4>2. CASE m = step
        BY <1>8, <2>2, <2>3, <4>2, Closing DEF Contexts
      <4>3. CASE m # step
        BY <1>8, <2>3, <4>1, <4>3, Closing DEF Contexts, GivenUp
      <4> QED BY <4>2, <4>3
    <3> QED BY <3>1, <3>2
  <2> QED BY <1>8, <2>2, <2>3, Closing DEF GivenUp, GivesUp, Current
<1>9. ASSUME NEW i \in Entries, WorkerStart(i) \/ WorkerFinish(i) PROVE GivenUp'
  <2>1. UNCHANGED <<wf, list, step, pc, context, got, failed, left>>
    BY <1>9 DEF WorkerStart, WorkerFinish
  <2>2. \A e \in Entries : session'[e] = "none" <=> session[e] = "none"
    BY <1>9 DEF WorkerStart, WorkerFinish, Starts, Types
  <2> QED BY <2>1, <2>2, ContextsStay DEF GivenUp, GivesUp, Current, Entries
<1>10. CASE Delete \/ UNCHANGED vars
  <2>1. UNCHANGED <<wf, list, step, pc, context, got, failed, left, session>>
    BY <1>10 DEF Delete, vars
  <2> QED BY <2>1, ContextsStay DEF GivenUp, GivesUp, Current, Entries
<1> QED
  BY <1>1, <1>2, <1>3, <1>4, <1>5, <1>6, <1>7, <1>8, <1>9, <1>10 DEF Next, Thread, Pool

-----------------------------------------------------------------------------
(* Whose results decide                                                    *)

\* What a host is seen to have done is a function of context and condition.
LEMMA HoldsStays ==
  ASSUME UNCHANGED <<context, wf>>, NEW w, NEW h PROVE Holds(w, h)' <=> Holds(w, h)
BY DEF Holds, Resolve

\* A step that starts and ends no session keeps who was reached.
LEMMA KeepsChosen ==
  ASSUME Types, Chosen, UNCHANGED <<wf, list, context, got>>, failed \subseteq failed', pc' # "fan"
  PROVE  Chosen'
BY DEF Chosen, Reached, Entries

\* Every step keeps who was reached and chosen.
LEMMA ChosenKept ==
  ASSUME Types, Placed, Collected, GivenUp, Chosen, [Next]_vars PROVE Chosen'
<1> USE DEF database, place, results, fixed
<1>1. CASE \/ Create \/ Register \/ MarkRunning \/ MarkComplete \/ Abort \/ MarkFailed \/ Finally
           \/ StoreOnce \/ Restart
  <2>1. pc' # "fan" /\ UNCHANGED <<wf, list, context, got, failed>>
    BY <1>1 DEF Create, Register, MarkRunning, MarkComplete, Abort, MarkFailed, Finally, StoreOnce,
                Restart, Goto, Raise
  <2> QED BY <2>1, KeepsChosen
<1>2. CASE RunOnce \/ StoreDone \/ RollbackFanDone \/ RollbackDone \/ RollbackStep
  <2>1. pc' # "fan" /\ UNCHANGED <<wf, list, context, got, failed>>
    BY <1>2 DEF RunOnce, StoreDone, RollbackFanDone, RollbackDone, RollbackStep, FanOut
  <2> QED BY <2>1, KeepsChosen
<1>3. CASE NextStep
  <2>1. pc' # "fan" /\ UNCHANGED <<wf, list, context, failed>> /\ got' \in {got, NoResult}
    BY <1>3 DEF NextStep
  <2> QED BY <2>1, NothingRun DEF Chosen, Reached, Entries
<1>4. CASE SkipStep
  <2>1. pc' # "fan" /\ UNCHANGED <<wf, list, got, failed>>
        /\ \A k \in DOMAIN wf, h \in Devices : context'[k].devices[h] = context[k].devices[h]
    BY <1>4, Skipping DEF Result
  <2> QED BY <2>1, EntriesThere DEF Chosen, Reached, Entries
<1>5. CASE StartFanOut
  <2>1. pc' = "fan" /\ UNCHANGED <<wf, list, context, got, failed>>
        /\ \A i \in Entries : session'[i] \in {"queued", "none"}
    BY <1>5 DEF StartFanOut, FanOut
  <2> QED BY <2>1 DEF Chosen, Reached, Entries
<1>6. CASE FanOutDone
  <2>1. pc' # "fan" /\ UNCHANGED <<wf, list, context, failed>> /\ pc = "fan"
    BY <1>6, FanOutCollected
  <2>2. \A i \in Entries : got'[list[i]] = "none" => session[i] = "none"
    BY <1>6, FanOutCollected
  <2>3. \A i \in Entries : got'[list[i]] = "none" => list[i] \in failed
    BY <2>1, <2>2 DEF GivenUp
  <2> QED BY <2>1, <2>3 DEF Chosen, Reached, Entries
<1>7. ASSUME NEW h \in Devices, StoreResult(h) PROVE Chosen'
  <2>1. pc' # "fan" /\ UNCHANGED <<wf, list, context, got>> /\ failed \subseteq failed'
    BY <1>7 DEF StoreResult, Raise, Goto
  <2> QED BY <2>1, KeepsChosen
<1>8. CASE CloseStep
  <2>1. \A k \in DOMAIN wf, h \in Devices :
          context'[k].devices[h] = IF k = step THEN got[h] ELSE context[k].devices[h]
    BY <1>8, Closing DEF Contexts, Result
  <2>2. pc' # "fan" /\ UNCHANGED <<wf, list, got, failed>>
    BY <1>8, Closing
  <2>3. ASSUME NEW k \in DOMAIN wf PROVE Reached(context[k].devices)'
    <3>1. CASE k = step
      BY <2>1, <2>2, <3>1, EntriesThere DEF Chosen, Reached, Entries
    <3>2. CASE k # step
      BY <2>1, <2>2, <3>2, EntriesThere DEF Chosen, Reached, Entries
    <3> QED BY <3>1, <3>2
  <2> QED BY <2>2, <2>3 DEF Chosen, Reached, Entries
<1>9. ASSUME NEW i \in Entries, WorkerStart(i) PROVE Chosen'
  <2>1. /\ UNCHANGED <<wf, list, step, pc, context, got, failed>> /\ session \in [Entries -> Codes \cup {"queued", "running"}]
        /\ \A e \in Entries : e # i => session'[e] = session[e]
        /\ session'[i] \in Starts(list[i])
    BY <1>9 DEF WorkerStart, Types
  <2>2. pc = "fan" => /\ session'[i] \in {"running", "ok"} => Holds(Current.when, list[i])
                      /\ session'[i] = "skip" => Passed(Current, list[i])
    BY <2>1 DEF Starts, NotFor, Fanned, Passed
  <2>3. pc = "fan" => \A e \in Entries :
          /\ session'[e] \in {"running", "ok"} => Holds(Current.when, list[e])
          /\ session'[e] = "skip" /\ ~IsShell(Current) => Passed(Current, list[e])
    BY <2>1, <2>2 DEF Chosen
  <2> QED BY <2>1, <2>3, HoldsStays DEF Chosen, Reached, Entries, Current, Passed
<1>10. ASSUME NEW i \in Entries, WorkerFinish(i) PROVE Chosen'
  <2>1. /\ UNCHANGED <<wf, list, step, pc, context, got, failed>> /\ session[i] = "running"
        /\ \A e \in Entries : e # i => session'[e] = session[e]
    BY <1>10 DEF WorkerFinish, Types
  <2>2. pc = "fan" /\ ~IsShell(Current) => session'[i] # "skip"
    BY <1>10 DEF WorkerFinish, Fanned, Types
  <2>3. pc = "fan" => \A e \in Entries :
          /\ session'[e] \in {"running", "ok"} => Holds(Current.when, list[e])
          /\ session'[e] = "skip" /\ ~IsShell(Current) => Passed(Current, list[e])
    BY <2>1, <2>2 DEF Chosen
  <2> QED BY <2>1, <2>3, HoldsStays DEF Chosen, Reached, Entries, Current, Passed
<1>11. CASE Delete \/ UNCHANGED vars
  <2>1. UNCHANGED <<wf, list, step, pc, context, got, failed, session>>
    BY <1>11 DEF Delete, vars
  <2> QED BY <2>1, HoldsStays DEF Chosen, Reached, Entries, Current, Passed
<1> QED
  BY <1>1, <1>2, <1>3, <1>4, <1>5, <1>6, <1>7, <1>8, <1>9, <1>10, <1>11 DEF Next, Thread, Pool

-----------------------------------------------------------------------------
(* Who is rolled back                                                      *)

\* What was tried stays so, and conditions on closed steps are decided.
LEMMA TriedStays ==
  ASSUME UNCHANGED <<context, wf>>, undone \subseteq undone'
  PROVE  \A k, r, h : Tried(k, r, h) => Tried(k, r, h)'
<1> SUFFICES ASSUME NEW k, NEW r, NEW h PROVE Tried(k, r, h) => Tried(k, r, h)'
  OBVIOUS
<1> DEFINE w == wf[k].rollback[r].when
<1>1. Resolve(w.of, h)' = Resolve(w.of, h)
  BY DEF Resolve
<1>2. Holds(w, h)' <=> Holds(w, h)
  BY <1>1 DEF Holds
<1>3. Due(k, r, h)' <=> Due(k, r, h)
  BY <1>2 DEF Due
<1> QED BY <1>3 DEF Tried

\* It stays so when a step is closed or skipped: no rollback step of it or of
\* one before it has a condition on it.
LEMMA TriedSettles ==
  ASSUME Types, step > 0, CloseStep \/ SkipStep,
         NEW k \in DOMAIN wf, k <= step, NEW r \in DOMAIN wf[k].rollback, NEW h, Tried(k, r, h)
  PROVE  Tried(k, r, h)'
<1>1. UNCHANGED <<wf, step, undone>> /\ DOMAIN context = DOMAIN wf /\ DOMAIN context' = DOMAIN wf
      /\ \A m \in DOMAIN wf : m # step => context'[m] = context[m]
  BY DEF Types, CloseStep, SkipStep, Goto, Raise, fixed, results
<1>2. k \in Nat /\ step \in Nat /\ wf[k] \in Steps /\ DOMAIN wf \subseteq Nat
  BY StepThere
<1>3. wf[k].rollback[r].when.of \in Nat
  BY <1>2, RollbackThere DEF RollbackSteps
<1> DEFINE w == wf[k].rollback[r].when
<1>4. w.of < k => (Holds(w, h)' <=> Holds(w, h))
  <2> SUFFICES ASSUME w.of < k PROVE Holds(w, h)' <=> Holds(w, h)
    OBVIOUS
  <2>1. w.of # step
    BY <1>2, <1>3
  <2>2. Resolve(w.of, h)' = Resolve(w.of, h)
    BY <1>1, <2>1 DEF Resolve
  <2> QED BY <1>1, <2>2 DEF Holds
<1>5. Due(k, r, h)' <=> Due(k, r, h)
  BY <1>1, <1>4 DEF Due
<1> QED BY <1>1, <1>5 DEF Tried

\* A rollback step that is due passes no device over.
LEMMA DueIsFor ==
  ASSUME Types, Placed, Collected, pc = "rbfan", NEW h \in Devices, Due(step, rb, h)
  PROVE  ~NotFor(h)
<1> DEFINE s == Current.rollback[rb]
<1>1. step \in DOMAIN wf /\ Current \in Steps /\ rb \in DOMAIN Current.rollback /\ step \in Nat
  BY StepThere, RollbackThere DEF Placed, InStep, Types
<1>2. s \in RollbackSteps
  BY <1>1, RollbackThere
<1>3. s.when.of \in Nat /\ s.when.equal \in BOOLEAN
  BY <1>2 DEF RollbackSteps
<1>4. Fanned = s /\ s = wf[step].rollback[rb]
  BY DEF Fanned, Current
<1>5. CASE s.when.of < step
  BY <1>4, <1>5 DEF Due, NotFor
<1>6. CASE ~(s.when.of < step)
  <2>1. s.when.of \in DOMAIN wf => context[s.when.of] = NotRun
    BY <1>1, <1>3, <1>6, StepThere DEF Collected, Ran, InStep
  <2>2. DOMAIN context = DOMAIN wf /\ h # "all"
    BY RunnerAssumption DEF Types, RunnerAssumption
  <2>3. Resolve(s.when.of, h) = "none"
    BY <2>1, <2>2, NothingRun DEF Resolve
  <2>4. ~s.when.equal /\ (~IsShell(s) => s.only = {} \/ h \in s.only)
    BY <1>4, <1>6 DEF Due
  <2>5. Holds(s.when, h)
    BY <1>3, <2>3, <2>4 DEF Holds
  <2> QED BY <1>4, <2>4, <2>5 DEF NotFor
<1> QED BY <1>5, <1>6

\* A step outside of rollbacks that leaves results and contexts alone.
LEMMA KeepsUndone ==
  ASSUME Types, Undone, UNCHANGED <<wf, list, step, context, got, undone>>,
         pc' \notin {"rollback", "rbfan"}, pc' \in {"storeonce", "close"} => pc' = pc
  PROVE  Undone'
BY ContextsStay, TriedStays DEF Undone, Entries, Current, GivesUp

\* The hosts to roll back have a result, hence are in the device list.
LEMMA TargetsListed ==
  ASSUME Types, Collected
  PROVE  \A h \in FailedNow : h \in Devices /\ got[h] = "bad" /\ \E i \in Entries : list[i] = h
BY DEF Types, Collected, FailedNow

\* Every step keeps them.
LEMMA UndoneKept ==
  ASSUME Types, Placed, Collected, GivenUp, Undone, [Next]_vars PROVE Undone'
<1> USE DEF database, place, results, fixed
<1>1. CASE \/ Create \/ Register \/ MarkRunning \/ MarkComplete \/ Abort \/ MarkFailed \/ Finally
           \/ Restart \/ StartFanOut
  <2>1. pc' \notin {"rollback", "rbfan", "storeonce", "close"}
        /\ UNCHANGED <<wf, list, step, context, got, undone>>
    BY <1>1 DEF Create, Register, MarkRunning, MarkComplete, Abort, MarkFailed, Finally,
                Restart, StartFanOut, FanOut, Goto, Raise
  <2> QED BY <2>1, KeepsUndone
<1>2. CASE NextStep
  <2>1. CASE step < Len(wf)
    <3>1. /\ step' = step + 1 /\ pc' = "begin" /\ pc = "next" /\ got' = NoResult
          /\ UNCHANGED <<wf, list, context, undone>>
      BY <1>2, <2>1 DEF NextStep
    <3>2. \A u \in undone : u[1] \in DOMAIN wf /\ u[3] \in Devices
      BY DEF Types
    <3>3. \A u \in undone : u[1] = step => Result(u[1], u[3]) = "bad"
      BY <3>1, <3>2, StepThere DEF Undone, Collected, Result
    <3>4. \A u \in undone : u[1] < step' /\ Result(u[1], u[3])' = "bad"
      BY <3>1, <3>2, <3>3, StepThere, ContextsStay, TriedStays DEF Undone
    <3>5. \A u \in undone : u[1] <= step' /\ u[1] # step'
      BY <3>1, <3>2, <3>4, StepThere
    <3> QED BY <3>1, <3>4, <3>5, ContextsStay, TriedStays DEF Undone
  <2>2. CASE ~(step < Len(wf))
    <3>1. pc' = "complete" /\ UNCHANGED <<wf, list, step, context, got, undone>>
      BY <1>2, <2>2 DEF NextStep
    <3> QED BY <3>1, KeepsUndone
  <2> QED BY <2>1, <2>2
<1>3. CASE SkipStep
  <2>1. \A k \in DOMAIN wf, h \in Devices : Bad(k, h)' <=> Bad(k, h)
    BY <1>3, Skipping DEF Bad, GivesUp
  <2>2. \A u \in undone : u[1] \in DOMAIN wf /\ u[3] \in Devices
    BY DEF Types
  <2>3. ASSUME NEW k \in DOMAIN wf, NEW h \in Devices, Bad(k, h), NEW r \in DOMAIN wf[k].rollback
        PROVE  Tried(k, r, h)'
    <3>1. Ran(k) /\ k <= step /\ step > 0
      BY <1>3, <2>3, NotYet, Skipping, StepThere DEF Bad, Ran
    <3> QED BY <1>3, <2>3, <3>1, TriedSettles DEF Undone
  <2> QED BY <1>3, <2>1, <2>2, <2>3, Skipping DEF Undone
<1>4. CASE RunOnce
  <2>1. /\ pc = "begin" /\ pc' \in {"rollback", "storeonce"} /\ rb' = 1
        /\ UNCHANGED <<wf, list, step, context, got, failed, undone>>
    BY <1>4 DEF RunOnce
  <2>2. \A h \in Devices : got[h] = "none"
    BY <2>1, NothingRun DEF Collected
  <2>3. FailedNow' = {}
    BY <2>1, <2>2 DEF FailedNow, Types
  <2> QED BY <2>1, <2>2, <2>3, ContextsStay, TriedStays DEF Undone
<1>5. CASE StoreOnce
  <2>1. /\ pc = "storeonce" /\ pc' \in {"close", "abort", "fail"}
        /\ UNCHANGED <<wf, list, step, context, got, undone>>
    BY <1>5 DEF StoreOnce, Goto, Raise
  <2> QED BY <2>1, ContextsStay, TriedStays DEF Undone, Current, GivesUp
<1>6. CASE FanOutDone
  <2>1. \A u \in undone : u[1] # step
    BY <1>6, FanOutCollected, NothingRun DEF Undone, Types
  <2> QED BY <1>6, <2>1, FanOutCollected, ContextsStay, TriedStays DEF Undone
<1>7. ASSUME NEW h \in Devices, StoreResult(h) PROVE Undone'
  <2>1. pc' \in {"store", "fail"} /\ UNCHANGED <<wf, list, step, context, got, undone>>
    BY <1>7 DEF StoreResult, Raise, Goto
  <2> QED BY <2>1, KeepsUndone
<1>8. CASE StoreDone
  <2>1. /\ pc = "store" /\ left = {} /\ rb' = 1 /\ step > 0
        /\ UNCHANGED <<wf, list, step, context, got, failed, undone>>
        /\ pc' = IF FailedNow # {} /\ Current.rollback # <<>> THEN "rollback" ELSE "close"
    BY <1>8 DEF StoreDone, Placed, InStep
  <2>2. step \in DOMAIN wf /\ Current \in Steps
    BY <2>1, StepThere
  <2>3. ASSUME pc' = "close", GivesUp(Current), NEW r \in DOMAIN Current.rollback,
               NEW h \in Devices, got[h] = "bad"
        PROVE  FALSE
    <3>1. h \in FailedNow
      BY <2>1, <2>3 DEF GivenUp, FailedNow
    <3>2. Current.rollback # <<>>
      BY <2>3
    <3> QED BY <2>1, <2>3, <3>1, <3>2
  <2>4. pc' = "rollback" => \A r \in DOMAIN Current.rollback : ~(r < rb')
    BY <2>1, <2>2, RollbackThere
  <2> QED BY <2>1, <2>3, <2>4, ContextsStay, TriedStays DEF Undone, Current, GivesUp
<1>9. CASE RollbackStep
  <2> DEFINE s == Current.rollback[rb]
             fan == FailedNow # {} /\ (~IsShell(s) \/ s.run = "per_device")
  <2>1. /\ pc = "rollback" /\ rb <= Len(Current.rollback) /\ step > 0
        /\ UNCHANGED <<wf, list, step, context, got, failed, undone>>
        /\ fan => /\ pc' = "rbfan" /\ UNCHANGED rb
                  /\ session' = [i \in Entries |-> IF i \in EntriesOf(FailedNow) THEN "queued"
                                                                                ELSE "none"]
        /\ ~fan => pc' = "rollback" /\ rb' = rb + 1
    BY <1>9 DEF RollbackStep, FanOut, RollbackTargets, Placed, InStep
  <2>2. step \in DOMAIN wf /\ Current \in Steps
    BY <2>1, StepThere
  <2>3. DOMAIN Current.rollback = 1..Len(Current.rollback) /\ rb \in DOMAIN Current.rollback
    BY <2>1, <2>2, RollbackThere DEF Types
  <2>4. UNCHANGED <<FailedNow, Current>>
    BY <2>1 DEF FailedNow, Current
  <2>5. CASE fan
    <3>1. \A i \in Entries : /\ i \in EntriesOf(FailedNow) <=> list[i] \in FailedNow
                             /\ session'[i] = "queued" <=> list[i] \in FailedNow
                             /\ session'[i] # "none" <=> list[i] \in FailedNow
      BY <2>1, <2>5 DEF EntriesOf
    <3>2. \A h \in FailedNow : \E i \in EntriesOf({h}) : session'[i] = "queued"
      BY <3>1, TargetsListed DEF EntriesOf
    <3>3. UNCHANGED <<Entries, list>> /\ \A h : EntriesOf({h})' = EntriesOf({h})
      BY <2>1 DEF Entries, EntriesOf
    <3>4. pc' = "rbfan" /\ UNCHANGED rb
      BY <2>1, <2>5
    <3>5. \A i \in Entries' : session'[i] # "none" => list'[i] \in FailedNow'
      BY <2>4, <3>1, <3>3
    <3>6. \A h \in FailedNow' : \E i \in EntriesOf({h})' : session'[i] = "queued"
      BY <2>4, <3>2, <3>3
    <3>7. \A r \in DOMAIN Current'.rollback, h \in FailedNow' : r < rb' => Tried(step, r, h)'
      BY <2>1, <2>4, <3>4, TriedStays DEF Undone
    <3> HIDE DEF fan, s
    <3> QED BY <2>1, <3>4, <3>5, <3>6, <3>7, ContextsStay, TriedStays DEF Undone
  <2>6. CASE ~fan
    <3>1. \A h \in FailedNow : Tried(step, rb, h)
      BY <2>6 DEF Tried, Due, Current
    <3>2. \A r \in DOMAIN Current.rollback : r < rb + 1 => r < rb \/ r = rb
      BY <2>3 DEF Types
    <3>3. pc' = "rollback" /\ rb' = rb + 1
      BY <2>1, <2>6
    <3>4. \A r \in DOMAIN Current.rollback, h \in FailedNow : r < rb' => Tried(step, r, h)
      BY <2>1, <3>1, <3>2, <3>3 DEF Undone
    <3> QED BY <2>1, <2>4, <3>3, <3>4, ContextsStay, TriedStays DEF Undone
  <2> QED BY <2>5, <2>6
<1>10. CASE RollbackFanDone
  <2>1. /\ pc = "rbfan" /\ pc' = "rollback" /\ rb' = rb + 1 /\ step > 0 /\ rb <= Len(Current.rollback)
        /\ UNCHANGED <<wf, list, step, context, got, failed, undone>>
        /\ \A i \in Entries : session[i] # "queued"
    BY <1>10 DEF RollbackFanDone, Placed, InStep
  <2>2. step \in DOMAIN wf /\ Current \in Steps
    BY <2>1, StepThere
  <2>3. DOMAIN Current.rollback = 1..Len(Current.rollback) /\ rb \in DOMAIN Current.rollback
    BY <2>1, <2>2, RollbackThere DEF Types
  <2>4. UNCHANGED <<FailedNow, Current>>
    BY <2>1 DEF FailedNow, Current
  <2>5. \A h \in FailedNow : Tried(step, rb, h)
    BY <2>1 DEF Undone, EntriesOf
  <2>6. \A r \in DOMAIN Current.rollback : r < rb + 1 => r < rb \/ r = rb
    BY <2>3 DEF Types
  <2>7. \A r \in DOMAIN Current.rollback, h \in FailedNow : r < rb' => Tried(step, r, h)
    BY <2>1, <2>5, <2>6 DEF Undone
  <2> QED BY <2>1, <2>4, <2>7, ContextsStay, TriedStays DEF Undone
<1>11. CASE RollbackDone
  <2>1. /\ pc = "rollback" /\ rb > Len(Current.rollback) /\ step > 0
        /\ pc' \in {"storeonce", "close"}
        /\ UNCHANGED <<wf, list, step, context, got, failed, undone, left>>
    BY <1>11 DEF RollbackDone, Placed, InStep
  <2>2. step \in DOMAIN wf /\ Current \in Steps /\ left = {}
    BY <2>1, StepThere DEF Collected
  <2>3. \A r \in DOMAIN Current.rollback : r < rb
    BY <2>1, <2>2, RollbackThere DEF Types
  <2>4. ASSUME GivesUp(Current), NEW r \in DOMAIN Current.rollback, NEW h \in Devices, got[h] = "bad"
        PROVE  Tried(step, r, h)
    <3>1. h \in FailedNow
      BY <2>1, <2>2, <2>4 DEF GivenUp, FailedNow
    <3> QED BY <2>1, <2>3, <2>4, <3>1 DEF Undone
  <2> QED BY <2>1, <2>4, ContextsStay, TriedStays DEF Undone, Current, GivesUp
<1>12. CASE CloseStep
  <2>1. \A u \in undone : u[1] \in DOMAIN wf /\ u[3] \in Devices
    BY DEF Types
  <2>2. \A u \in undone : u[1] < step => Result(u[1], u[3])' = "bad"
    BY <1>12, <2>1, Closing, StepThere DEF Contexts, Undone
  <2>3. ASSUME NEW k \in DOMAIN wf, NEW h \in Devices, Bad(k, h)', NEW r \in DOMAIN wf[k].rollback
        PROVE  Tried(k, r, h)'
    <3>1. CASE k = step
      <4>1. got[h] = "bad" /\ GivesUp(Current)
        BY <1>12, <2>3, <3>1, Closing DEF Contexts, Bad, GivesUp, Current
      <4>2. Tried(k, r, h)
        BY <1>12, <2>3, <3>1, <4>1, Closing DEF Undone, Current
      <4> QED BY <1>12, <2>3, <3>1, <4>2, Closing, StepThere, TriedSettles
    <3>2. CASE k # step
      <4>1. Bad(k, h)
        BY <1>12, <2>3, <3>2, Closing DEF Contexts, Bad, GivesUp
      <4>2. Ran(k) /\ k <= step
        BY <1>12, <2>3, <4>1, NotYet, Closing, StepThere DEF Bad, Ran
      <4> QED BY <1>12, <2>3, <4>1, <4>2, Closing, TriedSettles DEF Undone
    <3> QED BY <3>1, <3>2
  <2> QED BY <1>12, <2>2, <2>3, Closing DEF Undone
<1>13. ASSUME NEW i \in Entries, WorkerStart(i) PROVE Undone'
  <2> DEFINE h == list[i]
  <2>1. /\ UNCHANGED <<wf, list, step, rb, pc, context, got, failed>>
        /\ pc \in {"fan", "rbfan"} /\ session[i] = "queued"
        /\ \A e \in Entries : e # i => session'[e] = session[e]
        /\ session'[i] \in Starts(h)
        /\ undone' = IF pc = "rbfan" /\ session'[i] # "skip" THEN undone \cup {<<step, rb, h>>}
                                                             ELSE undone
    BY <1>13 DEF WorkerStart, Types
  <2>2. CASE pc = "fan"
    BY <2>1, <2>2, KeepsUndone
  <2>3. CASE pc = "rbfan"
    <3>1. h \in FailedNow
      BY <2>1, <2>3 DEF Undone
    <3>2. got[h] = "bad" /\ h \in Devices
      BY <3>1, TargetsListed
    <3>3. Due(step, rb, h) => session'[i] # "skip"
      BY <2>1, <2>3, <3>2, DueIsFor DEF Starts
    <3>4. UNCHANGED <<FailedNow, Current, Entries>> /\ \A g : EntriesOf({g})' = EntriesOf({g})
      BY <2>1 DEF FailedNow, Current, Entries, EntriesOf
    <3>5. \A u \in undone' : /\ u[1] <= step
                             /\ u[1] < step => Result(u[1], u[3]) = "bad"
                             /\ u[1] = step => got[u[3]] = "bad"
      BY <2>1, <3>2, StepThere DEF Undone
    <3>6. undone \subseteq undone'
      BY <2>1
    <3>7. \A k, r, g : Tried(k, r, g) => Tried(k, r, g)'
      BY <2>1, <3>6, TriedStays
    <3>8. Tried(step, rb, h)'
      <4>1. Due(step, rb, h)' => Due(step, rb, h)
        BY <2>1 DEF Due, Holds, Resolve
      <4> QED BY <2>1, <2>3, <3>3, <4>1 DEF Tried
    <3>9. \A g \in FailedNow : \/ Tried(step, rb, g)'
                               \/ \E e \in EntriesOf({g}) : session'[e] = "queued"
      <4> SUFFICES ASSUME NEW g \in FailedNow, ~Tried(step, rb, g)'
                   PROVE  \E e \in EntriesOf({g}) : session'[e] = "queued"
        OBVIOUS
      <4>1. PICK e \in EntriesOf({g}) : session[e] = "queued"
        BY <2>1, <2>3, <3>7 DEF Undone
      <4>2. e # i
        BY <2>1, <3>8, <4>1 DEF EntriesOf
      <4> QED BY <2>1, <4>1, <4>2 DEF EntriesOf
    <3>10. \A e \in Entries' : session'[e] # "none" => list'[e] \in FailedNow'
      <4>1. \A e \in Entries : session'[e] # "none" => list[e] \in FailedNow
        BY <2>1, <2>3, <3>1 DEF Undone
      <4> QED BY <2>1, <3>4, <4>1
    <3>11. \A g \in FailedNow' : \/ Tried(step, rb, g)'
                                 \/ \E e \in EntriesOf({g})' : session'[e] = "queued"
      BY <2>1, <3>4, <3>9
    <3>12. \A r \in DOMAIN Current'.rollback, g \in FailedNow' : r < rb' => Tried(step, r, g)'
      BY <2>1, <2>3, <3>4, <3>7 DEF Undone
    <3>13. \A k \in DOMAIN wf, g \in Devices : Bad(k, g)' =>
             \A r \in DOMAIN wf[k].rollback : Tried(k, r, g)'
      BY <2>1, <3>7, ContextsStay DEF Undone
    <3>14. \A u \in undone' : u[1] < step => Result(u[1], u[3])' = "bad"
      BY <2>1, <3>5, ContextsStay
    <3> HIDE DEF h
    <3> QED BY <2>1, <2>3, <3>5, <3>10, <3>11, <3>12, <3>13, <3>14 DEF Undone
  <2> QED BY <2>1, <2>2, <2>3
<1>14. ASSUME NEW i \in Entries, WorkerFinish(i) PROVE Undone'
  <2>1. /\ UNCHANGED <<wf, list, step, rb, pc, context, got, failed, undone>>
        /\ session[i] = "running" /\ \A e \in Entries : e # i => session'[e] = session[e]
    BY <1>14 DEF WorkerFinish, Types
  <2>2. UNCHANGED <<FailedNow, Current, Entries>> /\ \A g : EntriesOf({g})' = EntriesOf({g})
    BY <2>1 DEF FailedNow, Current, Entries, EntriesOf
  <2>3. \A e \in Entries : session[e] = "queued" => session'[e] = "queued"
    BY <2>1
  <2>4. \A e \in Entries : session'[e] # "none" => session[e] # "none"
    BY <2>1
  <2> QED BY <2>1, <2>2, <2>3, <2>4, ContextsStay, TriedStays DEF Undone, EntriesOf, GivesUp
<1>15. CASE Delete \/ UNCHANGED vars
  <2>1. UNCHANGED <<wf, list, step, rb, pc, context, got, failed, undone, session>>
    BY <1>15 DEF Delete, vars
  <2>2. UNCHANGED <<FailedNow, Current, Entries>> /\ \A g : EntriesOf({g})' = EntriesOf({g})
    BY <2>1 DEF FailedNow, Current, Entries, EntriesOf
  <2>3. CASE pc \notin {"rollback", "rbfan"}
    BY <2>1, <2>3, KeepsUndone
  <2>4. CASE pc \in {"rollback", "rbfan"}
    <3>1. \A k, r, h : Tried(k, r, h) => Tried(k, r, h)'
      BY <2>1, TriedStays
    <3>2. \A r \in DOMAIN Current'.rollback, h \in FailedNow' : r < rb' => Tried(step, r, h)'
      BY <2>1, <2>2, <2>4, <3>1 DEF Undone
    <3>3. pc' = pc /\ (pc' = "rbfan" =>
            /\ \A e \in Entries' : session'[e] # "none" => list'[e] \in FailedNow'
            /\ \A h \in FailedNow' : \/ Tried(step, rb, h)'
                                     \/ \E e \in EntriesOf({h})' : session'[e] = "queued")
      BY <2>1, <2>2, <3>1 DEF Undone
    <3>4. \A k \in DOMAIN wf, h \in Devices : Bad(k, h)' =>
            \A r \in DOMAIN wf[k].rollback : Tried(k, r, h)'
      BY <2>1, <3>1, ContextsStay DEF Undone
    <3> QED BY <2>1, <2>4, <3>2, <3>3, <3>4, ContextsStay DEF Undone
  <2> QED BY <2>3, <2>4
<1> QED
  BY <1>1, <1>2, <1>3, <1>4, <1>5, <1>6, <1>7, <1>8, <1>9, <1>10, <1>11, <1>12, <1>13, <1>14,
     <1>15 DEF Next, Thread, Pool

-----------------------------------------------------------------------------
(* Rows                                                                    *)

\* What has failed stays counted.
LEMMA Disturbances ==
  ASSUME Types, [Next]_vars PROVE Undisturbed' => Undisturbed /\ UNCHANGED failures
<1> USE DEF database, place, results, fixed
<1>1. DbOk \/ DbFault => failures' = failures \/ failures' = failures + 1
  BY DEF DbOk, DbFault
<1>2. failures \in Nat
  BY RunnerAssumption DEF Types, RunnerAssumption
<1>3. CASE \/ Create \/ Register \/ MarkRunning \/ NextStep \/ MarkComplete \/ Abort \/ MarkFailed
           \/ Finally
  BY <1>1, <1>2, <1>3 DEF Create, Register, MarkRunning, NextStep, MarkComplete, Abort, MarkFailed,
                         Finally, Raise, Undisturbed
<1>4. CASE \/ SkipStep \/ RunOnce \/ StoreOnce \/ StartFanOut \/ FanOutDone \/ StoreDone
           \/ \E h \in Devices : StoreResult(h)
  BY <1>1, <1>2, <1>4 DEF SkipStep, RunOnce, StoreOnce, StartFanOut, FanOutDone, StoreDone,
                         StoreResult, Raise, Undisturbed
<1>5. CASE RollbackStep \/ RollbackFanDone \/ RollbackDone \/ CloseStep \/ Pool
  BY <1>2, <1>5 DEF RollbackStep, RollbackFanDone, RollbackDone, CloseStep, Pool, WorkerStart,
                    WorkerFinish, Undisturbed
<1>6. CASE Delete \/ Restart \/ UNCHANGED vars
  BY <1>1, <1>2, <1>6 DEF Delete, Restart, vars, Undisturbed
<1> QED BY <1>3, <1>4, <1>5, <1>6 DEF Next, Thread

\* What a row says of the contexts depends on nothing else.
LEMMA ToldStays ==
  ASSUME UNCHANGED wf, NEW h \in Devices, rows'[h] = rows[h],
         \A k \in DOMAIN wf : Result(k, h)' = Result(k, h)
  PROVE  Told(h)' <=> Told(h)
<1>1. DeviceSteps(h)' = DeviceSteps(h)
  BY DEF DeviceSteps
<1>2. \A k \in DeviceSteps(h) : k \in DOMAIN wf
  BY DEF DeviceSteps
<1>3. \A k \in DeviceSteps(h) : rows'[h] = RowFor(Result(k, h)') <=> rows[h] = RowFor(Result(k, h))
  BY <1>2
<1> QED BY <1>1, <1>3 DEF Told, RowFor

\* A step that leaves rows, results and contexts alone and stays within the
\* step, or comes from where no result is fresh.
LEMMA KeepsRows ==
  ASSUME Types, Rows, UNCHANGED <<wf, step, rows, context, got, left>>,
         Undisturbed' => Undisturbed /\ (pc \in InStep <=> pc' \in InStep)
  PROVE  Rows'
<1>1. \A h \in Devices : Told(h)' <=> Told(h)
  BY ToldStays, ContextsStay
<1>2. UNCHANGED Current
  BY DEF Current
<1> QED BY <1>1, <1>2 DEF Rows, Fresh, RowFor

\* Every step keeps the rows and what they tell.
LEMMA RowsKept ==
  ASSUME Types, Placed, Collected, GivenUp, Rows, [Next]_vars PROVE Rows'
<1> USE DEF database, place, results, fixed
<1>0. (Undisturbed' => Undisturbed /\ UNCHANGED failures) /\ (Undisturbed <=> failures = 0)
  BY Disturbances DEF Undisturbed
<1>1. ASSUME DbFault PROVE ~Undisturbed'
  BY <1>1, RunnerAssumption DEF DbFault, Undisturbed, Types, RunnerAssumption
<1>2. CASE \/ Create \/ Register \/ MarkRunning \/ MarkComplete \/ Abort \/ MarkFailed \/ Finally
  <2>1. pc \notin InStep /\ pc' \notin InStep /\ UNCHANGED <<wf, step, rows, context, got, left>>
    BY <1>2 DEF Create, Register, MarkRunning, MarkComplete, Abort, MarkFailed, Finally, Goto,
                Raise, InStep
  <2> QED BY <1>0, <2>1, KeepsRows
<1>3. CASE NextStep
  <2>1. /\ pc \notin InStep /\ UNCHANGED <<wf, rows, context>>
        /\ pc' \notin InStep \/ got' = NoResult
    BY <1>3 DEF NextStep, InStep
  <2>2. \A h \in Devices : ~Fresh(h) /\ ~Fresh(h)'
    BY <2>1, NothingRun DEF Fresh
  <2>3. \A h \in Devices : Told(h)' <=> Told(h)
    BY <2>1, ToldStays, ContextsStay
  <2> QED BY <1>0, <2>2, <2>3 DEF Rows
<1>4. CASE SkipStep
  <2>1. /\ UNCHANGED <<wf, rows, got>> /\ IsShell(Current) /\ UNCHANGED Current
        /\ \A k \in DOMAIN wf, h \in Devices : Result(k, h)' = Result(k, h)
    BY <1>4, Skipping DEF Current
  <2>2. \A h \in Devices : ~Fresh(h) /\ ~Fresh(h)'
    BY <2>1 DEF Fresh
  <2>3. \A h \in Devices : Told(h)' <=> Told(h)
    BY <2>1, ToldStays
  <2> QED BY <1>0, <2>2, <2>3 DEF Rows
<1>5. CASE StoreOnce
  <2>1. /\ pc = "storeonce" /\ UNCHANGED <<wf, rows, context, got>>
    BY <1>5 DEF StoreOnce, Goto, Raise
  <2>2. got = NoResult
    BY <2>1 DEF Collected
  <2>3. \A h \in Devices : ~Fresh(h) /\ ~Fresh(h)'
    BY <2>1, <2>2, NothingRun DEF Fresh
  <2>4. \A h \in Devices : Told(h)' <=> Told(h)
    BY <2>1, ToldStays, ContextsStay
  <2> QED BY <1>0, <2>3, <2>4 DEF Rows
<1>6. CASE \/ RunOnce \/ StartFanOut \/ StoreDone \/ RollbackStep \/ RollbackFanDone \/ RollbackDone
  <2>1. pc \in InStep /\ pc' \in InStep /\ UNCHANGED <<wf, step, rows, context, got, left>>
    BY <1>6 DEF RunOnce, StartFanOut, StoreDone, RollbackStep, RollbackFanDone, RollbackDone,
                FanOut, InStep
  <2> QED BY <1>0, <2>1, KeepsRows
<1>7. CASE FanOutDone
  <2>1. /\ UNCHANGED <<wf, rows, context>> /\ got = NoResult
        /\ \A h \in Devices : got'[h] # "none" => h \in left'
    BY <1>7, FanOutCollected
  <2>2. \A h \in Devices : ~Fresh(h) /\ ~Fresh(h)'
    BY <2>1, NothingRun DEF Fresh
  <2>3. \A h \in Devices : Told(h)' <=> Told(h)
    BY <2>1, ToldStays, ContextsStay
  <2> QED BY <1>0, <2>2, <2>3 DEF Rows
<1>8. ASSUME NEW h \in Devices, StoreResult(h) PROVE Rows'
  <2> DEFINE row == IF got[h] = "bad" THEN "failed" ELSE "success"
  <2> SUFFICES ASSUME Undisturbed' PROVE Rows'
    BY DEF Rows
  <2>1. UNCHANGED failures
    BY <1>0
  <2>2. /\ pc = "store" /\ pc' = "store" /\ h \in left /\ left' = left \ {h}
        /\ UNCHANGED <<wf, step, context, got>>
        /\ rows' = IF HasRow(h) THEN [rows EXCEPT ![h] = row] ELSE rows
    BY <1>1, <1>8 DEF StoreResult, Raise
  <2>3. UNCHANGED Current
    BY <2>2 DEF Current
  <2>4. got[h] \in {"ok", "bad", "skip"} /\ Undisturbed
    BY <1>0, <2>2 DEF Collected, Types, Codes
  <2>5. ASSUME NEW g \in Devices, g # h
        PROVE  IF Fresh(g)' THEN rows'[g] = RowFor(got[g])' ELSE Told(g)'
    <3>1. rows'[g] = rows[g]
      BY <2>2, <2>5 DEF Types
    <3>2. Told(g)' <=> Told(g)
      BY <2>2, <3>1, ToldStays, ContextsStay
    <3>3. Fresh(g)' <=> Fresh(g)
      BY <2>2, <2>3, <2>5 DEF Fresh
    <3> QED BY <2>2, <2>4, <3>1, <3>2, <3>3 DEF Rows
  <2>6. CASE HasRow(h)
    <3>1. rows'[h] = RowFor(got[h])
      BY <2>2, <2>4, <2>6 DEF Types, RowFor, HasRow
    <3>2. Fresh(h)'
      BY <2>2, <2>3, <2>4, <2>6 DEF Fresh, HasRow, InStep
    <3> QED BY <2>2, <2>5, <3>1, <3>2 DEF Rows
  <2>7. CASE ~HasRow(h)
    <3>1. rows'[h] = rows[h]
      BY <2>2, <2>7
    <3>2. ~Fresh(h) /\ ~Fresh(h)'
      BY <2>2, <2>3, <2>7 DEF Fresh, HasRow
    <3>3. Told(h)'
      BY <2>2, <2>4, <3>1, <3>2, ToldStays, ContextsStay DEF Rows
    <3> QED BY <2>5, <3>2, <3>3 DEF Rows
  <2> QED BY <2>6, <2>7
<1>9. CASE CloseStep
  <2> SUFFICES ASSUME Undisturbed', NEW h \in Devices
               PROVE  ~Fresh(h)' /\ Told(h)'
    BY DEF Rows
  <2>1. ~Fresh(h)'
    BY <1>9, Closing DEF Fresh, InStep
  <2>2. rows'[h] = rows[h] /\ UNCHANGED <<wf, step, got>> /\ step \in DOMAIN wf
    BY <1>9, Closing
  <2>3. \A k \in DOMAIN wf : Result(k, h)' = IF k = step THEN got[h] ELSE Result(k, h)
    BY <1>9, Closing DEF Contexts
  <2>4. Result(step, h) = "none"
    BY <1>9, Closing
  <2>5. CASE Fresh(h)
    <3>1. rows[h] = RowFor(got[h]) /\ ~IsShell(wf[step]) /\ got[h] \in {"ok", "bad"}
      BY <1>0, <2>5 DEF Rows, Fresh, Current
    <3>2. step \in DeviceSteps(h)' /\ rows'[h] = RowFor(Result(step, h)')
      BY <2>2, <2>3, <3>1 DEF DeviceSteps
    <3>3. ASSUME NEW m \in DOMAIN wf, m > step PROVE m \notin DeviceSteps(h)'
      <4>1. ~Ran(m) /\ m # step
        BY <2>2, <3>3, StepThere DEF Ran
      <4>2. Result(m, h)' = "none"
        BY <2>3, <4>1, NotYet
      <4> QED BY <4>2 DEF DeviceSteps
    <3>4. \A m \in DeviceSteps(h)' : m <= step
      BY <2>2, <3>3, StepThere DEF DeviceSteps
    <3> QED BY <2>1, <2>2, <3>2, <3>4 DEF Told, RowFor
  <2>6. CASE ~Fresh(h)
    <3>1. Told(h)
      BY <1>0, <2>6 DEF Rows
    <3>2. IsShell(wf[step]) \/ got[h] \notin {"ok", "bad"}
      BY <1>9, <2>6, Closing DEF Fresh, InStep, Current
    <3>3. DeviceSteps(h)' = DeviceSteps(h)
      BY <2>2, <2>3, <2>4, <3>2 DEF DeviceSteps
    <3>4. \A k \in DeviceSteps(h) : Result(k, h)' = Result(k, h)
      BY <2>3, <2>4 DEF DeviceSteps
    <3>5. \A k \in DeviceSteps(h) :
            rows'[h] = RowFor(Result(k, h)') <=> rows[h] = RowFor(Result(k, h))
      BY <2>2, <3>4
    <3> QED BY <2>1, <2>2, <3>1, <3>3, <3>5 DEF Told, RowFor
  <2> QED BY <2>1, <2>5, <2>6
<1>10. ASSUME NEW i \in Entries, WorkerStart(i) \/ WorkerFinish(i) PROVE Rows'
  <2>1. UNCHANGED <<wf, step, pc, rows, context, got, left>>
    BY <1>10 DEF WorkerStart, WorkerFinish
  <2> QED BY <1>0, <2>1, KeepsRows
<1>11. CASE Delete \/ UNCHANGED vars
  <2>1. UNCHANGED <<wf, step, pc, rows, context, got, left>>
    BY <1>11 DEF Delete, vars
  <2> QED BY <1>0, <2>1, KeepsRows
<1>12. CASE Restart
  BY <1>1, <1>12 DEF Restart, Rows
<1> QED
  BY <1>2, <1>3, <1>4, <1>5, <1>6, <1>7, <1>8, <1>9, <1>10, <1>11, <1>12 DEF Next, Thread, Pool

-----------------------------------------------------------------------------
(* Theorems                                                                *)

\* Every workflow begins where the invariant holds.
LEMMA RunnerInit == Init => RunnerInv
<1> SUFFICES ASSUME Init PROVE RunnerInv
  OBVIOUS
<1>1. wf \in Seq(Steps) /\ list \in Seq(Devices)
  BY RunnerAssumption DEF Init, RunnerAssumption
<1>2. /\ context = [k \in DOMAIN wf |-> NotRun] /\ pc = "create" /\ step = 0 /\ got = NoResult
      /\ left = {} /\ undone = {} /\ session = [i \in Entries |-> "none"] /\ once = "none"
      /\ rows = NoResult
  BY DEF Init
<1>3. Types
  <2>1. context \in [DOMAIN wf -> [code : {"none", "ok", "bad"}, devices : [Devices -> Codes]]]
    BY <1>2, NothingRun
  <2>2. rows \in [Devices -> Row]
    BY <1>2 DEF NoResult, Row
  <2>3. session \in [Entries -> Codes \cup {"queued", "running"}]
    BY <1>2 DEF Codes
  <2>4. Len(wf) \in Nat /\ MaxFailures \in Nat
    BY <1>1, RunnerAssumption DEF RunnerAssumption
  <2>5. /\ status \in Statuses /\ codes \in SUBSET {0, 1} /\ registered \in BOOLEAN /\ pc \in Places
        /\ failed \in SUBSET Devices
    BY DEF Init, Statuses, Places
  <2>6. accepted \in 0..(Len(wf) + 1) /\ step \in 0..Len(wf) /\ rb \in Nat \ {0}
        /\ failures \in 0..MaxFailures
    BY <2>4 DEF Init
  <2>7. got \in [Devices -> Codes] /\ left \in SUBSET Devices /\ once \in {"none", "ok", "bad"}
        /\ undone \in SUBSET ((DOMAIN wf) \X Nat \X Devices)
    BY <1>2, NothingRun
  <2> QED BY <1>1, <2>1, <2>2, <2>3, <2>5, <2>6, <2>7 DEF Types
<1>4. Cardinality(Open) <= MaxWorkers
  <2>1. Open = {}
    BY <1>2 DEF Open
  <2> QED BY <2>1, FS_EmptySet, RunnerAssumption DEF RunnerAssumption
<1>5. Placed
  BY <1>2 DEF Init, Placed, InStep
<1>6. \A k \in DOMAIN wf, h \in Devices : Result(k, h) = "none"
  BY <1>2, NothingRun DEF Result
<1>7. Collected
  BY <1>2, NothingRun DEF Collected
<1>8. GivenUp
  BY <1>2, <1>6 DEF GivenUp, Bad
<1>9. Chosen
  BY <1>2, <1>6, NothingRun DEF Chosen, Reached, Result
<1>10. Undone
  BY <1>2, <1>6, NothingRun DEF Undone, Bad
<1>11. Rows
  BY <1>2, <1>6, NothingRun DEF Rows, Fresh, Told, DeviceSteps, InStep
<1> QED BY <1>3, <1>4, <1>5, <1>7, <1>8, <1>9, <1>10, <1>11 DEF RunnerInv

\* Every step keeps the invariant.
LEMMA RunnerNext == RunnerInv /\ [Next]_vars => RunnerInv'
BY TypesKept, PoolKept, PlacedKept, CollectedKept, GivenUpKept, ChosenKept, UndoneKept, RowsKept
   DEF RunnerInv

\* The invariant holds for any workflow file and devices.
THEOREM RunnerInvariance == Spec => []RunnerInv
BY RunnerInit, RunnerNext, PTL DEF Spec

\* The variables keep their shapes, and the pool its bound.
THEOREM RunnerTypes == Spec => []TypeOK
<1>1. RunnerInv => TypeOK
  BY DEF RunnerInv, Types, TypeOK, Places, InStep
<1> QED BY <1>1, RunnerInvariance, PTL

\* A device that failed a step whose on_error is not "continue" is not touched
\* by a later step (workflow_runner.py: failed_devices).
THEOREM LeftAlone == Spec => []FailedDevicesAreLeftAlone
<1>1. RunnerInv => FailedDevicesAreLeftAlone
  <2> SUFFICES ASSUME RunnerInv, NEW k \in DOMAIN wf, NEW h \in Devices,
                      Result(k, h) = "bad", wf[k].action # "continue"
               PROVE  /\ \A m \in DOMAIN wf : m > k => Result(m, h) = "none"
                      /\ pc = "fan" /\ step > k =>
                           \A i \in EntriesOf({h}) : session[i] = "none"
    BY DEF FailedDevicesAreLeftAlone
  <2>1. Bad(k, h)
    BY DEF Bad, GivesUp
  <2>2. h \in failed /\ \A m \in DOMAIN wf : m > k => Result(m, h) = "none"
    BY <2>1 DEF RunnerInv, GivenUp
  <2> QED BY <2>2 DEF RunnerInv, GivenUp, EntriesOf
<1> QED BY <1>1, RunnerInvariance, PTL

\* Rollback steps are tried for hosts that failed the step, and each of them for
\* each such host it is for by the time the step is closed.
THEOREM RollbackFits == Spec => []RollbackFitsFailures
<1>1. RunnerInv => RollbackFitsFailures
  <2> SUFFICES ASSUME RunnerInv PROVE RollbackFitsFailures
    OBVIOUS
  <2>1. ASSUME NEW k \in DOMAIN wf, NEW h \in Devices, Result(k, h) = "bad",
               wf[k].action # "continue", NEW r \in DOMAIN wf[k].rollback, Due(k, r, h)
        PROVE  <<k, r, h>> \in undone
    BY <2>1 DEF RunnerInv, Undone, Tried, Bad, GivesUp
  <2> QED BY <2>1 DEF RunnerInv, Undone, RollbackFitsFailures
<1> QED BY <1>1, RunnerInvariance, PTL

\* The last of the steps a row tells of is the one it tells of.
LEMMA TheLast ==
  ASSUME NEW S \in SUBSET Nat, NEW k \in S, \A m \in S : m <= k
  PROVE  (CHOOSE x \in S : \A m \in S : m <= x) = k
<1>1. \A x \in S : (\A m \in S : m <= x) => x = k
  OBVIOUS
<1> QED BY <1>1

\* The row of a host is the outcome of the last device step that concerned it.
THEOREM RowIsLast == Spec => []RowIsLastResult
<1>1. RunnerInv => RowIsLastResult
  <2> SUFFICES ASSUME RunnerInv, Undisturbed, pc \in {"next", "complete", "finally"},
                      NEW h \in Devices
               PROVE  rows[h] = IF DeviceSteps(h) = {} THEN "none"
                                ELSE LET last == CHOOSE k \in DeviceSteps(h) :
                                                   \A m \in DeviceSteps(h) : m <= k
                                     IN IF Result(last, h) = "ok" THEN "success" ELSE "failed"
    BY DEF RowIsLastResult
  <2>1. Told(h)
    BY DEF RunnerInv, Rows, Fresh, InStep
  <2>2. CASE DeviceSteps(h) = {}
    BY <2>1, <2>2 DEF Told
  <2>3. CASE DeviceSteps(h) # {}
    <3>1. PICK k \in DeviceSteps(h) : /\ \A m \in DeviceSteps(h) : m <= k
                                      /\ rows[h] = RowFor(Result(k, h))
      BY <2>1, <2>3 DEF Told
    <3>2. DeviceSteps(h) \in SUBSET Nat
      BY StepThere DEF DeviceSteps, RunnerInv
    <3>3. (CHOOSE x \in DeviceSteps(h) : \A m \in DeviceSteps(h) : m <= x) = k
      BY <3>1, <3>2, TheLast
    <3> QED BY <2>3, <3>1, <3>3 DEF RowFor
  <2> QED BY <2>2, <2>3
<1> QED BY <1>1, RunnerInvariance, PTL

\* A condition on a step for devices is decided by each device's own result, both
\* ways for device steps; a script that runs on a device meets its condition.
THEOREM OwnResult == Spec => []OwnResultDecides
<1>1. RunnerInv => OwnResultDecides
  <2> DEFINE k == Current.when.of
             R(i) == Result(k, list[i])
  <2> SUFFICES ASSUME RunnerInv, pc = "fan", NEW i \in Entries, session[i] # "none",
                      k \in 1..(step - 1), NEW g \in Devices, Result(k, g) # "none"
               PROVE  /\ session[i] \in {"running", "ok"} => Meets(Current.when, R(i))
                      /\ /\ session[i] = "skip" /\ ~IsShell(Current)
                         /\ Current.only = {} \/ list[i] \in Current.only
                         => ~Meets(Current.when, R(i))
    BY DEF OwnResultDecides
  <2>1. k \in DOMAIN wf /\ k # 0 /\ step \in DOMAIN wf /\ Current \in Steps
    BY StepThere DEF RunnerInv, Placed, InStep
  <2>2. list[i] \in Devices /\ list[i] # "all"
    BY EntriesThere, RunnerAssumption DEF RunnerInv, RunnerAssumption
  <2>3. R(i) \in Codes /\ k \in DOMAIN context
    BY <2>1, <2>2 DEF RunnerInv, Types, Result
  <2>4. R(i) # "none"
    BY <2>1 DEF RunnerInv, Chosen, Reached, GivenUp, Result
  <2>5. Current.when.equal \in BOOLEAN
    BY <2>1 DEF Steps
  <2>6. Holds(Current.when, list[i]) <=> Meets(Current.when, R(i))
    BY <2>1, <2>2, <2>3, <2>4, <2>5 DEF Holds, Resolve, Result, Codes, Meets
  <2>7. /\ session[i] \in {"running", "ok"} => Holds(Current.when, list[i])
        /\ session[i] = "skip" /\ ~IsShell(Current) => Passed(Current, list[i])
    BY DEF RunnerInv, Chosen
  <2> QED BY <2>6, <2>7 DEF Passed
<1> QED BY <1>1, RunnerInvariance, PTL

-----------------------------------------------------------------------------
(* A workflow job is a job                                                 *)

\* Every step is a step of the lifecycle, or none of the job's.
LEMMA LifecycleStep ==
  ASSUME RunnerInv, [Next]_vars
  PROVE  [Lifecycle!LifecycleNext]_(Lifecycle!lifecycleVars)
<1> USE DEF database, place, results, fixed, Lifecycle!lifecycleVars
<1> DEFINE S == [j \in {"job"} |-> status]
           R == [j \in {"job"} |-> rows]
<1>0. Types /\ Placed /\ Collected
  BY DEF RunnerInv
<1>1. CASE Create
  <2>1. CASE UNCHANGED status
    BY <1>1, <2>1 DEF Create
  <2>2. CASE ~UNCHANGED status
    <3>1. status = "absent" /\ status' = "queued" /\ UNCHANGED rows
      BY <1>0, <1>1, <2>2 DEF Create, Goto, Placed
    <3>2. S["job"] = "absent" /\ S' = [S EXCEPT !["job"] = "queued"] /\ R' = R
      BY <3>1
    <3>3. Lifecycle!Accept("job")
      BY <3>2 DEF Lifecycle!Accept
    <3> QED BY <3>3 DEF Lifecycle!LifecycleNext
  <2> QED BY <2>1, <2>2
<1>2. CASE MarkRunning
  <2>1. CASE UNCHANGED status
    BY <1>2, <2>1 DEF MarkRunning
  <2>2. CASE ~UNCHANGED status
    <3>1. status = "queued" /\ status' = "running" /\ UNCHANGED rows
      BY <1>0, <1>2, <2>2 DEF MarkRunning, Goto, Placed
    <3>2. S["job"] = "queued" /\ S' = [S EXCEPT !["job"] = "running"] /\ R' = R
      BY <3>1
    <3>3. Lifecycle!Start("job")
      BY <3>2 DEF Lifecycle!Start
    <3> QED BY <3>3 DEF Lifecycle!LifecycleNext
  <2> QED BY <2>1, <2>2
<1>3. CASE MarkComplete
  <2>1. CASE UNCHANGED status
    BY <1>3, <2>1 DEF MarkComplete
  <2>2. CASE ~UNCHANGED status
    <3>1. status = "running" /\ status' = Verdict(rows, codes) /\ UNCHANGED rows
      BY <1>0, <1>3, <2>2 DEF MarkComplete, Goto, Placed
    <3>2. Verdict(rows, codes) = Lifecycle!Verdict(R["job"], codes)
      BY DEF Verdict, Lifecycle!Verdict, WithRow, Lifecycle!WithRow
    <3>3. /\ S["job"] = "running" /\ R' = R
          /\ S' = [S EXCEPT !["job"] = Lifecycle!Verdict(R["job"], codes)]
      BY <3>1, <3>2
    <3>4. codes \in SUBSET {0, 1}
      BY <1>0 DEF Types
    <3>5. Lifecycle!Finish("job")
      BY <3>3, <3>4 DEF Lifecycle!Finish
    <3> QED BY <3>5 DEF Lifecycle!LifecycleNext
  <2> QED BY <2>1, <2>2
<1>4. CASE Abort
  <2>1. CASE UNCHANGED status
    BY <1>4, <2>1 DEF Abort
  <2>2. CASE ~UNCHANGED status
    <3>1. status = "running" /\ status' = "failed" /\ UNCHANGED rows
      BY <1>0, <1>4, <2>2 DEF Abort, Goto, Placed
    <3>2. S["job"] \in Active /\ S' = [S EXCEPT !["job"] = "failed"] /\ R' = R
      BY <3>1 DEF Active
    <3>3. Lifecycle!Abandon("job", "failed")
      BY <3>2 DEF Lifecycle!Abandon, Lifecycle!Active, Active
    <3> QED BY <3>3 DEF Lifecycle!LifecycleNext
  <2> QED BY <2>1, <2>2
<1>5. CASE MarkFailed
  <2>1. CASE UNCHANGED status
    BY <1>5, <2>1 DEF MarkFailed
  <2>2. CASE ~UNCHANGED status
    <3>1. status \in Active /\ status' = "failed" /\ UNCHANGED rows
      BY <1>0, <1>5, <2>2 DEF MarkFailed, Goto, Placed
    <3>2. S["job"] \in Active /\ S' = [S EXCEPT !["job"] = "failed"] /\ R' = R
      BY <3>1
    <3>3. Lifecycle!Abandon("job", "failed")
      BY <3>2 DEF Lifecycle!Abandon, Lifecycle!Active, Active
    <3> QED BY <3>3 DEF Lifecycle!LifecycleNext
  <2> QED BY <2>1, <2>2
<1>6. ASSUME NEW h \in Devices, StoreResult(h)
      PROVE  [Lifecycle!LifecycleNext]_(Lifecycle!lifecycleVars)
  <2> DEFINE row == IF got[h] = "bad" THEN "failed" ELSE "success"
  <2>1. status = "running" /\ status' = status /\ rows' \in {rows, [rows EXCEPT ![h] = row]}
    BY <1>0, <1>6 DEF StoreResult, Placed, InStep
  <2>2. CASE rows' = rows
    BY <2>1, <2>2
  <2>3. CASE rows' = [rows EXCEPT ![h] = row]
    <3>1. S["job"] = "running" /\ S' = S /\ R' = [R EXCEPT !["job"][h] = row]
      BY <2>1, <2>3
    <3>2. Lifecycle!Report("job", h, row)
      BY <3>1 DEF Lifecycle!Report
    <3> QED BY <3>2 DEF Lifecycle!LifecycleNext, Lifecycle!Outcome
  <2> QED BY <2>1, <2>2, <2>3
<1>7. CASE Register \/ NextStep \/ Finally \/ SkipStep \/ RunOnce \/ StoreOnce \/ StartFanOut
  BY <1>7 DEF Register, NextStep, Finally, SkipStep, RunOnce, StoreOnce, StartFanOut
<1>8. CASE \/ FanOutDone \/ StoreDone \/ RollbackStep \/ RollbackFanDone \/ RollbackDone \/ CloseStep
  BY <1>8 DEF FanOutDone, StoreDone, RollbackStep, RollbackFanDone, RollbackDone, CloseStep
<1>9. CASE Pool \/ Delete \/ Restart \/ UNCHANGED vars
  BY <1>9 DEF Pool, WorkerStart, WorkerFinish, Delete, Restart, vars
<1> QED
  BY <1>1, <1>2, <1>3, <1>4, <1>5, <1>6, <1>7, <1>8, <1>9 DEF Next, Thread

\* To those that poll it, a workflow is a job like any other, whatever fails
\* (_run_workflow_job does nothing after mark_complete that can raise).
THEOREM RunnerImplementsLifecycle == Spec => ImplementsLifecycle
<1>1. Init => Lifecycle!LifecycleInit
  BY DEF Init, NoResult, Lifecycle!LifecycleInit
<1>2. RunnerInv /\ [Next]_vars => [Lifecycle!LifecycleNext]_(Lifecycle!lifecycleVars)
  BY LifecycleStep
<1> QED BY <1>1, <1>2, RunnerInvariance, PTL DEF Spec, ImplementsLifecycle, Lifecycle!LifecycleSpec
=============================================================================
