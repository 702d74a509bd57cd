------------------------- MODULE JobExecutorProofs -------------------------
(***************************************************************************)
(* Theorems about JobExecutor, for all jobs, devices, handlers, pool and   *)
(* queue sizes and any number of database faults and restarts.             *)
(***************************************************************************)
EXTENDS JobExecutorInvariant, TLAPS, FiniteSetTheorems

-----------------------------------------------------------------------------
(* Lemmas on the operators                                                 *)

\* mark_complete always writes a terminal status.
LEMMA VerdictIsTerminal ==
  ASSUME NEW R, NEW C
  PROVE  Verdict(R, C) \in Terminal
BY DEF Verdict, Terminal

\* A busy handler serves a job; moving it on keeps its request well formed.
LEMMA BusyHandler ==
  ASSUME NEW r \in Requests, r.op # "idle",
         NEW o \in {"exists", "depth", "register", "create", "start",
                    "cancellable", "signal"}
  PROVE  r.job \in Jobs /\ [r EXCEPT !.op = o] \in Requests
BY DEF Requests, Idle

-----------------------------------------------------------------------------
(* Types and slots                                                         *)

\* The initial states are well typed and hold no slot.
LEMMA InitTypes == Init => TypeOK /\ SlotConservation
<1> SUFFICES ASSUME Init PROVE TypeOK /\ SlotConservation
  OBVIOUS
<1> USE ExecutorAssumption DEF ExecutorAssumption
<1>1. TypeOK
  BY DEF Init, TypeOK, Statuses, Row, ThreadPcs, FutStates, Requests, Idle
<1>2. Holders = {}
  BY DEF Init, Holders, Holding
<1>3. SlotConservation
  BY <1>2, FS_EmptySet DEF Init, SlotConservation
<1> QED BY <1>1, <1>3

\* The holders of slots are counted by a natural number.
LEMMA HoldersFinite == IsFiniteSet(Holders) /\ Cardinality(Holders) \in Nat
<1>1. IsFiniteSet(Holders)
  BY ExecutorAssumption, FS_Subset DEF ExecutorAssumption, Holders
<1> QED BY <1>1, FS_CardinalityType

\* No step of an HTTP handler breaks a type.
LEMMA HandlerTypes ==
  ASSUME TypeOK, NEW c \in Clients, Handler(c)
  PROVE  TypeOK'
<1> USE ExecutorAssumption DEF ExecutorAssumption, TypeOK, Entries
<1> DEFINE k == req[c].job
<1>1. ASSUME NEW j \in Jobs, PostArrive(c, j) \/ DeleteArrive(c, j) PROVE TypeOK'
  <2>1. \A o \in {"exists", "cancellable"} : [op |-> o, job |-> j] \in Requests
    BY DEF Requests
  <2>2. req' \in [Clients -> Requests]
    BY <1>1, <2>1 DEF PostArrive, DeleteArrive
  <2> QED BY <1>1, <2>2 DEF PostArrive, DeleteArrive, database, registry, pool, bounds
<1>2. ASSUME req[c].op # "idle" PROVE k \in Jobs
  BY <1>2, BusyHandler
<1>3. ASSUME NEW from, NEW to \in {"depth", "register", "create", "start", "signal"},
             from # "idle", Advance(c, from, to)
      PROVE  req' \in [Clients -> Requests]
  BY <1>3, BusyHandler DEF Advance
<1>4. Reply(c) => req' \in [Clients -> Requests]
  BY DEF Reply, Requests
<1>5. CASE PostExists(c)
  BY <1>3, <1>4, <1>5 DEF PostExists, database, registry, pool, bounds
<1>6. CASE PostDepth(c)
  BY <1>3, <1>4, <1>6 DEF PostDepth, database, registry, pool, bounds
<1>7. CASE PostRegister(c)
  BY <1>2, <1>3, <1>7 DEF PostRegister, Advance, Registered, database, pool, bounds
<1>8. CASE PostCreate(c)
  BY <1>2, <1>3, <1>4, <1>8 DEF PostCreate, Statuses, Active, registry, pool, bounds
<1>9. CASE PostStart(c)
  BY <1>2, <1>4, <1>9 DEF PostStart, Registered, ThreadPcs, database, pool, bounds
<1>10. CASE DeleteCheck(c)
  BY <1>3, <1>4, <1>10 DEF DeleteCheck, database, registry, pool, bounds
<1>11. CASE DeleteSignal(c)
  BY <1>2, <1>4, <1>11 DEF DeleteSignal, database, pool, bounds
<1>12. CASE RequestFault(c)
  BY <1>4, <1>12 DEF RequestFault, DbFault, database, registry, pool
<1> QED BY <1>1, <1>5, <1>6, <1>7, <1>8, <1>9, <1>10, <1>11, <1>12 DEF Handler, Serve

\* The targets of the jumps and the statuses written, as members of their sets.
LEMMA Names ==
  /\ {"none", "acquire", "timedout", "cleanup", "done", "check", "markrunning",
      "submit", "collect", "withdraw", "result", "drain", "final", "markcancelled",
      "markcomplete", "report", "except", "release"} \subseteq ThreadPcs
  /\ {"absent", "queued", "running", "failed", "cancelled"} \subseteq Statuses
  /\ Terminal \subseteq Statuses
  /\ {"idle", "running", "lost", "pending", "cancelled", "notified"} \subseteq FutStates
  /\ Outcome \subseteq FutStates /\ Outcome \subseteq Row /\ Results \subseteq Outcome
BY ExecutorAssumption
   DEF ThreadPcs, Holding, Statuses, Active, Terminal, FutStates, Finished, Queued, Row

\* A jump keeps the type of pc; a database call that may fail, those of the bounds.
LEMMA GotoType ==
  ASSUME TypeOK, NEW j \in Jobs, NEW from, NEW to \in ThreadPcs, Goto(j, from, to)
  PROVE  pc' \in [Jobs -> ThreadPcs]
BY DEF TypeOK, Goto

\* A database call, raising or not, keeps the bounds.
LEMMA FaultType ==
  TypeOK /\ (DbOk \/ DbFault) => faults' \in 0..MaxFaults /\ crashes' \in 0..MaxCrashes
BY ExecutorAssumption DEF TypeOK, DbOk, DbFault, bounds

\* A status update keeps the types, whichever way it goes.
LEMMA MarkTypes ==
  ASSUME TypeOK, NEW j \in Jobs, NEW from, NEW s \in Statuses, NEW to \in ThreadPcs,
         Mark(j, from, s, to)
  PROVE  TypeOK'
<1>1. pc' \in [Jobs -> ThreadPcs]
  BY GotoType, Names DEF Mark
<1>2. faults' \in 0..MaxFaults /\ crashes' \in 0..MaxCrashes
  BY FaultType DEF Mark
<1>3. status' \in [Jobs -> Statuses]
  BY DEF TypeOK, Mark
<1> QED BY <1>1, <1>2, <1>3 DEF TypeOK, Mark, registry, pool

\* No step of a job's thread breaks a type; Release needs SlotConservation
\* to stay within the semaphore's initial value.
LEMMA ThreadTypes ==
  ASSUME TypeOK, SlotConservation, Futures, NEW j \in Jobs, Thread(j)
  PROVE  TypeOK'
<1> USE Names DEF TypeOK, Entries, database, registry, pool
<1>1. CASE Acquire(j)
  BY <1>1, GotoType, ExecutorAssumption DEF Acquire, bounds
<1>2. CASE AcquireTimeout(j)
  BY <1>2, GotoType DEF AcquireTimeout, bounds
<1>3. CASE QueueFull(j)
  <2>1. pc' \in [Jobs -> ThreadPcs] /\ status' \in [Jobs -> Statuses]
    BY <1>3, GotoType DEF QueueFull
  <2> QED BY <1>3, <2>1, FaultType DEF QueueFull
<1>4. CASE CheckCancelled(j)
  BY <1>4, GotoType DEF CheckCancelled, bounds
<1>5. CASE MarkRunning(j)
  BY <1>5, MarkTypes DEF MarkRunning
<1>6. CASE MarkCancelled(j)
  BY <1>6, MarkTypes DEF MarkCancelled
<1>7. CASE MarkComplete(j)
  BY <1>7, MarkTypes, VerdictIsTerminal DEF MarkComplete
<1>8. CASE SubmitNext(j)
  BY <1>8, GotoType DEF SubmitNext, bounds
<1>9. CASE SubmitEnd(j)
  BY <1>9, GotoType DEF SubmitEnd, bounds
<1>10. ASSUME NEW i \in Entries(j), Yield(j, i) PROVE TypeOK'
  <2>1. i \in Nat
    BY ExecutorAssumption
  <2> QED BY <1>10, <2>1, GotoType DEF Yield, bounds
<1>11. CASE Withdraw(j)
  <2>1. pc' \in [Jobs -> ThreadPcs]
    BY <1>11, GotoType DEF Withdraw
  <2>2. CASE UNCHANGED fut
    BY <1>11, <2>1, <2>2 DEF Withdraw, bounds
  <2>3. ASSUME NEW i \in Entries(j), fut' = [fut EXCEPT ![j][i] = "cancelled"]
        PROVE  \A k \in Jobs : fut'[k] \in [Entries(k) -> FutStates]
    BY <2>3
  <2> QED BY <1>11, <2>1, <2>2, <2>3 DEF Withdraw, bounds
<1>12. CASE StoreResult(j)
  <2> DEFINE i == at[j]
  <2>1. pc' \in [Jobs -> ThreadPcs]
    BY <1>12, GotoType DEF StoreResult
  <2>2. i \in Entries(j) /\ DeviceList[j][i] \in Devices /\ fut[j][i] \in Row
    BY <1>12, ExecutorAssumption DEF StoreResult, Futures
  <2>3. UNCHANGED rows => rows' \in [Jobs -> [Devices -> Row]]
    OBVIOUS
  <2>4. [rows EXCEPT ![j][DeviceList[j][i]] = fut[j][i]] \in [Jobs -> [Devices -> Row]]
    BY <2>2
  <2>5. rows' \in [Jobs -> [Devices -> Row]]
    BY <1>12, <2>3, <2>4 DEF StoreResult
  <2>6. \A k \in Jobs : stored'[k] \subseteq Entries(k)
    BY <1>12, <2>2 DEF StoreResult
  <2> QED BY <1>12, <2>1, <2>5, <2>6, FaultType DEF StoreResult
<1>13. CASE ResultRaises(j)
  BY <1>13, GotoType DEF ResultRaises, bounds
<1>14. CASE CollectEnd(j)
  BY <1>14, GotoType DEF CollectEnd, bounds
<1>15. CASE Drained(j)
  BY <1>15, GotoType DEF Drained, bounds
<1>16. CASE CheckFinal(j)
  BY <1>16, GotoType DEF CheckFinal, bounds
<1>17. CASE ReadBack(j)
  <2>1. pc' \in [Jobs -> ThreadPcs]
    BY <1>17, GotoType DEF ReadBack
  <2> QED BY <1>17, <2>1, FaultType DEF ReadBack
<1>18. CASE MarkFailed(j)
  <2>1. pc' \in [Jobs -> ThreadPcs] /\ status' \in [Jobs -> Statuses]
    BY <1>18, GotoType DEF MarkFailed
  <2> QED BY <1>18, <2>1, FaultType DEF MarkFailed
<1>19. CASE Release(j)
  <2>1. j \in Holders
    BY <1>19 DEF Release, Goto, Holders, Holding
  <2>2. Cardinality(Holders) # 0
    BY <2>1, HoldersFinite, FS_EmptySet
  <2>3. slots + 1 \in 0..MaxQueueDepth
    BY <2>2, HoldersFinite, ExecutorAssumption DEF SlotConservation
  <2> QED BY <1>19, <2>3, GotoType DEF Release, bounds
<1>20. CASE CleanUp(j)
  BY <1>20, GotoType DEF CleanUp, bounds
<1> QED BY <1>1, <1>2, <1>3, <1>4, <1>5, <1>6, <1>7, <1>8, <1>9, <1>10, <1>11, <1>12,
           <1>13, <1>14, <1>15, <1>16, <1>17, <1>18, <1>19, <1>20 DEF Thread

\* No step of a worker breaks a type.
LEMMA WorkerTypes ==
  ASSUME TypeOK, NEW j \in Jobs, Worker(j)
  PROVE  TypeOK'
<1> USE Names DEF TypeOK, Entries, database, registry, bounds
<1>1. ASSUME NEW i \in Entries(j), WorkerTake(j, i) PROVE TypeOK'
  BY <1>1 DEF WorkerTake
<1>2. ASSUME NEW i \in Entries(j), WorkerFinish(j, i) PROVE TypeOK'
  BY <1>2 DEF WorkerFinish
<1> QED BY <1>1, <1>2 DEF Worker

\* A restart leaves every variable well typed.
LEMMA RestartTypes == TypeOK /\ Restart => TypeOK'
BY ExecutorAssumption
   DEF TypeOK, Restart, Entries, ThreadPcs, FutStates, Finished, Queued,
       Requests, Idle, database

\* Types are preserved by every step.
LEMMA TypeStep ==
  ASSUME TypeOK, SlotConservation, Futures, [Next]_vars
  PROVE  TypeOK'
<1>1. CASE UNCHANGED vars
  BY <1>1 DEF TypeOK, vars, Entries
<1> QED BY <1>1, HandlerTypes, ThreadTypes, WorkerTypes, RestartTypes DEF Next

-----------------------------------------------------------------------------
(* Slots: one holder more for a slot taken, one less for a slot returned    *)

\* Moving one thread within Holding, or outside it, changes no holder.
LEMMA SlotKept ==
  ASSUME TypeOK, SlotConservation, NEW j \in Jobs, NEW from, NEW to,
         Goto(j, from, to), from \in Holding <=> to \in Holding, UNCHANGED slots
  PROVE  SlotConservation'
<1>1. Holders' = Holders
  BY DEF TypeOK, Holders, Goto
<1> QED BY <1>1 DEF SlotConservation

\* A thread takes and gives back slots exactly as it enters and leaves Holding.
LEMMA ThreadSlots ==
  ASSUME TypeOK, SlotConservation, NEW j \in Jobs, Thread(j)
  PROVE  SlotConservation'
<1> USE SlotKept DEF Holding, registry
<1>1. CASE Acquire(j)
  <2>1. j \notin Holders /\ Holders' = Holders \cup {j}
    BY <1>1 DEF Acquire, Goto, Holders, TypeOK
  <2>2. Cardinality(Holders') = Cardinality(Holders) + 1
    BY <2>1, HoldersFinite, FS_AddElement
  <2> QED BY <1>1, <2>2, HoldersFinite DEF Acquire, SlotConservation, TypeOK
<1>2. CASE Release(j)
  <2>1. j \in Holders /\ Holders' = Holders \ {j}
    BY <1>2 DEF Release, Goto, Holders, TypeOK
  <2>2. Cardinality(Holders') = Cardinality(Holders) - 1
    BY <2>1, HoldersFinite, FS_RemoveElement
  <2> QED BY <1>2, <2>2, HoldersFinite DEF Release, SlotConservation, TypeOK
<1>3. CASE AcquireTimeout(j) \/ QueueFull(j) \/ CleanUp(j)
  BY <1>3 DEF AcquireTimeout, QueueFull, CleanUp
<1>4. CASE CheckCancelled(j) \/ CheckFinal(j)
  BY <1>4 DEF CheckCancelled, CheckFinal
<1>5. CASE MarkRunning(j) \/ MarkCancelled(j) \/ MarkComplete(j)
  BY <1>5 DEF MarkRunning, MarkCancelled, MarkComplete, Mark
<1>6. CASE SubmitNext(j) \/ SubmitEnd(j)
  BY <1>6 DEF SubmitNext, SubmitEnd
<1>7. ASSUME NEW i \in Entries(j), Yield(j, i) PROVE SlotConservation'
  BY <1>7 DEF Yield
<1>8. CASE Withdraw(j)
  BY <1>8 DEF Withdraw
<1>9. CASE StoreResult(j) \/ ResultRaises(j)
  BY <1>9 DEF StoreResult, ResultRaises
<1>10. CASE CollectEnd(j) \/ Drained(j)
  BY <1>10 DEF CollectEnd, Drained
<1>11. CASE ReadBack(j) \/ MarkFailed(j)
  BY <1>11 DEF ReadBack, MarkFailed
<1> QED BY <1>1, <1>2, <1>3, <1>4, <1>5, <1>6, <1>7, <1>8, <1>9, <1>10, <1>11 DEF Thread

\* A handler starts a thread outside Holding, and only where there is none.
LEMMA HandlerSlots ==
  ASSUME TypeOK, SlotConservation, Lifeline, NEW c \in Clients, Handler(c)
  PROVE  SlotConservation'
<1>1. CASE UNCHANGED <<pc, slots>>
  BY <1>1 DEF SlotConservation, Holders
<1>2. CASE PostStart(c)
  <2>1. req[c].job \in Jobs
    BY <1>2, BusyHandler DEF PostStart, TypeOK
  <2>2. Goto(req[c].job, "none", "acquire")
    BY <1>2 DEF PostStart, Goto, Lifeline, RunsOnce
  <2> QED BY <1>2, <2>1, <2>2, SlotKept DEF PostStart, Holding
<1> QED BY <1>1, <1>2
     DEF Handler, Serve, PostArrive, DeleteArrive, PostExists, PostDepth, PostRegister, PostCreate,
         DeleteCheck, DeleteSignal, RequestFault, registry

\* The slot count is preserved by every step.
LEMMA SlotStep ==
  ASSUME TypeOK, SlotConservation, Lifeline, [Next]_vars
  PROVE  SlotConservation'
<1>1. CASE UNCHANGED <<pc, slots>>
  BY <1>1 DEF SlotConservation, Holders
<1>2. CASE Restart
  <2>1. Holders' = {}
    BY <1>2 DEF Restart, Holders, Holding
  <2> QED BY <1>2, <2>1, FS_EmptySet, ExecutorAssumption DEF Restart, SlotConservation
<1>3. ASSUME NEW j \in Jobs, Worker(j) PROVE UNCHANGED <<pc, slots>>
  BY <1>3 DEF Worker, WorkerTake, WorkerFinish, registry
<1>4. UNCHANGED vars => UNCHANGED <<pc, slots>>
  BY DEF vars
<1> QED BY <1>1, <1>2, <1>3, <1>4, HandlerSlots, ThreadSlots DEF Next

-----------------------------------------------------------------------------
(* The lifeline                                                            *)

\* A live thread moves on; its job's status may change with it.
LEMMA LifelineJump ==
  ASSUME TypeOK, Lifeline, NEW j \in Jobs, NEW from, NEW to, NEW s,
         Goto(j, from, to), from # "none", to # "none", s # "absent",
         status' = [status EXCEPT ![j] = s], UNCHANGED req,
         to \in Early => s = "queued", to \in InPool => s = "running"
  PROVE  Lifeline'
<1>1. \A c \in Clients : req[c].op = "start" => req[c].job # j /\ req[c].job \in Jobs
  <2>1. \A c \in Clients : req[c].op = "start" => req[c].job \in Jobs
    BY DEF TypeOK, Requests, Idle
  <2> QED BY <2>1 DEF Lifeline, RunsOnce, Goto
<1>2. \A c \in Clients : req'[c].op = "start" => status'[req'[c].job] = "queued"
  BY <1>1 DEF TypeOK, Lifeline
<1>3. RunsOnce'
  BY <1>1 DEF TypeOK, Lifeline, RunsOnce, Goto
<1>4. \A k \in Jobs :
        /\ status'[k] = "absent"  => pc'[k] = "none"
        /\ pc'[k] = "none"        => status'[k] \in {"absent", "queued"}
        /\ pc'[k] \in Early       => status'[k] = "queued"
        /\ pc'[k] \in InPool      => status'[k] = "running"
  BY DEF TypeOK, Lifeline, Goto
<1> QED BY <1>2, <1>3, <1>4 DEF Lifeline

\* As above, for a thread that leaves its job's status alone.
LEMMA LifelineMove ==
  ASSUME TypeOK, Lifeline, NEW j \in Jobs, NEW from, NEW to,
         Goto(j, from, to), from # "none", to # "none", UNCHANGED <<status, req>>,
         to \in Early => status[j] = "queued", to \in InPool => status[j] = "running"
  PROVE  Lifeline'
<1>1. status' = [status EXCEPT ![j] = status[j]]
  BY DEF TypeOK
<1>2. status[j] # "absent"
  BY DEF Lifeline, Goto
<1> QED BY <1>1, <1>2, LifelineJump

\* A thread's steps keep position and status together.
LEMMA ThreadLifeline ==
  ASSUME TypeOK, Lifeline, NEW j \in Jobs, Thread(j)
  PROVE  Lifeline'
<1> USE LifelineMove DEF Early, InPool, database
<1>1. pc[j] \in Early => status[j] = "queued"
  BY DEF Lifeline
<1>2. pc[j] \in InPool => status[j] = "running"
  BY DEF Lifeline
<1>3. CASE Acquire(j)
  <2>1. Goto(j, "acquire", "check")
    BY <1>3 DEF Acquire
  <2> QED BY <1>1, <1>3, <2>1 DEF Acquire, Goto
<1>4. CASE AcquireTimeout(j)
  <2>1. Goto(j, "acquire", "timedout")
    BY <1>4 DEF AcquireTimeout
  <2> QED BY <1>1, <1>4, <2>1 DEF AcquireTimeout, Goto
<1>5. CASE QueueFull(j)
  BY <1>5, LifelineJump DEF QueueFull
<1>6. CASE CheckCancelled(j)
  <2>1. PICK to \in {"markcancelled", "markrunning"} : Goto(j, "check", to)
    BY <1>6 DEF CheckCancelled
  <2> QED BY <1>1, <1>6, <2>1 DEF CheckCancelled, Goto
<1>7. CASE MarkRunning(j)
  BY <1>7, LifelineJump DEF MarkRunning, Mark
<1>8. CASE MarkCancelled(j)
  BY <1>8, LifelineJump DEF MarkCancelled, Mark
<1>9. CASE MarkComplete(j)
  <2>1. Verdict(rows[j], {}) # "absent"
    BY VerdictIsTerminal DEF Terminal
  <2> QED BY <1>9, <2>1, LifelineJump DEF MarkComplete, Mark
<1>10. CASE SubmitNext(j)
  BY <1>2, <1>10 DEF SubmitNext, Goto
<1>11. CASE SubmitEnd(j)
  BY <1>2, <1>11 DEF SubmitEnd, Goto
<1>12. ASSUME NEW i \in Entries(j), Yield(j, i) PROVE Lifeline'
  <2>1. PICK to \in {"withdraw", "result"} : Goto(j, "collect", to)
    BY <1>12 DEF Yield
  <2> QED BY <1>2, <1>12, <2>1 DEF Yield, Goto
<1>13. CASE Withdraw(j)
  <2>1. PICK to \in {"withdraw", "result"} : Goto(j, "withdraw", to)
    BY <1>13 DEF Withdraw
  <2> QED BY <1>2, <1>13, <2>1 DEF Withdraw, Goto
<1>14. CASE StoreResult(j)
  <2>1. PICK to \in {"collect", "drain"} : Goto(j, "result", to)
    BY <1>14 DEF StoreResult
  <2> QED BY <1>2, <1>14, <2>1 DEF StoreResult, Goto
<1>15. CASE ResultRaises(j)
  BY <1>2, <1>15 DEF ResultRaises, Goto
<1>16. CASE CollectEnd(j) \/ Drained(j)
  BY <1>16 DEF CollectEnd, Drained
<1>17. CASE CheckFinal(j)
  <2>1. PICK to \in {"markcancelled", "markcomplete"} : Goto(j, "final", to)
    BY <1>17 DEF CheckFinal
  <2> QED BY <1>17, <2>1 DEF CheckFinal
<1>18. CASE ReadBack(j)
  BY <1>18 DEF ReadBack
<1>19. CASE MarkFailed(j)
  BY <1>19, LifelineJump DEF MarkFailed
<1>20. CASE Release(j) \/ CleanUp(j)
  BY <1>20 DEF Release, CleanUp
<1> QED BY <1>3, <1>4, <1>5, <1>6, <1>7, <1>8, <1>9, <1>10, <1>11, <1>12, <1>13, <1>14,
           <1>15, <1>16, <1>17, <1>18, <1>19, <1>20 DEF Thread

\* Of the handlers only the two last steps of a POST matter here.
LEMMA HandlerLifeline ==
  ASSUME TypeOK, Lifeline, NEW c \in Clients, Handler(c)
  PROVE  Lifeline'
<1> DEFINE k == req[c].job
<1>1. ASSUME UNCHANGED <<status, pc>>, NEW r, r.op # "start", req' = [req EXCEPT ![c] = r]
      PROVE  Lifeline'
  <2>1. \A e \in Clients : req'[e].op = "start" => e # c /\ req'[e] = req[e]
    BY <1>1 DEF TypeOK
  <2> QED BY <1>1, <2>1 DEF Lifeline, RunsOnce
<1>2. ASSUME UNCHANGED <<status, pc>>, Reply(c) PROVE Lifeline'
  BY <1>1, <1>2 DEF Reply, Idle
<1>3. ASSUME UNCHANGED <<status, pc>>, NEW from, from # "idle",
             NEW to \in {"depth", "register", "create", "signal"}, Advance(c, from, to)
      PROVE  Lifeline'
  <2>1. req[c] \in Requests /\ req[c].op # "idle"
    BY <1>3 DEF TypeOK, Advance
  <2>2. [req[c] EXCEPT !.op = to].op # "start"
    BY <1>3, <2>1 DEF Requests, Idle
  <2>3. req' = [req EXCEPT ![c] = [req[c] EXCEPT !.op = to]]
    BY <1>3 DEF Advance
  <2> QED BY <1>1, <1>3, <2>2, <2>3
<1>4. ASSUME NEW j \in Jobs, PostArrive(c, j) \/ DeleteArrive(c, j) PROVE Lifeline'
  BY <1>1, <1>4 DEF PostArrive, DeleteArrive, database
<1>5. CASE PostExists(c)
  BY <1>2, <1>3, <1>5 DEF PostExists, database
<1>6. CASE PostDepth(c)
  BY <1>2, <1>3, <1>6 DEF PostDepth, database
<1>7. CASE PostRegister(c)
  BY <1>3, <1>7 DEF PostRegister, database
<1>8. CASE PostCreate(c) /\ status[k] # "absent"
  BY <1>2, <1>8 DEF PostCreate
<1>9. CASE PostCreate(c) /\ status[k] = "absent"
  <2>1. k \in Jobs /\ pc[k] = "none"
    BY <1>9, BusyHandler DEF PostCreate, TypeOK, Lifeline
  <2>2. status' = [status EXCEPT ![k] = "queued"] /\ UNCHANGED pc
    BY <1>9 DEF PostCreate
  <2>3. req' = [req EXCEPT ![c] = [req[c] EXCEPT !.op = "start"]]
    BY <1>9 DEF PostCreate, Advance
  <2>4. req'[c].op = "start" /\ req'[c].job = k
    BY <1>9, <2>3 DEF PostCreate, TypeOK, Requests, Idle
  <2>5. \A e \in Clients \ {c} :
          req'[e] = req[e] /\ (req[e].op = "start" => req[e].job # k /\ req[e].job \in Jobs)
    BY <1>9, <2>3, BusyHandler DEF TypeOK, Lifeline
  <2>6. RunsOnce'
    BY <2>1, <2>2, <2>4, <2>5 DEF RunsOnce, Lifeline
  <2>7. \A e \in Clients : req'[e].op = "start" => status'[req'[e].job] = "queued"
    BY <2>1, <2>2, <2>4, <2>5 DEF Lifeline, TypeOK
  <2> QED BY <2>1, <2>2, <2>6, <2>7 DEF Lifeline, TypeOK, Early, InPool
<1>10. CASE PostStart(c)
  <2>1. k \in Jobs /\ pc[k] = "none" /\ status[k] = "queued"
    BY <1>10, BusyHandler DEF PostStart, TypeOK, Lifeline, RunsOnce
  <2>2. pc' = [pc EXCEPT ![k] = "acquire"] /\ UNCHANGED status
    BY <1>10 DEF PostStart, database
  <2>3. \A e \in Clients : req'[e].op = "start" => e # c /\ req'[e] = req[e]
    BY <1>10 DEF PostStart, Reply, TypeOK, Idle
  <2>4. \A e \in Clients \ {c} : req[e].op = "start" => req[e].job # k
    <3>1. \A e \in Clients \ {c} : req[e].op = "start" => req[e] # req[c]
      BY <1>10 DEF PostStart, Lifeline, RunsOnce
    <3>2. \A e \in Clients \ {c} :
            req[e].op = "start" /\ req[e].job = k => req[e] = req[c]
      BY <1>10 DEF PostStart, TypeOK, Requests, Idle
    <3> QED BY <3>1, <3>2
  <2>5. RunsOnce'
    BY <2>1, <2>2, <2>3, <2>4 DEF RunsOnce, Lifeline, TypeOK
  <2>6. \A e \in Clients : req'[e].op = "start" => status'[req'[e].job] = "queued"
    BY <2>2, <2>3 DEF Lifeline
  <2> QED BY <2>1, <2>2, <2>5, <2>6 DEF Lifeline, TypeOK, Early, InPool
<1>11. CASE DeleteCheck(c)
  BY <1>2, <1>3, <1>11 DEF DeleteCheck, database
<1>12. CASE DeleteSignal(c) \/ RequestFault(c)
  BY <1>2, <1>12 DEF DeleteSignal, RequestFault, database
<1> QED BY <1>4, <1>5, <1>6, <1>7, <1>8, <1>9, <1>10, <1>11, <1>12 DEF Handler, Serve

\* Lifeline is preserved by every step.
LEMMA LifelineStep ==
  ASSUME TypeOK, Lifeline, [Next]_vars
  PROVE  Lifeline'
<1>1. CASE UNCHANGED <<status, pc, req>>
  BY <1>1 DEF Lifeline, RunsOnce
<1>2. CASE Restart
  BY <1>2 DEF Restart, Lifeline, RunsOnce, TypeOK, Idle, Early, InPool, database
<1>3. ASSUME NEW j \in Jobs, Worker(j) PROVE UNCHANGED <<status, pc, req>>
  BY <1>3 DEF Worker, WorkerTake, WorkerFinish, database
<1>4. UNCHANGED vars => UNCHANGED <<status, pc, req>>
  BY DEF vars
<1> QED BY <1>1, <1>2, <1>3, <1>4, HandlerLifeline, ThreadLifeline DEF Next

-----------------------------------------------------------------------------
(* The futures                                                             *)

\* A thread moves on and leaves the pool as it is.
LEMMA FuturesMove ==
  ASSUME TypeOK, Futures, NEW j \in Jobs, NEW from, NEW to,
         Goto(j, from, to), UNCHANGED pool,
         to \notin InPool => PoolIdle(j),
         to \in Early \cup {"none", "submit"} => stored[j] = {},
         to \notin {"withdraw", "result"}
  PROVE  Futures'
BY DEF TypeOK, Futures, Goto, PoolIdle, pool, Entries

\* Outside the pool's block nothing changes but the position.
LEMMA FuturesOutside ==
  ASSUME TypeOK, Futures, NEW j \in Jobs, NEW from, NEW to,
         Goto(j, from, to), UNCHANGED pool, from \notin InPool,
         to \in Early => from \in Early,
         to \notin {"none", "submit", "withdraw", "result"}
  PROVE  Futures'
<1>1. PoolIdle(j)
  BY DEF Futures, Goto
<1>2. to \in Early => stored[j] = {}
  BY DEF Futures, Goto
<1> QED BY <1>1, <1>2, FuturesMove

\* A thread leaves the pool's block only when the pool is idle.
LEMMA ThreadFutures ==
  ASSUME TypeOK, Futures, NEW j \in Jobs, Thread(j)
  PROVE  Futures'
<1> USE DEF Early, InPool
<1>1. CASE Acquire(j) \/ AcquireTimeout(j)
  BY <1>1, FuturesOutside DEF Acquire, AcquireTimeout
<1>2. CASE QueueFull(j)
  BY <1>2, FuturesOutside DEF QueueFull
<1>3. CASE CheckCancelled(j)
  <2>1. PICK to \in {"markcancelled", "markrunning"} : Goto(j, "check", to)
    BY <1>3 DEF CheckCancelled
  <2> QED BY <1>3, <2>1, FuturesOutside DEF CheckCancelled
<1>4. CASE MarkRunning(j)
  <2>1. CASE Goto(j, "markrunning", "submit")
    <3>1. stored[j] = {}
      BY <2>1 DEF Futures, Goto
    <3> QED BY <1>4, <2>1, <3>1, FuturesMove DEF MarkRunning, Mark
  <2> QED BY <1>4, <2>1, FuturesOutside DEF MarkRunning, Mark
<1>5. CASE MarkCancelled(j) \/ MarkComplete(j)
  BY <1>5, FuturesOutside DEF MarkCancelled, MarkComplete, Mark
<1>6. CASE SubmitNext(j)
  <2>1. stored[j] = {}
    BY <1>6 DEF SubmitNext, Goto, Futures
  <2> QED BY <1>6, <2>1 DEF SubmitNext, Goto, Futures, TypeOK, PoolIdle, Entries
<1>7. CASE SubmitEnd(j)
  BY <1>7, FuturesMove DEF SubmitEnd
<1>8. ASSUME NEW i \in Entries(j), Yield(j, i) PROVE Futures'
  <2>1. PICK to \in {"withdraw", "result"} : Goto(j, "collect", to)
    BY <1>8 DEF Yield
  <2> QED BY <1>8, <2>1 DEF Yield, Goto, Futures, TypeOK, PoolIdle, Entries
<1>9. CASE Withdraw(j)
  <2>1. at[j] \in Entries(j)
    BY <1>9 DEF Withdraw, Goto, Futures
  <2>2. CASE UNCHANGED fut
    BY <1>9, <2>1, <2>2 DEF Withdraw, Goto, Futures, TypeOK, PoolIdle, Entries
  <2>3. ASSUME NEW i \in Entries(j), FirstIn(j, {"pending"}, i),
               Goto(j, "withdraw", "withdraw"), fut' = [fut EXCEPT ![j][i] = "cancelled"]
        PROVE  Futures'
    <3>1. i \notin stored[j]
      BY <2>3 DEF FirstIn, Futures, Outcome
    <3> QED BY <1>9, <2>1, <2>3, <3>1 DEF Withdraw, Goto, Futures, TypeOK, PoolIdle, Entries
  <2> QED BY <1>9, <2>2, <2>3 DEF Withdraw
<1>10. CASE StoreResult(j)
  <2>1. PICK to \in {"collect", "drain"} : Goto(j, "result", to)
    BY <1>10 DEF StoreResult
  <2>2. fut[j][at[j]] \in Outcome /\ UNCHANGED <<fut, at>>
    BY <1>10 DEF StoreResult
  <2>3. \A k \in Jobs : \A i \in stored'[k] : fut[k][i] \in Outcome
    BY <1>10, <2>2 DEF StoreResult, Futures, TypeOK
  <2>4. \A k \in Jobs \ {j} : stored'[k] = stored[k]
    BY <1>10 DEF StoreResult, TypeOK
  <2> QED BY <2>1, <2>2, <2>3, <2>4 DEF Goto, Futures, TypeOK, PoolIdle, Entries
<1>11. CASE ResultRaises(j)
  BY <1>11, FuturesMove DEF ResultRaises
<1>12. CASE CollectEnd(j)
  <2>1. PoolIdle(j)
    BY <1>12 DEF CollectEnd, PoolIdle, Futures, Outcome, Queued
  <2> QED BY <1>12, <2>1, FuturesMove DEF CollectEnd
<1>13. CASE Drained(j)
  BY <1>13, FuturesMove DEF Drained
<1>14. CASE CheckFinal(j)
  <2>1. PICK to \in {"markcancelled", "markcomplete"} : Goto(j, "final", to)
    BY <1>14 DEF CheckFinal
  <2> QED BY <1>14, <2>1, FuturesOutside DEF CheckFinal
<1>15. CASE ReadBack(j) \/ MarkFailed(j)
  BY <1>15, FuturesOutside DEF ReadBack, MarkFailed
<1>16. CASE Release(j) \/ CleanUp(j)
  BY <1>16, FuturesOutside DEF Release, CleanUp
<1> QED BY <1>1, <1>2, <1>3, <1>4, <1>5, <1>6, <1>7, <1>8, <1>9, <1>10, <1>11, <1>12,
           <1>13, <1>14, <1>15, <1>16 DEF Thread

\* A worker works only inside the block, on futures that have no result yet.
LEMMA WorkerFutures ==
  ASSUME TypeOK, Futures, NEW j \in Jobs, Worker(j)
  PROVE  Futures'
<1>1. PICK i \in Entries(j) : WorkerTake(j, i) \/ WorkerFinish(j, i)
  BY DEF Worker
<1>2. fut[j][i] \in Queued \cup {"running"}
  BY <1>1 DEF WorkerTake, WorkerFinish, FirstIn
<1>3. pc[j] \in InPool /\ i \notin stored[j]
  BY <1>2 DEF Futures, PoolIdle, Queued, Outcome
<1>4. PICK v : fut' = [fut EXCEPT ![j][i] = v]
  BY <1>1 DEF WorkerTake, WorkerFinish
<1>5. UNCHANGED <<pc, at, stored>>
  BY <1>1 DEF WorkerTake, WorkerFinish
<1> QED BY <1>3, <1>4, <1>5 DEF Futures, TypeOK, PoolIdle, Entries, InPool, Early

\* Futures is preserved by every step.
LEMMA FuturesStep ==
  ASSUME TypeOK, Lifeline, Futures, [Next]_vars
  PROVE  Futures'
<1>1. CASE UNCHANGED <<pc, at, fut, stored>>
  BY <1>1 DEF Futures, PoolIdle, Entries
<1>2. CASE Restart
  <2>1. \A j \in Jobs : PoolIdle(j)'
    BY <1>2 DEF Restart, PoolIdle, Queued, Entries
  <2>2. \A j \in Jobs : pc'[j] \in {"none", "done"} /\ (pc'[j] = "none" => pc[j] = "none")
    BY <1>2 DEF Restart, Lifeline
  <2>3. \A j \in Jobs : \A i \in stored[j] : fut'[j][i] \in Outcome
    BY <1>2 DEF Restart, Futures, TypeOK, Queued, Outcome
  <2> QED BY <1>2, <2>1, <2>2, <2>3 DEF Restart, Futures, Early, InPool
<1>3. ASSUME NEW c \in Clients, Handler(c) PROVE Futures'
  <2>1. CASE PostStart(c)
    <3>1. req[c].job \in Jobs /\ pc[req[c].job] = "none"
      BY <2>1, BusyHandler DEF PostStart, TypeOK, Lifeline, RunsOnce
    <3>2. Goto(req[c].job, "none", "acquire") /\ stored[req[c].job] = {}
      BY <2>1, <3>1 DEF PostStart, Goto, Futures
    <3>3. PoolIdle(req[c].job)
      BY <3>1 DEF Futures, InPool
    <3> QED BY <2>1, <3>1, <3>2, <3>3, FuturesMove DEF PostStart
  <2> QED BY <1>1, <1>3, <2>1
       DEF Handler, Serve, PostArrive, DeleteArrive, PostExists, PostDepth, PostRegister,
           PostCreate, DeleteCheck, DeleteSignal, RequestFault, pool
<1>4. UNCHANGED vars => UNCHANGED <<pc, at, fut, stored>>
  BY DEF vars
<1> QED BY <1>1, <1>2, <1>3, <1>4, ThreadFutures, WorkerFutures DEF Next

-----------------------------------------------------------------------------
(* The cancellation signals                                                *)

\* What is undisturbed was undisturbed, and is not once a call has raised.
LEMMA Disturbance ==
  TypeOK => /\ DbFault => ~Undisturbed'
            /\ DbOk => (Undisturbed' <=> Undisturbed)
            /\ UNCHANGED bounds => (Undisturbed' <=> Undisturbed)
            /\ Restart => ~Undisturbed'
BY ExecutorAssumption DEF TypeOK, DbFault, DbOk, Restart, Undisturbed, bounds

\* A thread moves on without touching the registry.
LEMMA SignalsJump ==
  ASSUME TypeOK, Lifeline, Signals, NEW j \in Jobs, NEW from, NEW to, NEW s \in Statuses,
         Goto(j, from, to), from # "none", s # "absent",
         status' = [status EXCEPT ![j] = s], UNCHANGED <<event, req, accepted>>,
         Undisturbed' => /\ Undisturbed
                         /\ to \in Over => s \in Terminal
                         /\ s \in Active => status[j] \in Active
  PROVE  Signals'
<1>1. status[j] # "absent"
  BY DEF Lifeline, Goto
<1>2. \A k \in Jobs : status'[k] = "absent" <=> status[k] = "absent"
  BY <1>1 DEF TypeOK
<1>3. \A c \in Clients : req[c].op # "idle" => req[c].job \in Jobs
  BY DEF TypeOK, Requests, Idle
<1>4. \A c \in Clients :
       /\ req[c].op = "signal" => status'[req[c].job] # "absent"
       /\ req[c].op = "create" /\ status'[req[c].job] = "absent"
            => event[req[c].job] # "none"
  BY <1>2, <1>3 DEF Signals
<1>5. ASSUME Undisturbed', NEW k \in Jobs
      PROVE  /\ status'[k] \in Active => event[k] # "none"
             /\ pc'[k] \in Over       => status'[k] \in Terminal
             /\ k \in accepted        => event[k] = "set" \/ status'[k] \in Terminal
  <2>1. CASE k = j
    <3>1. s \in Active \cup Terminal
      BY DEF Statuses
    <3>2. status[j] \in Active => status[j] \notin Terminal
      BY DEF Active, Terminal
    <3> QED BY <1>5, <2>1, <3>1, <3>2 DEF TypeOK, Signals, Goto
  <2>2. CASE k # j
    BY <1>5, <2>2 DEF TypeOK, Signals, Goto
  <2> QED BY <2>1, <2>2
<1> QED BY <1>4, <1>5 DEF Signals

\* As above, for a thread that leaves its job's status alone.
LEMMA SignalsMove ==
  ASSUME TypeOK, Lifeline, Signals, NEW j \in Jobs, NEW from, NEW to,
         Goto(j, from, to), from # "none", to \in Over => from \in Over,
         UNCHANGED <<status, event, req, accepted>>, Undisturbed' => Undisturbed
  PROVE  Signals'
<1>1. status' = [status EXCEPT ![j] = status[j]] /\ status[j] \in Statuses
  BY DEF TypeOK
<1>2. status[j] # "absent"
  BY DEF Lifeline, Goto
<1>3. Undisturbed' /\ to \in Over => status[j] \in Terminal
  BY DEF Signals, Goto
<1> QED BY <1>1, <1>2, <1>3, SignalsJump

\* A thread drops its event only when its job's status is terminal.
LEMMA ThreadSignals ==
  ASSUME TypeOK, Lifeline, Signals, NEW j \in Jobs, Thread(j)
  PROVE  Signals'
<1> USE Disturbance, Names, SignalsMove DEF Over, database, registry
<1>1. CASE Acquire(j) \/ AcquireTimeout(j)
  BY <1>1 DEF Acquire, AcquireTimeout
<1>2. CASE QueueFull(j)
  <2>1. CASE Goto(j, "timedout", "cleanup") /\ status' = [status EXCEPT ![j] = "failed"] /\ DbOk
    BY <1>2, <2>1, SignalsJump DEF QueueFull, Terminal, Active
  <2>2. CASE Goto(j, "timedout", "done") /\ UNCHANGED status /\ DbFault
    <3>1. status' = [status EXCEPT ![j] = status[j]] /\ status[j] \in Statuses
      BY <2>2 DEF TypeOK
    <3>2. status[j] # "absent"
      BY <2>2 DEF Lifeline, Goto
    <3> QED BY <1>2, <2>2, <3>1, <3>2, SignalsJump DEF QueueFull
  <2> QED BY <1>2, <2>1, <2>2 DEF QueueFull
<1>3. CASE CheckCancelled(j)
  <2>1. PICK to \in {"markcancelled", "markrunning"} : Goto(j, "check", to)
    BY <1>3 DEF CheckCancelled
  <2> QED BY <1>3, <2>1 DEF CheckCancelled
<1>4. ASSUME NEW from \in {"markrunning", "markcancelled", "markcomplete"}, NEW to,
             NEW s \in Statuses, s # "absent", Mark(j, from, s, to),
             to \in Over => s \in Terminal, s \in Active => status[j] \in Active
      PROVE  Signals'
  <2>1. CASE Goto(j, from, to) /\ status' = [status EXCEPT ![j] = s] /\ DbOk
    BY <1>4, <2>1, SignalsJump DEF Mark
  <2>2. CASE Goto(j, from, "except") /\ UNCHANGED status /\ DbFault
    BY <1>4, <2>2 DEF Mark
  <2> QED BY <1>4, <2>1, <2>2 DEF Mark
<1>5. CASE MarkRunning(j)
  <2>1. status[j] = "queued"
    BY <1>5 DEF MarkRunning, Mark, Goto, Lifeline, Early
  <2> QED BY <1>4, <1>5, <2>1 DEF MarkRunning, Active
<1>6. CASE MarkCancelled(j)
  BY <1>4, <1>6 DEF MarkCancelled, Terminal, Active
<1>7. CASE MarkComplete(j)
  <2>1. Verdict(rows[j], {}) \in Terminal
    BY VerdictIsTerminal
  <2>2. Verdict(rows[j], {}) \notin Active /\ Verdict(rows[j], {}) # "absent"
    BY <2>1 DEF Terminal, Active
  <2> QED BY <1>4, <1>7, <2>1, <2>2 DEF MarkComplete
<1>8. CASE SubmitNext(j) \/ SubmitEnd(j)
  BY <1>8 DEF SubmitNext, SubmitEnd
<1>9. ASSUME NEW i \in Entries(j), Yield(j, i) PROVE Signals'
  <2>1. PICK to \in {"withdraw", "result"} : Goto(j, "collect", to)
    BY <1>9 DEF Yield
  <2> QED BY <1>9, <2>1 DEF Yield
<1>10. CASE Withdraw(j)
  BY <1>10 DEF Withdraw
<1>11. CASE StoreResult(j)
  <2>1. PICK to \in {"collect", "drain"} : Goto(j, "result", to)
    BY <1>11 DEF StoreResult
  <2> QED BY <1>11, <2>1 DEF StoreResult
<1>12. CASE ResultRaises(j)
  BY <1>12 DEF ResultRaises
<1>13. CASE CollectEnd(j) \/ Drained(j)
  BY <1>13 DEF CollectEnd, Drained
<1>14. CASE CheckFinal(j)
  <2>1. PICK to \in {"markcancelled", "markcomplete"} : Goto(j, "final", to)
    BY <1>14 DEF CheckFinal
  <2> QED BY <1>14, <2>1 DEF CheckFinal
<1>15. CASE ReadBack(j)
  BY <1>15 DEF ReadBack
<1>16. CASE MarkFailed(j)
  <2>1. CASE status' = [status EXCEPT ![j] = "failed"] /\ DbOk
    BY <1>16, <2>1, SignalsJump DEF MarkFailed, Terminal, Active
  <2>2. CASE UNCHANGED status /\ DbFault
    <3>1. status' = [status EXCEPT ![j] = status[j]] /\ status[j] \in Statuses
      BY <2>2 DEF TypeOK
    <3>2. status[j] # "absent"
      BY <1>16 DEF MarkFailed, Lifeline, Goto
    <3> QED BY <1>16, <2>2, <3>1, <3>2, SignalsJump DEF MarkFailed
  <2> QED BY <1>16, <2>1, <2>2 DEF MarkFailed
<1>17. CASE Release(j)
  BY <1>17 DEF Release
<1>18. CASE CleanUp(j)
  <2>1. pc[j] = "cleanup" /\ status[j] # "absent"
    BY <1>18 DEF CleanUp, Goto, Lifeline
  <2>2. \A c \in Clients : req[c].op # "idle" => req[c].job \in Jobs
    BY DEF TypeOK, Requests, Idle
  <2>3. Undisturbed' => status[j] \in Terminal /\ status[j] \notin Active
    BY <1>18, <2>1 DEF CleanUp, Signals, Terminal, Active
  <2> QED BY <1>18, <2>1, <2>2, <2>3 DEF CleanUp, Goto, Signals, TypeOK
<1> QED BY <1>1, <1>2, <1>3, <1>5, <1>6, <1>7, <1>8, <1>9, <1>10, <1>11, <1>12,
           <1>13, <1>14, <1>15, <1>16, <1>17, <1>18 DEF Thread

\* Handlers register an event before the job can be seen, and only set it.
LEMMA HandlerSignals ==
  ASSUME TypeOK, Lifeline, Signals, NEW c \in Clients, Handler(c)
  PROVE  Signals'
<1> DEFINE k == req[c].job
<1> USE Disturbance DEF database, registry
<1>1. ASSUME UNCHANGED <<status, event, pc, accepted>>, Undisturbed' => Undisturbed,
             NEW r, req' = [req EXCEPT ![c] = r],
             r.op = "signal" => status[r.job] # "absent",
             r.op = "create" /\ status[r.job] = "absent" => event[r.job] # "none"
      PROVE  Signals'
  <2>1. req'[c] = r /\ \A e \in Clients \ {c} : req'[e] = req[e]
    BY <1>1 DEF TypeOK
  <2>2. \A e \in Clients :
         /\ req'[e].op = "signal" => status[req'[e].job] # "absent"
         /\ req'[e].op = "create" /\ status[req'[e].job] = "absent"
              => event[req'[e].job] # "none"
    BY <1>1, <2>1 DEF Signals
  <2> QED BY <1>1, <2>2 DEF Signals
<1>2. ASSUME UNCHANGED <<status, event, pc, accepted>>, Undisturbed' => Undisturbed, Reply(c)
      PROVE  Signals'
  BY <1>1, <1>2 DEF Reply, Idle
<1>3. ASSUME NEW from, from # "idle",
             NEW to \in {"depth", "register", "create", "start", "signal"},
             Advance(c, from, to)
      PROVE  /\ k \in Jobs
             /\ \E r : r.op = to /\ r.job = k /\ req' = [req EXCEPT ![c] = r]
  <2>1. req[c] \in Requests /\ req[c].op # "idle"
    BY <1>3 DEF TypeOK, Advance
  <2>2. [req[c] EXCEPT !.op = to].op = to /\ [req[c] EXCEPT !.op = to].job = k
    BY <1>3, <2>1 DEF Requests, Idle
  <2>3. req' = [req EXCEPT ![c] = [req[c] EXCEPT !.op = to]]
    BY <1>3 DEF Advance
  <2> QED BY <2>1, <2>2, <2>3, BusyHandler
<1>4. ASSUME NEW j \in Jobs, PostArrive(c, j) \/ DeleteArrive(c, j) PROVE Signals'
  BY <1>1, <1>4 DEF PostArrive, DeleteArrive
<1>5. CASE PostExists(c)
  <2>1. CASE Advance(c, "exists", "depth")
    BY <1>1, <1>3, <1>5, <2>1 DEF PostExists
  <2> QED BY <1>2, <1>5, <2>1 DEF PostExists
<1>6. CASE PostDepth(c)
  <2>1. CASE Advance(c, "depth", "register")
    BY <1>1, <1>3, <1>6, <2>1 DEF PostDepth
  <2> QED BY <1>2, <1>6, <2>1 DEF PostDepth
<1>7. CASE PostRegister(c)
  <2>1. Advance(c, "register", "create")
    BY <1>7 DEF PostRegister
  <2>2. PICK r : r.op = "create" /\ r.job = k /\ req' = [req EXCEPT ![c] = r]
    BY <1>3, <2>1
  <2>3. k \in Jobs
    BY <1>3, <2>1
  <2>4. event'[k] # "none" /\ (event[k] = "set" => event'[k] = "set")
    BY <1>7, <2>3 DEF PostRegister, Registered, TypeOK
  <2>5. \A j \in Jobs \ {k} : event'[j] = event[j]
    BY <1>7 DEF PostRegister, Registered, TypeOK
  <2>6. \A e \in Clients : req[e].op # "idle" => req[e].job \in Jobs
    BY DEF TypeOK, Requests, Idle
  <2>7. req'[c] = r /\ \A e \in Clients \ {c} : req'[e] = req[e]
    BY <2>2 DEF TypeOK
  <2>8. UNCHANGED <<status, pc, accepted>> /\ (Undisturbed' => Undisturbed)
    BY <1>7 DEF PostRegister
  <2>9. \A e \in Clients :
         /\ req'[e].op = "signal" => status[req'[e].job] # "absent"
         /\ req'[e].op = "create" /\ status[req'[e].job] = "absent"
              => event'[req'[e].job] # "none"
    BY <2>2, <2>4, <2>5, <2>6, <2>7 DEF Signals
  <2> QED BY <2>4, <2>5, <2>8, <2>9 DEF Signals
<1>8. CASE PostCreate(c) /\ status[k] # "absent"
  BY <1>2, <1>8 DEF PostCreate
<1>9. CASE PostCreate(c) /\ status[k] = "absent"
  <2>1. Advance(c, "create", "start") /\ status' = [status EXCEPT ![k] = "queued"]
    BY <1>9 DEF PostCreate
  <2>2. PICK r : r.op = "start" /\ r.job = k /\ req' = [req EXCEPT ![c] = r]
    BY <1>3, <2>1
  <2>3. k \in Jobs /\ event[k] # "none" /\ pc[k] = "none"
    BY <1>3, <1>9, <2>1 DEF Signals, Advance, Lifeline
  <2>4. \A e \in Clients : req[e].op # "idle" => req[e].job \in Jobs
    BY DEF TypeOK, Requests, Idle
  <2>5. req'[c] = r /\ \A e \in Clients \ {c} : req'[e] = req[e]
    BY <2>2 DEF TypeOK
  <2>6. UNCHANGED <<event, pc, accepted>> /\ (Undisturbed' => Undisturbed)
    BY <1>9 DEF PostCreate
  <2>7. \A e \in Clients :
         /\ req'[e].op = "signal" => status'[req'[e].job] # "absent"
         /\ req'[e].op = "create" /\ status'[req'[e].job] = "absent"
              => event[req'[e].job] # "none"
    BY <2>1, <2>2, <2>3, <2>4, <2>5 DEF Signals, TypeOK
  <2>8. Undisturbed =>
          \A j \in Jobs :
            /\ status'[j] \in Active => event[j] # "none"
            /\ pc[j] \in Over       => status'[j] \in Terminal
            /\ j \in accepted       => event[j] = "set" \/ status'[j] \in Terminal
    BY <1>9, <2>1, <2>3 DEF Signals, TypeOK, Over, Terminal
  <2> QED BY <2>6, <2>7, <2>8 DEF Signals
<1>10. CASE PostStart(c)
  <2>1. k \in Jobs /\ status[k] = "queued"
    BY <1>10, BusyHandler DEF PostStart, TypeOK, Lifeline
  <2>2. \A j \in Jobs : /\ event[j] # "none" => event'[j] # "none"
                        /\ event[j] = "set" => event'[j] = "set"
    BY <1>10 DEF PostStart, Registered, TypeOK
  <2>3. \A j \in Jobs : pc'[j] \in Over => pc[j] \in Over
    BY <1>10 DEF PostStart, Over, TypeOK
  <2>4. \A e \in Clients : req[e].op # "idle" => req[e].job \in Jobs
    BY DEF TypeOK, Requests, Idle
  <2>5. \A e \in Clients : req'[e].op = "idle" \/ req'[e] = req[e]
    BY <1>10 DEF PostStart, Reply, Idle, TypeOK
  <2>6. UNCHANGED <<status, accepted>> /\ (Undisturbed' => Undisturbed)
    BY <1>10 DEF PostStart
  <2>7. \A e \in Clients :
         /\ req'[e].op = "signal" => status[req'[e].job] # "absent"
         /\ req'[e].op = "create" /\ status[req'[e].job] = "absent"
              => event'[req'[e].job] # "none"
    BY <2>2, <2>4, <2>5 DEF Signals
  <2> QED BY <2>2, <2>3, <2>6, <2>7 DEF Signals
<1>11. CASE DeleteCheck(c)
  <2>1. CASE Advance(c, "cancellable", "signal") /\ status[k] \in Active
    BY <1>1, <1>3, <1>11, <2>1 DEF DeleteCheck, Active
  <2> QED BY <1>2, <1>11, <2>1 DEF DeleteCheck
<1>12. CASE DeleteSignal(c)
  <2>1. k \in Jobs /\ status[k] \in Active \cup Terminal
    <3>1. k \in Jobs
      BY <1>12, BusyHandler DEF DeleteSignal, TypeOK
    <3> QED BY <1>12, <3>1 DEF DeleteSignal, TypeOK, Signals, Statuses
  <2>2. \A j \in Jobs : /\ event[j] # "none" => event'[j] # "none"
                        /\ event[j] = "set" => event'[j] = "set"
                        /\ j = k /\ event[j] # "none" => event'[j] = "set"
    BY <1>12 DEF DeleteSignal, TypeOK
  <2>3. \A e \in Clients : req[e].op # "idle" => req[e].job \in Jobs
    BY DEF TypeOK, Requests, Idle
  <2>4. \A e \in Clients : req'[e].op = "idle" \/ req'[e] = req[e]
    BY <1>12 DEF DeleteSignal, Reply, Idle, TypeOK
  <2>5. UNCHANGED <<status, pc>> /\ (Undisturbed' => Undisturbed)
        /\ accepted' = accepted \cup {k}
    BY <1>12 DEF DeleteSignal
  <2>6. \A e \in Clients :
         /\ req'[e].op = "signal" => status[req'[e].job] # "absent"
         /\ req'[e].op = "create" /\ status[req'[e].job] = "absent"
              => event'[req'[e].job] # "none"
    BY <2>2, <2>3, <2>4 DEF Signals
  <2> QED BY <2>1, <2>2, <2>5, <2>6 DEF Signals
<1>13. CASE RequestFault(c)
  <2>1. ~Undisturbed'
    BY <1>13 DEF RequestFault
  <2> QED BY <1>2, <1>13, <2>1 DEF RequestFault
<1> QED BY <1>4, <1>5, <1>6, <1>7, <1>8, <1>9, <1>10, <1>11, <1>12, <1>13 DEF Handler, Serve

\* Signals is preserved by every step.
LEMMA SignalsStep ==
  ASSUME TypeOK, Lifeline, Signals, [Next]_vars
  PROVE  Signals'
<1>1. CASE UNCHANGED <<status, event, pc, req, accepted, bounds>>
  BY <1>1 DEF Signals, Undisturbed, bounds
<1>2. CASE Restart
  <2>1. ~Undisturbed'
    BY <1>2, Disturbance
  <2>2. \A c \in Clients : req'[c].op = "idle"
    BY <1>2 DEF Restart, Idle
  <2> QED BY <2>1, <2>2 DEF Signals
<1>3. ASSUME NEW j \in Jobs, Worker(j)
      PROVE  UNCHANGED <<status, event, pc, req, accepted, bounds>>
  BY <1>3 DEF Worker, WorkerTake, WorkerFinish, database, registry
<1>4. UNCHANGED vars => UNCHANGED <<status, event, pc, req, accepted, bounds>>
  BY DEF vars, bounds
<1> QED BY <1>1, <1>2, <1>3, <1>4, HandlerSignals, ThreadSignals DEF Next

-----------------------------------------------------------------------------
(* Theorems                                                                *)

\* The invariant holds initially and is preserved by every step.
LEMMA InitIInv == Init => IInv
<1> SUFFICES ASSUME Init PROVE IInv
  OBVIOUS
<1>1. Lifeline
  BY DEF Init, Lifeline, RunsOnce, Early, InPool, Idle
<1>2. Futures
  BY DEF Init, Futures, PoolIdle, Early, InPool, Queued, Entries
<1>3. Signals
  BY DEF Init, Signals, Active, Over, Idle
<1> QED BY <1>1, <1>2, <1>3, InitTypes DEF IInv

\* One step preserves the invariant.
LEMMA NextIInv == IInv /\ [Next]_vars => IInv'
BY TypeStep, SlotStep, LifelineStep, FuturesStep, SignalsStep DEF IInv

\* Every reachable state satisfies the inductive invariant.
THEOREM Invariance == Spec => []IInv
BY InitIInv, NextIInv, PTL DEF Spec

\* Every reachable state is well typed.
THEOREM TypeCorrect == Spec => []TypeOK
BY Invariance, PTL DEF IInv

\* No path through _run_job loses or invents a slot of the queue semaphore,
\* whatever raises and however often the process restarts.
THEOREM SlotsConserved == Spec => []SlotConservation
BY Invariance, PTL DEF IInv

\* Two POSTs of one job id never start two threads.
THEOREM OneRunPerJob == Spec => []RunsOnce
<1>1. IInv => RunsOnce
  BY DEF IInv, Lifeline
<1> QED BY <1>1, Invariance, PTL

\* A job whose status is terminal has no open session and will have none.
THEOREM TerminalIsQuiescent == Spec => []QuiescentWhenTerminal
<1>1. ASSUME IInv PROVE QuiescentWhenTerminal
  BY <1>1 DEF IInv, Lifeline, Futures, QuiescentWhenTerminal, Terminal, InPool
<1> QED BY <1>1, Invariance, PTL

\* A DELETE answered 200 reaches the thread of its job, or finds it decided.
THEOREM CancellationKept == Spec => []CancelNotLost
<1>1. ASSUME IInv PROVE CancelNotLost
  BY <1>1 DEF IInv, Signals, CancelNotLost, TypeOK
<1> QED BY <1>1, Invariance, PTL
=============================================================================
