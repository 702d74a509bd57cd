---------------------------- MODULE JobExecutor ----------------------------
(***************************************************************************)
(* core/executor.py with the endpoints of api/routes/jobs.py that drive it *)
(* and the rows JobStore keeps in PostgreSQL.                              *)
(*                                                                         *)
(* POST /jobs runs in a handler thread: it checks, registers the cancel    *)
(* event, inserts the job row and starts one background thread per job.    *)
(* That thread takes a slot of the global semaphore, submits one future    *)
(* per device to a pool, stores each result as it completes, writes the    *)
(* terminal status and frees the slot.  DELETE /jobs/{id} runs in another  *)
(* handler thread and sets the cancel event.                               *)
(*                                                                         *)
(* One action is what runs between two points where another thread can     *)
(* observe or change shared state: every database call, semaphore          *)
(* operation and event access.  A database call may raise (the connection  *)
(* pool is exhausted, the server is gone): at most MaxFaults times.  The   *)
(* process may be restarted, at most MaxCrashes times; PostgreSQL is not.  *)
(***************************************************************************)
EXTENDS JobStatuses, Sequences

CONSTANTS
  Jobs,          \* job ids clients submit
  Clients,       \* concurrent HTTP handlers
  Devices,       \* hosts
  DeviceList,    \* the expanded device list of the request for each job
  MaxWorkers,    \* min(options.max_workers, executor.max_workers)
  MaxQueueDepth, \* executor.max_queue_depth
  Results,       \* what a device session may return: a subset of Outcome
  MaxFaults,     \* bound on database calls that raise
  MaxCrashes     \* bound on restarts of the process

ASSUME ExecutorAssumption ==
  /\ IsFiniteSet(Jobs)
  /\ DeviceList \in [Jobs -> Seq(Devices) \ {<<>>}]
  /\ MaxWorkers \in Nat \ {0}
  /\ MaxQueueDepth \in Nat \ {0}
  /\ Results \subseteq Outcome
  /\ MaxFaults \in Nat
  /\ MaxCrashes \in Nat

VARIABLES
  status,    \* jobs.status, in the database
  rows,      \* devices.status, in the database
  event,     \* _cancel_events: "none" when the job has no entry
  slots,     \* the value of _queue_sem
  pc,        \* where the job's background thread is
  at,        \* device the submission loop is at, then the future yielded last
  fut,       \* state of the future of each device of the job
  stored,    \* futures whose result the collection loop has stored
  req,       \* what each HTTP handler is doing
  accepted,  \* jobs whose DELETE this process has answered 200
  faults,    \* database calls that have raised so far
  crashes    \* restarts so far

database == <<status, rows>>
registry == <<event, slots>>
pool     == <<at, fut, stored>>
bounds   == <<faults, crashes>>
vars == <<status, rows, event, slots, pc, at, fut, stored, req, accepted,
          faults, crashes>>

-----------------------------------------------------------------------------
Entries(j) == DOMAIN DeviceList[j]

\* Positions of the background thread.
Holding   == {"check", "markrunning", "submit", "collect", "withdraw", "result",
              "drain", "final", "markcancelled", "markcomplete", "report",
              "except", "release"}
ThreadPcs == {"none", "acquire", "timedout", "cleanup", "done"} \cup Holding

\* States of a future.  "cancelled" is CANCELLED in the work queue, "notified"
\* CANCELLED_AND_NOTIFIED, "lost" one that died with the process.
Finished  == Outcome \cup {"notified"}
Queued    == {"pending", "cancelled"}
FutStates == {"idle", "running", "lost"} \cup Queued \cup Finished

\* Future i is the oldest of job j in one of the states S.
FirstIn(j, S, i) ==
  /\ fut[j][i] \in S
  /\ \A k \in Entries(j) : k < i => fut[j][k] \notin S

Idle     == [op |-> "idle"]
Requests == {Idle} \cup
            [op : {"exists", "depth", "register", "create", "start",
                   "cancellable", "signal"}, job : Jobs]

\* A database call raises: the caller decides what that does.
DbFault == faults < MaxFaults /\ faults' = faults + 1 /\ UNCHANGED crashes
DbOk    == UNCHANGED bounds

Reply(c)    == req' = [req EXCEPT ![c] = Idle]
Advance(c, from, to) ==
  /\ req[c].op = from
  /\ req' = [req EXCEPT ![c].op = to]

Goto(j, from, to) == pc[j] = from /\ pc' = [pc EXCEPT ![j] = to]

\* A status update of the try block: on to the next statement, or to the
\* except clause when the database raises.
Mark(j, from, s, to) ==
  /\ \/ /\ Goto(j, from, to)
        /\ status' = [status EXCEPT ![j] = s]
        /\ DbOk
     \/ /\ Goto(j, from, "except")
        /\ DbFault
        /\ UNCHANGED status
  /\ UNCHANGED <<rows, registry, pool, req, accepted>>

\* The pool has no work left: leaving its block waits for this.
PoolIdle(j) == \A i \in Entries(j) : fut[j][i] \notin Queued \cup {"running"}

-----------------------------------------------------------------------------
(* Slips of the operations below, one edit away from the code.  No          *)
(* specification uses them: each shows which property would notice.        *)

\* The registry hands out a new event each time it is asked.
RegisteredAfresh(e, j) == [e EXCEPT ![j] = "clear"]

\* INSERT replaces a row that is there.
PostCreateUpserts(c) ==
  LET j == req[c].job IN
  /\ Advance(c, "create", "start")
  /\ status' = [status EXCEPT ![j] = "queued"]
  /\ UNCHANGED <<rows, registry, pc, pool, accepted, bounds>>

\* The event is dropped before the timeout is recorded.
AcquireTimeoutCleansUp(j) ==
  /\ slots = 0
  /\ Goto(j, "acquire", "timedout")
  /\ event' = [event EXCEPT ![j] = "none"]
  /\ UNCHANGED <<database, slots, pool, req, accepted, bounds>>

\* The timeout is handled inside the try block: its finally gives back a slot.
QueueFullInTry(j) ==
  /\ Goto(j, "timedout", "release")
  /\ status' = [status EXCEPT ![j] = "failed"]
  /\ UNCHANGED <<rows, registry, pool, req, accepted, bounds>>

\* A cancelled job returns without mark_cancelled.
CheckCancelledForgets(j) ==
  /\ Goto(j, "check", IF event[j] = "set" THEN "release" ELSE "markrunning")
  /\ UNCHANGED <<database, registry, pool, req, accepted, bounds>>

\* The early return is outside the try block; or there is no return.
MarkCancelledLeaks(j)        == Mark(j, "markcancelled", "cancelled", "cleanup")
MarkCancelledFallsThrough(j) == Mark(j, "markcancelled", "cancelled", "markcomplete")

\* The loop that withdraws stops at the first future it cancels.
WithdrawOne(j) ==
  /\ Goto(j, "withdraw", "result")
  /\ fut' = [fut EXCEPT ![j] =
       [i \in Entries(j) |-> IF FirstIn(j, {"pending"}, i) THEN "cancelled" ELSE @[i]]]
  /\ UNCHANGED <<database, registry, at, stored, req, accepted, bounds>>

\* CancelledError is not an Exception: only the finally clause runs.
ResultEscapes(j) ==
  /\ Goto(j, "result", "release")
  /\ fut[j][at[j]] = "notified"
  /\ UNCHANGED <<database, registry, pool, req, accepted, bounds>>

\* A cancelled job leaves the collection loop when the last session has ended.
CollectEndEarly(j) ==
  /\ (event[j] = "set" /\ PoolIdle(j)) \/ \A i \in Entries(j) : fut[j][i] = "idle" \/ i \in stored[j]
  /\ Goto(j, "collect", "final")
  /\ UNCHANGED <<database, registry, pool, req, accepted, bounds>>

\* The collection waits for every device of the request, submitted or not.
CollectEndAll(j) ==
  /\ stored[j] = Entries(j)
  /\ Goto(j, "collect", "final")
  /\ UNCHANGED <<database, registry, pool, req, accepted, bounds>>

\* The pool is shut down with wait=False.
DrainedAtOnce(j) ==
  /\ Goto(j, "drain", "except")
  /\ UNCHANGED <<database, registry, pool, req, accepted, bounds>>

\* _get_cancel_event
Registered(e, j) == [e EXCEPT ![j] = IF @ = "none" THEN "clear" ELSE @]

-----------------------------------------------------------------------------
(* POST /jobs                                                              *)

PostArrive(c, j) ==
  /\ req[c] = Idle
  /\ req' = [req EXCEPT ![c] = [op |-> "exists", job |-> j]]
  /\ UNCHANGED <<database, registry, pc, pool, accepted, bounds>>

\* 409 when the job row exists.
PostExists(c) ==
  /\ req[c].op = "exists"
  /\ IF status[req[c].job] = "absent"
       THEN Advance(c, "exists", "depth")
       ELSE Reply(c)
  /\ UNCHANGED <<database, registry, pc, pool, accepted, bounds>>

\* 503 when no slot is free, 400 for a request that does not validate.
PostDepth(c) ==
  /\ req[c].op = "depth"
  /\ \/ slots > 0 /\ Advance(c, "depth", "register")
     \/ Reply(c)
  /\ UNCHANGED <<database, registry, pc, pool, accepted, bounds>>

\* submit_job: the cancel event exists before the job can be seen.
PostRegister(c) ==
  /\ Advance(c, "register", "create")
  /\ event' = Registered(event, req[c].job)
  /\ UNCHANGED <<database, slots, pc, pool, accepted, bounds>>

\* store.create: 500 when another request has inserted the same job_id.
PostCreate(c) ==
  LET j == req[c].job IN
  /\ req[c].op = "create"
  /\ IF status[j] = "absent"
       THEN /\ status' = [status EXCEPT ![j] = "queued"]
            /\ Advance(c, "create", "start")
       ELSE UNCHANGED status /\ Reply(c)
  /\ UNCHANGED <<rows, registry, pc, pool, accepted, bounds>>

\* t.start(); the thread begins by looking its event up again.  202.
PostStart(c) ==
  LET j == req[c].job IN
  /\ req[c].op = "start"
  /\ pc' = [pc EXCEPT ![j] = "acquire"]
  /\ event' = Registered(event, j)
  /\ Reply(c)
  /\ UNCHANGED <<database, slots, pool, accepted, bounds>>

-----------------------------------------------------------------------------
(* DELETE /jobs/{job_id}                                                   *)

DeleteArrive(c, j) ==
  /\ req[c] = Idle
  /\ req' = [req EXCEPT ![c] = [op |-> "cancellable", job |-> j]]
  /\ UNCHANGED <<database, registry, pc, pool, accepted, bounds>>

\* 404 when there is no such job, 409 when its status is terminal.
DeleteCheck(c) ==
  /\ req[c].op = "cancellable"
  /\ IF status[req[c].job] \in Active
       THEN Advance(c, "cancellable", "signal")
       ELSE Reply(c)
  /\ UNCHANGED <<database, registry, pc, pool, accepted, bounds>>

\* cancel_job: its result is ignored, the answer is 200 either way.
DeleteSignal(c) ==
  LET j == req[c].job IN
  /\ req[c].op = "signal"
  /\ event' = [event EXCEPT ![j] = IF @ = "none" THEN @ ELSE "set"]
  /\ accepted' = accepted \cup {j}
  /\ Reply(c)
  /\ UNCHANGED <<database, slots, pc, pool, bounds>>

\* A database call of a handler raises: 500.  The event stays registered.
RequestFault(c) ==
  /\ req[c].op \in {"exists", "create", "cancellable"}
  /\ DbFault
  /\ Reply(c)
  /\ UNCHANGED <<database, registry, pc, pool, accepted>>

-----------------------------------------------------------------------------
(* The background thread, _run_job                                         *)

\* _queue_sem.acquire(timeout=5)
Acquire(j) ==
  /\ slots > 0
  /\ Goto(j, "acquire", "check")
  /\ slots' = slots - 1
  /\ UNCHANGED <<database, event, pool, req, accepted, bounds>>

AcquireTimeout(j) ==
  /\ slots = 0
  /\ Goto(j, "acquire", "timedout")
  /\ UNCHANGED <<database, registry, pool, req, accepted, bounds>>

\* "Queue full": if mark_failed raises, the thread dies with its event.
QueueFull(j) ==
  /\ \/ /\ Goto(j, "timedout", "cleanup")
        /\ status' = [status EXCEPT ![j] = "failed"]
        /\ DbOk
     \/ /\ Goto(j, "timedout", "done")
        /\ DbFault
        /\ UNCHANGED status
  /\ UNCHANGED <<rows, registry, pool, req, accepted>>

CheckCancelled(j) ==
  /\ Goto(j, "check", IF event[j] = "set" THEN "markcancelled" ELSE "markrunning")
  /\ UNCHANGED <<database, registry, pool, req, accepted, bounds>>

MarkRunning(j)   == Mark(j, "markrunning", "running", "submit")
MarkCancelled(j) == Mark(j, "markcancelled", "cancelled", "release")
MarkComplete(j)  == Mark(j, "markcomplete", Verdict(rows[j], {}), "report")

\* for device in request.devices: break when cancelled, else pool.submit.
SubmitNext(j) ==
  /\ event[j] # "set"
  /\ at[j] \in Entries(j)
  /\ Goto(j, "submit", "submit")
  /\ fut'  = [fut EXCEPT ![j][at[j]] = "pending"]
  /\ at'  = [at EXCEPT ![j] = @ + 1]
  /\ UNCHANGED <<database, registry, stored, req, accepted, bounds>>

SubmitEnd(j) ==
  /\ event[j] = "set" \/ at[j] \notin Entries(j)
  /\ Goto(j, "submit", "collect")
  /\ UNCHANGED <<database, registry, pool, req, accepted, bounds>>

\* as_completed yields the finished future i and the event is read.
Yield(j, i) ==
  /\ fut[j][i] \in Finished
  /\ i \notin stored[j]
  /\ Goto(j, "collect", IF event[j] = "set" THEN "withdraw" ELSE "result")
  /\ at' = [at EXCEPT ![j] = i]
  /\ UNCHANGED <<database, registry, fut, stored, req, accepted, bounds>>

\* for f in futures: f.cancel().  Only a future no worker has taken yet is
\* affected; the workers go on taking the ones the loop has not reached.
Withdraw(j) ==
  /\ \/ \E i \in Entries(j) :
          /\ FirstIn(j, {"pending"}, i)
          /\ Goto(j, "withdraw", "withdraw")
          /\ fut' = [fut EXCEPT ![j][i] = "cancelled"]
     \/ /\ \A i \in Entries(j) : fut[j][i] # "pending"
        /\ Goto(j, "withdraw", "result")
        /\ UNCHANGED fut
  /\ UNCHANGED <<database, registry, at, stored, req, accepted, bounds>>

\* store.update_device: the upsert, then commands and export, which may still
\* raise when the row is committed.  An exception leaves the pool's block.
StoreResult(j) ==
  LET i == at[j]
      upsert == rows' = [rows EXCEPT ![j][DeviceList[j][i]] = fut[j][i]]
  IN
  /\ pc[j] = "result"
  /\ fut[j][i] \in Outcome
  /\ \/ /\ Goto(j, "result", "collect")
        /\ upsert
        /\ stored' = [stored EXCEPT ![j] = @ \cup {i}]
        /\ DbOk
     \/ /\ Goto(j, "result", "drain")
        /\ upsert \/ UNCHANGED rows
        /\ DbFault
        /\ UNCHANGED stored
  /\ UNCHANGED <<status, registry, at, fut, req, accepted>>

\* result() of a withdrawn future raises CancelledError.
ResultRaises(j) ==
  /\ Goto(j, "result", "drain")
  /\ fut[j][at[j]] = "notified"
  /\ UNCHANGED <<database, registry, pool, req, accepted, bounds>>

CollectEnd(j) ==
  /\ \A i \in Entries(j) : fut[j][i] = "idle" \/ i \in stored[j]
  /\ Goto(j, "collect", "final")
  /\ UNCHANGED <<database, registry, pool, req, accepted, bounds>>

Drained(j) ==
  /\ PoolIdle(j)
  /\ Goto(j, "drain", "except")
  /\ UNCHANGED <<database, registry, pool, req, accepted, bounds>>

CheckFinal(j) ==
  /\ Goto(j, "final", IF event[j] = "set" THEN "markcancelled" ELSE "markcomplete")
  /\ UNCHANGED <<database, registry, pool, req, accepted, bounds>>

\* store.get_status, for the log line only, inside the same try block.
ReadBack(j) ==
  /\ \/ Goto(j, "report", "release") /\ DbOk
     \/ Goto(j, "report", "except") /\ DbFault
  /\ UNCHANGED <<database, registry, pool, req, accepted>>

\* except Exception: mark_failed; finally runs even if that raises too.
MarkFailed(j) ==
  /\ Goto(j, "except", "release")
  /\ \/ status' = [status EXCEPT ![j] = "failed"] /\ DbOk
     \/ UNCHANGED status /\ DbFault
  /\ UNCHANGED <<rows, registry, pool, req, accepted>>

Release(j) ==
  /\ Goto(j, "release", "cleanup")
  /\ slots' = slots + 1
  /\ UNCHANGED <<database, event, pool, req, accepted, bounds>>

CleanUp(j) ==
  /\ Goto(j, "cleanup", "done")
  /\ event' = [event EXCEPT ![j] = "none"]
  /\ UNCHANGED <<database, slots, pool, req, accepted, bounds>>

-----------------------------------------------------------------------------
(* The worker threads of the job's ThreadPoolExecutor                      *)

Running(j) == {i \in Entries(j) : fut[j][i] = "running"}

\* A free worker takes the head of the work queue: it runs a pending future
\* and only notifies the waiter of a cancelled one.
WorkerTake(j, i) ==
  /\ Cardinality(Running(j)) < MaxWorkers
  /\ FirstIn(j, Queued, i)
  /\ fut' = [fut EXCEPT ![j][i] = IF @ = "pending" THEN "running" ELSE "notified"]
  /\ UNCHANGED <<database, registry, pc, at, stored, req, accepted, bounds>>

\* run_device_job returns a DeviceResult, never raises.
WorkerFinish(j, i) ==
  /\ fut[j][i] = "running"
  /\ \E o \in Results : fut' = [fut EXCEPT ![j][i] = o]
  /\ UNCHANGED <<database, registry, pc, at, stored, req, accepted, bounds>>

-----------------------------------------------------------------------------
\* The process dies and systemd restarts it: threads, events, semaphore and
\* open requests are gone, the database is as it was.
Restart ==
  /\ crashes < MaxCrashes
  /\ crashes' = crashes + 1
  /\ event' = [j \in Jobs |-> "none"]
  /\ slots' = MaxQueueDepth
  /\ pc'    = [j \in Jobs |-> IF status[j] = "absent" THEN "none" ELSE "done"]
  /\ fut'   = [j \in Jobs |-> [i \in Entries(j) |->
                 IF fut[j][i] \in Queued \cup {"running"} THEN "lost" ELSE fut[j][i]]]
  /\ req'   = [c \in Clients |-> Idle]
  /\ accepted' = {}
  /\ UNCHANGED <<database, at, stored, faults>>

Init ==
  /\ status = [j \in Jobs |-> "absent"]
  /\ rows   = [j \in Jobs |-> [d \in Devices |-> "none"]]
  /\ event  = [j \in Jobs |-> "none"]
  /\ slots  = MaxQueueDepth
  /\ pc     = [j \in Jobs |-> "none"]
  /\ at     = [j \in Jobs |-> 1]
  /\ fut    = [j \in Jobs |-> [i \in Entries(j) |-> "idle"]]
  /\ stored = [j \in Jobs |-> {}]
  /\ req    = [c \in Clients |-> Idle]
  /\ accepted = {}
  /\ faults = 0
  /\ crashes = 0

Serve(c) ==
  \/ PostExists(c) \/ PostDepth(c) \/ PostRegister(c) \/ PostCreate(c)
  \/ PostStart(c) \/ DeleteCheck(c) \/ DeleteSignal(c)

Thread(j) ==
  \/ Acquire(j) \/ AcquireTimeout(j) \/ QueueFull(j) \/ CheckCancelled(j)
  \/ MarkRunning(j) \/ SubmitNext(j) \/ SubmitEnd(j)
  \/ \E i \in Entries(j) : Yield(j, i)
  \/ Withdraw(j) \/ StoreResult(j) \/ ResultRaises(j) \/ CollectEnd(j) \/ Drained(j) \/ CheckFinal(j)
  \/ MarkCancelled(j) \/ MarkComplete(j) \/ ReadBack(j) \/ MarkFailed(j)
  \/ Release(j) \/ CleanUp(j)

Worker(j) == \E i \in Entries(j) : WorkerTake(j, i) \/ WorkerFinish(j, i)

Handler(c) ==
  \/ Serve(c) \/ RequestFault(c)
  \/ \E j \in Jobs : PostArrive(c, j) \/ DeleteArrive(c, j)

Next ==
  \/ \E c \in Clients : Handler(c)
  \/ \E j \in Jobs : Thread(j) \/ Worker(j)
  \/ Restart

Spec == Init /\ [][Next]_vars

\* Threads that can run do run; sessions end, the SSH driver bounds every
\* operation by timeout_per_device.  Clients need never call, nothing forces
\* a fault, and the process need not be restarted.
Fairness ==
  /\ \A c \in Clients : WF_vars(Serve(c))
  /\ \A j \in Jobs : WF_vars(Thread(j)) /\ WF_vars(Worker(j))

FairSpec == Spec /\ Fairness

-----------------------------------------------------------------------------
(* Correctness                                                             *)

\* The variables keep the shapes the code gives them; the semaphore is never
\* above its initial value nor below zero.
TypeOK ==
  /\ status \in [Jobs -> Statuses]
  /\ rows \in [Jobs -> [Devices -> Row]]
  /\ event \in [Jobs -> {"none", "clear", "set"}]
  /\ slots \in 0..MaxQueueDepth
  /\ pc \in [Jobs -> ThreadPcs]
  /\ at \in [Jobs -> Nat]
  /\ DOMAIN fut = Jobs /\ DOMAIN stored = Jobs
  /\ \A j \in Jobs : /\ fut[j] \in [Entries(j) -> FutStates]
                     /\ stored[j] \subseteq Entries(j)
  /\ req \in [Clients -> Requests]
  /\ accepted \subseteq Jobs
  /\ faults \in 0..MaxFaults
  /\ crashes \in 0..MaxCrashes

\* Every slot is either free or held by exactly one live job thread, on every
\* path through _run_job: early returns, exceptions, failing marks.  It is
\* what makes max_queue_depth a bound and keeps 503s from becoming permanent.
Holders == {j \in Jobs : pc[j] \in Holding}
SlotConservation == slots + Cardinality(Holders) = MaxQueueDepth

\* A cancellation answered 200 is never dropped while the process that
\* answered it lives and the database works: until the status is terminal the
\* thread's event is set, though handlers, cleanup and duplicate POSTs all
\* write the registry.
Undisturbed == faults = 0 /\ crashes = 0
CancelNotLost ==
  Undisturbed => \A j \in accepted : event[j] = "set" \/ status[j] \in Terminal

\* A job id submitted twice runs once, however the two POSTs interleave: at
\* most one handler gets as far as starting a thread, and none when the job
\* has had one.
RunsOnce ==
  \A c \in Clients :
    req[c].op = "start" =>
      /\ pc[req[c].job] = "none"
      /\ \A e \in Clients \ {c} : req[e] # req[c]

\* A client that reads a terminal status may rely on the devices being left
\* alone: no session of the job is open and none can start.
QuiescentWhenTerminal ==
  \A j \in Jobs : status[j] \in Terminal => PoolIdle(j)

\* Once the collection loop has withdrawn one session it has withdrawn all
\* that had not started: past it a worker can open no new session.
WithdrawnAll(j) ==
  /\ pc[j] \in {"result", "collect", "drain"}
  /\ \E i \in Entries(j) : fut[j][i] \in {"cancelled", "notified"}
  => \A i \in Entries(j) : fut[j][i] # "pending"
WithdrawalIsTotal == \A j \in Jobs : WithdrawnAll(j)

\* The final status tells the truth about the sessions: "completed" only when
\* for every entry of the list one with its host succeeded (the entry itself,
\* unless _expand_devices left the host in twice), "partial_failure" only with
\* a row of each kind, and neither one of these nor "cancelled" hides a session
\* that ran: its row is there.
Sessions(j, o) == {i \in Entries(j) : fut[j][i] \in o}
StatusIsTrue(j) ==
  /\ status[j] = "completed" =>
       \A i \in Entries(j) :
         \E k \in Sessions(j, {"success"}) : DeviceList[j][k] = DeviceList[j][i]
  /\ status[j] = "partial_failure" =>
       \A o \in Outcome : WithRow(rows[j], o) # {}
  /\ status[j] \in {"completed", "partial_failure"} =>
       Sessions(j, Outcome) = Entries(j)
  /\ status[j] \in {"completed", "partial_failure", "cancelled"} =>
       \A i \in Sessions(j, Outcome) : rows[j][DeviceList[j][i]] # "none"
FinalStatusIsTrue == \A j \in Jobs : StatusIsTrue(j)

\* A job nobody can bring to an end: it looks active and its thread is gone.
\* As long as the process lives each one costs a failed database call.
Orphans == {j \in Jobs : pc[j] = "done" /\ status[j] \in Active}
OrphansNeedFaults == crashes = 0 => Cardinality(Orphans) <= faults

\* A terminal status is only ever taken back by the except clause, after a
\* database error, and only for "failed".
ReversalNeedsFault ==
  [][\A j \in Jobs :
       status[j] \in Terminal /\ status'[j] # status[j]
         => status'[j] = "failed" /\ pc[j] = "except" /\ faults > 0]_vars

\* What clients are promised, see JobLifecycle.
Lifecycle == INSTANCE JobLifecycle
ImplementsLifecycle == Lifecycle!LifecycleSpec

\* A job that is queued ends, whatever is cancelled, rejected or in the way.
JobEnds ==
  \A j \in Jobs : status[j] = "queued" ~> status[j] \in Terminal

\* A slot taken is returned, even when database calls fail on the way.
SlotReturned == \A j \in Jobs : pc[j] \in Holding ~> pc[j] \notin Holding

\* DELETE answers 200 "Cancellation signal sent. In-flight sessions will
\* complete before stopping.": the job then comes to a stop.
AcceptedCancelStops ==
  \A j \in Jobs : j \in accepted ~> status[j] \in Terminal

\* tests/test_cancellation.py: with sessions that succeed, a job whose DELETE
\* was answered 200 ends cancelled, completed or partially failed.
CancelledEndsAsTested ==
  \A j \in accepted :
    status[j] \in Terminal => status[j] \in {"cancelled", "completed", "partial_failure"}
=============================================================================
