--------------------------- MODULE WorkflowRunner ---------------------------
(***************************************************************************)
(* core/workflow_runner.py: one workflow job, from submit_workflow to the  *)
(* end of its thread.  The thread runs the steps one after another; a step *)
(* for devices is fanned out to a pool and its results are stored once the *)
(* pool is done.  Rollback steps run after a failure, conditions look at   *)
(* the results of earlier steps, DELETE /jobs/{id} may come at any time.   *)
(*                                                                         *)
(* What a script or a device session returns is "ok" or "bad" (exit code 0 *)
(* or not); "skip" is _SKIP_CODE, "none" a result that is not there.       *)
(*                                                                         *)
(* A definition marked "Slip" is a definition as it might be after a small *)
(* mistake in the code; no specification uses it.                          *)
(***************************************************************************)
EXTENDS JobStatuses, WorkflowParser

CONSTANTS
  Devices,      \* hosts
  Requests,     \* [file, devices]: what the workflow file holds and the
                \* device list of the request, expanded
  MaxWorkers,   \* options.max_workers
  MaxFailures   \* bound on failing database calls and restarts, together

\* What a file may hold, before parse() has looked at it.
RollbackSteps ==
  [type : STRING, run : STRING, body : BOOLEAN, when : [of : Nat, equal : BOOLEAN],
   only : SUBSET Devices]
Steps ==
  [type : STRING, run : STRING, body : BOOLEAN, when : [of : Nat, equal : BOOLEAN],
   only : SUBSET Devices, action : STRING, rollback : Seq(RollbackSteps)]

\* "all" stands for a condition looked at for no device in particular.
ASSUME RunnerAssumption ==
  /\ IsFiniteSet(Devices) /\ "all" \notin Devices
  /\ \A r \in Requests : /\ r.file \in Seq(Steps)
                         /\ r.devices \in Seq(Devices) \ {<<>>}
  /\ MaxWorkers \in Nat \ {0}
  /\ MaxFailures \in Nat

VARIABLES
  status, rows,  \* the job's rows in the tables jobs and devices
  codes,         \* exit codes in workflow_step_outputs
  wf, list,      \* the parsed definition, the device list
  registered,    \* the job is in _active_jobs
  pc, step, rb,  \* the thread's place: step number, rollback step number
  failed,        \* context["failed_devices"]
  context,       \* context["steps"]: exit code of each step, and per host
  session,       \* of the current fan-out, per entry of the device list
  got, left,     \* results by host of the current step, those not yet stored
  once,          \* result of the current shell/once step
  undone,        \* history, <<k, r, h>>: rollback step r of step k was tried for host h
  accepted,      \* 1 + the steps begun when DELETE was answered 200; 0: it was not
  failures

database == <<status, rows, codes>>
place    == <<pc, step, rb>>
results  == <<session, got, left, once>>
fixed    == <<wf, list, registered, accepted>>
vars     == <<database, fixed, place, failed, context, results, undone, failures>>

-----------------------------------------------------------------------------
Entries == DOMAIN list
Current == wf[step]

Codes    == {"none", "ok", "bad", "skip"}
NoResult == [h \in Devices |-> "none"]
NotRun   == [code |-> "none", devices |-> NoResult]

DbOk    == UNCHANGED failures
DbFault == failures < MaxFailures /\ failures' = failures + 1

Goto(from, to) == pc = from /\ pc' = to /\ UNCHANGED <<step, rb>>

\* An exception in the try block of _run_workflow_job.
Raise(from) == Goto(from, "fail") /\ DbFault

\* Slip: the value for all devices goes before the device's own.
ResolveRollup(k, h) ==
  IF k \notin DOMAIN context \/ context[k].code = "none" THEN "none"
  ELSE context[k].code

\* _resolve_lhs of steps.k.exit_code: the device's own result, else the one of
\* the step; a step or device that was skipped has exit code 0.
Resolve(k, h) ==
  LET own == IF h = "all" THEN "none" ELSE context[k].devices[h]
  IN IF k \notin DOMAIN context THEN "none"
     ELSE IF own = "skip"       THEN "ok"
     ELSE IF own # "none"       THEN own
     ELSE context[k].code

\* _evaluate_when, h = "all" for a step as a whole.
Holds(when, h) ==
  when.of # 0 => ((Resolve(when.of, h) = "ok") <=> when.equal)

\* _rollup_output
Rollup(R) ==
  IF \A h \in Devices : R[h] = "none"      THEN "none"
  ELSE IF \E h \in Devices : R[h] = "bad"  THEN "bad"
  ELSE "ok"

\* The statement to run is s for the device entries S of the list.
FanOut(S, to) ==
  /\ session' = [i \in Entries |-> IF i \in S THEN "queued" ELSE "none"]
  /\ pc' = to

\* Entries whose host is in H.
EntriesOf(H) == {i \in Entries : list[i] \in H}

-----------------------------------------------------------------------------
(* submit_workflow and the thread's frame                                  *)

Create ==
  /\ \/ Goto("create", "register") /\ status' = "queued" /\ DbOk
     \/ Goto("create", "done") /\ UNCHANGED status /\ DbFault
  /\ UNCHANGED <<rows, codes, fixed, failed, context, results, undone>>

\* _active_jobs[job_id] = cancel_ev, then t.start()
Register ==
  /\ Goto("register", "markrunning")
  /\ registered' = TRUE
  /\ UNCHANGED <<database, wf, list, accepted, failed, context, results, undone, failures>>

MarkRunning ==
  /\ \/ Goto("markrunning", "next") /\ status' = "running" /\ DbOk
     \/ Raise("markrunning") /\ UNCHANGED status
  /\ UNCHANGED <<rows, codes, fixed, failed, context, results, undone>>

\* for step in definition.steps.  The cancel event it looks at is never set.
NextStep ==
  /\ pc = "next"
  /\ IF step < Len(wf)
     THEN /\ step' = step + 1 /\ pc' = "begin"
          /\ got' = NoResult /\ once' = "none"
          /\ session' = [i \in Entries |-> "none"]
     ELSE pc' = "complete" /\ UNCHANGED <<step, got, once, session>>
  /\ UNCHANGED <<database, fixed, rb, failed, context, left, undone, failures>>

MarkComplete ==
  /\ \/ /\ Goto("complete", "finally")
        /\ status' = Verdict(rows, codes)
        /\ DbOk
     \/ Raise("complete") /\ UNCHANGED status
  /\ UNCHANGED <<rows, codes, fixed, failed, context, results, undone>>

\* Slip: the job is marked, but the thread does not return.
AbortFallsThrough ==
  /\ \/ Goto("abort", "complete") /\ status' = "failed" /\ DbOk
     \/ Raise("abort") /\ UNCHANGED status
  /\ UNCHANGED <<rows, codes, fixed, failed, context, results, undone>>

\* except _JobAbortError, inside the try block.
Abort ==
  /\ \/ Goto("abort", "finally") /\ status' = "failed" /\ DbOk
     \/ Raise("abort") /\ UNCHANGED status
  /\ UNCHANGED <<rows, codes, fixed, failed, context, results, undone>>

\* except Exception
MarkFailed ==
  /\ Goto("fail", "finally")
  /\ \/ status' = "failed" /\ DbOk
     \/ UNCHANGED status /\ DbFault
  /\ UNCHANGED <<rows, codes, fixed, failed, context, results, undone>>

Finally ==
  /\ Goto("finally", "done")
  /\ registered' = FALSE
  /\ UNCHANGED <<database, wf, list, accepted, failed, context, results, undone, failures>>

-----------------------------------------------------------------------------
(* _execute_step                                                           *)

\* insert_step_output of exit code c
StoreCode(c) == codes' = codes \cup {IF c = "bad" THEN 1 ELSE 0}

\* A shell step whose condition does not hold is skipped as a whole.
SkipStep ==
  /\ pc = "begin"
  /\ IsShell(Current) /\ ~Holds(Current.when, "all")
  /\ \/ /\ Goto("begin", "next")
        /\ StoreCode("ok")
        /\ context' = [context EXCEPT ![step].code = "ok"]
        /\ DbOk
     \/ Raise("begin") /\ UNCHANGED <<codes, context>>
  /\ UNCHANGED <<status, rows, fixed, failed, results, undone>>

\* _execute_shell_once, then its rollback when it fails.
RunOnce ==
  /\ pc = "begin"
  /\ IsShell(Current) /\ Current.run = "once" /\ Holds(Current.when, "all")
  /\ \E c \in {"ok", "bad"} :
       /\ once' = c
       /\ pc' = IF c = "bad" /\ Current.rollback # <<>> THEN "rollback" ELSE "storeonce"
  /\ rb' = 1
  /\ UNCHANGED <<database, fixed, step, failed, context, session, got, left, undone, failures>>

\* "stop" and "rollback" both abort the job.
StoreOnce ==
  /\ \/ /\ StoreCode(once)
        /\ DbOk
        /\ Goto("storeonce", IF once = "bad" /\ Current.action # "continue"
                             THEN "abort" ELSE "close")
     \/ Raise("storeonce") /\ UNCHANGED codes
  /\ UNCHANGED <<status, rows, fixed, failed, context, results, undone>>

\* The other steps go to the devices that have not failed.
StartFanOut ==
  /\ pc = "begin"
  /\ IsShell(Current) => Current.run = "per_device" /\ Holds(Current.when, "all")
  /\ FanOut(EntriesOf(Devices \ failed), "fan")
  /\ UNCHANGED <<database, fixed, step, rb, failed, context, got, left, once, undone, failures>>

-----------------------------------------------------------------------------
(* The pool of _fan_out                                                    *)

\* The step being fanned out.
Fanned == IF pc = "fan" THEN Current ELSE Current.rollback[rb]

\* The step does not concern host h: platform (device steps only), when.
NotFor(h) ==
  \/ ~IsShell(Fanned) /\ Fanned.only # {} /\ h \notin Fanned.only
  \/ ~Holds(Fanned.when, h)

\* What becomes of it at first: a device step fails at once, before it looks at
\* platform and condition, when the credentials cannot be resolved.
Starts(h) == {IF NotFor(h) THEN "skip" ELSE "running"}
               \cup (IF IsShell(Fanned) THEN {} ELSE {"bad"})

Open == {i \in Entries : session[i] = "running"}

\* Slip: nothing bounds the pool.
WorkerStartUnbounded(i) ==
  LET h == list[i] IN
  /\ pc \in {"fan", "rbfan"}
  /\ session[i] = "queued"
  /\ \E now \in Starts(h) :
       /\ session' = [session EXCEPT ![i] = now]
       /\ undone' = IF pc = "rbfan" /\ now # "skip" THEN undone \cup {<<step, rb, h>>}
                                                    ELSE undone
  /\ UNCHANGED <<database, fixed, place, failed, context, got, left, once, failures>>

WorkerStart(i) ==
  LET h == list[i] IN
  /\ pc \in {"fan", "rbfan"}
  /\ session[i] = "queued" /\ Cardinality(Open) < MaxWorkers
  /\ \E now \in Starts(h) :
       /\ session' = [session EXCEPT ![i] = now]
       /\ undone' = IF pc = "rbfan" /\ now # "skip" THEN undone \cup {<<step, rb, h>>}
                                                    ELSE undone
  /\ UNCHANGED <<database, fixed, place, failed, context, got, left, once, failures>>

\* _execute_device_step or _execute_shell_per_device returns, or raises (1).
\* A script killed by SIGHUP ends with -1, which is _SKIP_CODE.
WorkerFinish(i) ==
  /\ session[i] = "running"
  /\ \E c \in {"ok", "bad"} \cup (IF IsShell(Fanned) THEN {"skip"} ELSE {}) :
       session' = [session EXCEPT ![i] = c]
  /\ UNCHANGED <<database, fixed, place, failed, context, got, left, once, undone, failures>>

\* Slip: the pool is waited for until every device of the job has answered.
FanOutDoneAll ==
  /\ \A i \in Entries : session[i] \in {"ok", "bad", "skip"}
  /\ Goto("fan", "store")
  /\ left' = {list[i] : i \in Entries}
  /\ got' = [h \in Devices |-> session[CHOOSE i \in EntriesOf({h}) : TRUE]]
  /\ UNCHANGED <<database, fixed, failed, context, session, once, undone, failures>>

\* results[host]: when a host is listed twice the later result wins.
FanOutDone ==
  /\ \A i \in Entries : session[i] \notin {"queued", "running"}
  /\ Goto("fan", "store")
  /\ LET Hosts == {list[i] : i \in {e \in Entries : session[e] # "none"}} IN
     /\ left' = Hosts
     /\ got' \in {R \in [Devices -> Codes] :
                    \A h \in Devices : IF h \in Hosts
                      THEN \E i \in EntriesOf({h}) : R[h] = session[i]
                      ELSE R[h] = "none"}
  /\ UNCHANGED <<database, fixed, failed, context, session, once, undone, failures>>

-----------------------------------------------------------------------------
(* Results of a fan-out                                                    *)

\* Slip: only "stop" gives a device up.
GivesUpOnStop(s) == s.action = "stop"

\* A host that fails such a step is left out of the steps that follow.
GivesUp(s) == s.action # "continue"

\* Slip: a device that was skipped gets a row, too.
RowAlways(h) == ~IsShell(Current)

\* _update_device_result is for device steps that did something.
HasRow(h) == ~IsShell(Current) /\ got[h] # "skip"

\* One round of the loop over the results.  The output is stored first, the
\* row of the device last; either may raise.
StoreResult(h) ==
  LET givenUp == IF got[h] = "bad" /\ GivesUp(Current) THEN failed \cup {h} ELSE failed
      row == IF got[h] = "bad" THEN "failed" ELSE "success"
  IN
  /\ pc = "store" /\ h \in left
  /\ \/ /\ StoreCode(got[h]) /\ failed' = givenUp
        /\ rows' = IF HasRow(h) THEN [rows EXCEPT ![h] = row] ELSE rows
        /\ left' = left \ {h}
        /\ DbOk
        /\ UNCHANGED place
     \/ /\ Raise("store")
        /\ UNCHANGED <<codes, failed, rows, left>>
     \/ /\ HasRow(h) /\ Raise("store")
        /\ StoreCode(got[h]) /\ failed' = givenUp
        /\ rows' \in {rows, [rows EXCEPT ![h] = row]}
        /\ UNCHANGED left
  /\ UNCHANGED <<status, fixed, context, session, got, once, undone>>

FailedNow == {h \in failed : got[h] = "bad"}

StoreDone ==
  /\ pc = "store" /\ left = {}
  /\ pc' = IF FailedNow # {} /\ Current.rollback # <<>> THEN "rollback" ELSE "close"
  /\ rb' = 1
  /\ UNCHANGED <<database, fixed, step, failed, context, results, undone, failures>>

-----------------------------------------------------------------------------
(* _execute_rollback                                                       *)

\* failed_devices, empty after a shell/once step.
RollbackTargets == FailedNow

\* A rollback step for devices without targets, or a shell step with no run:
\* field, is passed over; what a shell/once step returns is only logged.
RollbackStep ==
  /\ pc = "rollback" /\ rb <= Len(Current.rollback)
  /\ LET s == Current.rollback[rb]
         fan == /\ RollbackTargets # {}
                /\ ~IsShell(s) \/ s.run = "per_device"
     IN IF fan THEN FanOut(EntriesOf(RollbackTargets), "rbfan") /\ UNCHANGED rb
               ELSE UNCHANGED <<session, pc>> /\ rb' = rb + 1
  /\ UNCHANGED <<database, fixed, step, failed, context, got, left, once, undone, failures>>

\* Slip: the first fan-out ends the rollback.
RollbackFanDoneReturns ==
  /\ pc = "rbfan"
  /\ \A i \in Entries : session[i] \notin {"queued", "running"}
  /\ pc' = "rollback" /\ rb' = Len(Current.rollback) + 1
  /\ UNCHANGED <<database, fixed, step, failed, context, results, undone, failures>>

\* Errors of rollback steps are output and nothing else.
RollbackFanDone ==
  /\ pc = "rbfan"
  /\ \A i \in Entries : session[i] \notin {"queued", "running"}
  /\ pc' = "rollback" /\ rb' = rb + 1
  /\ UNCHANGED <<database, fixed, step, failed, context, results, undone, failures>>

RollbackDone ==
  /\ pc = "rollback" /\ rb > Len(Current.rollback)
  /\ pc' = IF once # "none" THEN "storeonce" ELSE "close"
  /\ UNCHANGED <<database, fixed, step, rb, failed, context, results, undone, failures>>

\* context["steps"][step.name] = step_ctx: only now can conditions see it.
CloseStep ==
  /\ Goto("close", "next")
  /\ context' = [context EXCEPT ![step] =
       [code |-> IF once # "none" THEN once ELSE Rollup(got), devices |-> got]]
  /\ UNCHANGED <<database, fixed, failed, results, undone, failures>>

-----------------------------------------------------------------------------
\* DELETE /jobs/{id}: 200 when the status is active.  cancel_job looks in the
\* executor's registry, where no workflow is; the answer is the same.
Delete ==
  /\ status \in Active /\ accepted = 0
  /\ accepted' = step + 1
  /\ UNCHANGED <<database, wf, list, registered, place, failed, context, results, undone, failures>>

\* The process is restarted: thread and registry are gone.
Restart ==
  /\ pc # "done" /\ DbFault
  /\ pc' = "done" /\ registered' = FALSE
  /\ session' = [i \in Entries |-> "none"]
  /\ UNCHANGED <<database, wf, list, accepted, step, rb, failed, context, got, left, once, undone>>

Init ==
  /\ \E r \in Requests : Accepted(r.file) /\ wf = r.file /\ list = r.devices
  /\ status = "absent" /\ rows = NoResult /\ codes = {}
  /\ registered = FALSE /\ accepted = 0
  /\ pc = "create" /\ step = 0 /\ rb = 1
  /\ failed = {} /\ context = [k \in DOMAIN wf |-> NotRun]
  /\ session = [i \in Entries |-> "none"]
  /\ got = NoResult /\ left = {} /\ once = "none"
  /\ undone = {} /\ failures = 0

Thread ==
  \/ Create \/ Register \/ MarkRunning \/ NextStep \/ MarkComplete \/ Abort
  \/ MarkFailed \/ Finally
  \/ SkipStep \/ RunOnce \/ StoreOnce \/ StartFanOut \/ FanOutDone
  \/ \E h \in Devices : StoreResult(h)
  \/ StoreDone \/ RollbackStep \/ RollbackFanDone \/ RollbackDone \/ CloseStep

Pool == \E i \in Entries : WorkerStart(i) \/ WorkerFinish(i)

Next == Thread \/ Pool \/ Delete \/ Restart

Spec == Init /\ [][Next]_vars

\* The thread and the pool go on; sessions and scripts end (driver timeouts,
\* 300 s for a script).
FairSpec == Spec /\ WF_vars(Thread) /\ WF_vars(Pool)

-----------------------------------------------------------------------------
(* Correctness                                                             *)

Undisturbed == failures = 0

\* The variables keep the shapes the code gives them; no more sessions are
\* open than the pool has workers.
TypeOK ==
  /\ status \in Statuses /\ rows \in [Devices -> Row] /\ codes \subseteq {0, 1}
  /\ registered \in BOOLEAN /\ accepted \in 0..(Len(wf) + 1)
  /\ pc \in {"create", "register", "markrunning", "next", "begin", "fan", "store",
             "rollback", "rbfan", "storeonce", "close", "complete", "abort", "fail",
             "finally", "done"}
  /\ step \in 0..Len(wf) /\ rb \in Nat /\ failed \subseteq Devices
  /\ context \in [DOMAIN wf -> [code : {"none", "ok", "bad"}, devices : [Devices -> Codes]]]
  /\ session \in [Entries -> Codes \cup {"queued", "running"}]
  /\ Cardinality(Open) <= MaxWorkers
  /\ got \in [Devices -> Codes] /\ left \subseteq Devices
  /\ once \in {"none", "ok", "bad"}
  /\ undone \subseteq (DOMAIN wf) \X Nat \X Devices
  /\ failures \in 0..MaxFailures

\* A device that failed a step whose on_error is not "continue" is not touched
\* by any later step.
Result(k, h) == context[k].devices[h]
FailedDevicesAreLeftAlone ==
  \A k \in DOMAIN wf, h \in Devices :
    Result(k, h) = "bad" /\ wf[k].action # "continue" =>
      /\ \A m \in DOMAIN wf : m > k => Result(m, h) = "none"
      /\ pc = "fan" /\ step > k => \A i \in EntriesOf({h}) : session[i] = "none"

\* Rollback step r of step k is for host h: it runs on devices, names no other
\* platform, and its condition holds by the results of the steps before k; one
\* that names step k or a later one finds no exit code.
Due(k, r, h) ==
  LET s == wf[k].rollback[r] IN
  /\ IF IsShell(s) THEN s.run = "per_device" ELSE s.only = {} \/ h \in s.only
  /\ IF s.when.of < k THEN Holds(s.when, h) ELSE ~s.when.equal

\* Rollback is for the devices that failed the step, and for all of them: once
\* the step is closed, each of its rollback steps has been tried for each of the
\* devices it is for, whatever became of the rollback steps before it.
RollbackFitsFailures ==
  /\ \A u \in undone : u[1] < step => Result(u[1], u[3]) = "bad"
  /\ \A u \in undone : u[1] = step => got[u[3]] = "bad"
  /\ \A k \in DOMAIN wf, h \in Devices :
       Result(k, h) = "bad" /\ wf[k].action # "continue" =>
         \A r \in DOMAIN wf[k].rollback : Due(k, r, h) => <<k, r, h>> \in undone

\* "completed" is not said over a device whose last step on it failed, however
\* many steps wrote its one row: when every host is listed once, its row is the
\* outcome of the last device step that was not skipped.
DeviceSteps(h) ==
  {k \in DOMAIN wf : ~IsShell(wf[k]) /\ Result(k, h) \in {"ok", "bad"}}
RowIsLastResult ==
  Undisturbed /\ pc \in {"next", "complete", "finally"} =>
    \A h \in Devices :
      rows[h] = IF DeviceSteps(h) = {} THEN "none"
                ELSE LET last == CHOOSE k \in DeviceSteps(h) :
                                   \A m \in DeviceSteps(h) : m <= k
                     IN IF Result(last, h) = "ok" THEN "success" ELSE "failed"

\* What the condition of a step asks of a device's own result.
Meets(when, c) == c \in (IF when.equal THEN {"ok", "skip"} ELSE {"bad"})

\* A condition on an earlier step for devices is decided, for each device, by
\* what that device did there and never by what the others did: a device whose
\* result does not meet it is left out, and of a device step one whose result
\* meets it is not.  (A script for each device is decided on for the step as a
\* whole first, by what all devices did: only the first half holds of it.)
OwnResultDecides ==
  LET k == Current.when.of IN
  pc = "fan" /\ k \in 1..(step - 1) /\ (\E g \in Devices : Result(k, g) # "none") =>
    \A i \in Entries :
      /\ session[i] \in {"running", "ok"} => Meets(Current.when, Result(k, list[i]))
      /\ /\ session[i] = "skip" /\ ~IsShell(Current)
         /\ Current.only = {} \/ list[i] \in Current.only
         => ~Meets(Current.when, Result(k, list[i]))

\* The workflow gives its place in _active_jobs back and ends, whatever fails.
WorkflowEnds ==
  registered ~> ~registered /\ (status \in Terminal \/ ~Undisturbed)

\* A workflow is a job like any other to the clients that poll it, whatever
\* fails: nothing in the try block of its thread comes after mark_complete, so
\* that the except clause never takes a final status back.
Lifecycle == INSTANCE JobLifecycle
  WITH Jobs <- {"job"}, status <- [j \in {"job"} |-> status],
       rows <- [j \in {"job"} |-> rows]
ImplementsLifecycle == Lifecycle!LifecycleSpec

\* DELETE answers "Cancellation signal sent. In-flight sessions will complete
\* before stopping.": no step is begun after the one under way and the one the
\* thread may just be entering.
CancelStopsWorkflow == accepted # 0 => step <= accepted
=============================================================================
