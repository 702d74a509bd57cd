------------------------------ MODULE JobStore ------------------------------
(***************************************************************************)
(* core/job_store.py, statement by statement, for one job: the methods its *)
(* thread calls one after another, the snapshot each of them exports to    *)
(* logs/jobs/<id>.json, the requests that read database and file meanwhile *)
(* (api/routes/jobs.py, api/routes/logs.py) and the BigFix script that     *)
(* polls the status and then downloads the file.                           *)
(*                                                                         *)
(* JobExecutor takes each of these methods as one step; here every query   *)
(* is a step, and the abstract lifecycle is implemented all the same.      *)
(*                                                                         *)
(* A definition marked "Slip" is a definition as it might be after a small *)
(* mistake in the code; no specification uses it.                          *)
(***************************************************************************)
EXTENDS JobStatuses, Sequences

CONSTANTS
  Devices,     \* hosts of the job
  Readers,     \* concurrent GET requests
  MaxUpdates,  \* bound on the results stored (a host may have several)
  MaxPolls,    \* MAX_POLLS of the script
  MaxFailures  \* bound on failing queries and writes and on restarts, together

ASSUME StoreAssumption ==
  /\ IsFiniteSet(Devices)
  /\ {MaxUpdates, MaxPolls, MaxFailures} \subseteq Nat

VARIABLES
  status,    \* jobs.status, "absent" before the INSERT
  rows,      \* devices: outcome, and which result n it is of
  commands,  \* commands: the result whose commands are in the table, 0 if none
  op,        \* the store method called last
  todo,      \* what it has still to do
  target,    \* the status it is about to write
  result,    \* the device result it is about to write
  thread,    \* the job's thread: "runs", "raised" (an exception), "gone"
  snap,      \* what _export_json has read so far
  file,      \* the exported file: absent, torn (truncated, not yet written), whole
  reader,    \* per GET request: its reads so far and those left
  client,    \* the polling script
  failures   \* failing queries, failing writes and restarts so far

database == <<status, rows, commands>>
calls    == <<op, target, result, thread>>
export   == <<snap, file>>
others   == <<reader, client>>
vars     == <<database, calls, todo, export, others, failures>>

-----------------------------------------------------------------------------
Results  == [host : Devices, outcome : Outcome, n : 1..MaxUpdates]
NoRow    == [outcome |-> "none", n |-> 0]
Rows     == [Devices -> [outcome : Row, n : 0..MaxUpdates]]
Snapshot == [status : Statuses, rows : Rows, commands : [Devices -> 0..MaxUpdates]]
Current  == [status |-> status, rows |-> rows, commands |-> commands]
Blank    == [status   |-> "absent", rows |-> [d \in Devices |-> NoRow],
             commands |-> [d \in Devices |-> 0]]

Outcomes(R) == [d \in Devices |-> R[d].outcome]

\* get_job_summary_counts
Counts(R) == [success |-> Cardinality(WithRow(Outcomes(R), "success")),
              failed  |-> Cardinality(WithRow(Outcomes(R), "failed"))]

\* _export_json: the job row, the device rows, their commands, then the file.
Export == <<"job", "devices", "cmds", "open", "write">>

\* Slips: only status changes are exported; or only the results are.
PlanExportsStatus(o) ==
  IF o = "update"        THEN <<"upsert", "insertcmds">>
  ELSE IF o = "complete" THEN <<"counts", "status">> \o Export
  ELSE <<"status">> \o Export
PlanExportsResults(o) ==
  IF o = "update"        THEN <<"upsert", "insertcmds">> \o Export
  ELSE IF o = "complete" THEN <<"counts", "status">>
  ELSE <<"status">>

\* What each method does, the export included.
Plan(o) ==
  (IF o = "update"        THEN <<"upsert", "insertcmds">>
   ELSE IF o = "complete" THEN <<"counts", "status">>
   ELSE <<"status">>) \o Export

\* Slip: the job row is read after what it is about.
ReadsRowLast(o) == IF o = "status" THEN <<"counts", "job">>
                                   ELSE <<"devices", "cmds", "counts", "job">>

\* What each GET reads, in this order.
Reads(o) == IF o = "status" THEN <<"job", "counts">>
                            ELSE <<"job", "devices", "cmds", "counts">>

Idle == [op |-> "idle", left |-> <<>>, data |-> Blank, unread |-> {},
         counts |-> Counts(Blank.rows)]

Fails == failures < MaxFailures /\ failures' = failures + 1

-----------------------------------------------------------------------------
(* The methods, in the order the job's thread may call them                *)

Begin(o, s) ==
  /\ todo = <<>>
  /\ todo' = Plan(o) /\ op' = o /\ target' = s
  /\ UNCHANGED <<database, export, others, failures>>

\* Called by the handler of POST before the thread is started.
Create == status = "absent" /\ Begin("create", "queued") /\ UNCHANGED <<result, thread>>

MarkRunning ==
  /\ status = "queued" /\ thread = "runs"
  /\ Begin("running", "running")
  /\ UNCHANGED <<result, thread>>

\* Slip: a result stored by a thread that lived on after the job was marked.
UpdateDeviceLate(r) ==
  /\ status \in {"running"} \cup Terminal /\ thread = "runs"
  /\ r.n = result.n + 1
  /\ Begin("update", status)
  /\ result' = r
  /\ UNCHANGED thread

UpdateDevice(r) ==
  /\ status = "running" /\ thread = "runs"
  /\ r.n = result.n + 1
  /\ Begin("update", status)
  /\ result' = r
  /\ UNCHANGED thread

MarkComplete ==
  /\ status = "running" /\ thread = "runs"
  /\ Begin("complete", status)
  /\ UNCHANGED <<result, thread>>

MarkCancelled ==
  /\ status \in Active /\ thread = "runs"
  /\ Begin("cancelled", "cancelled")
  /\ UNCHANGED <<result, thread>>

\* Queue timeout, a workflow that aborts, or an except clause.
MarkFailed ==
  /\ status \in Active \/ thread = "raised"
  /\ thread # "gone"
  /\ Begin("failed", "failed")
  /\ thread' = "runs"
  /\ UNCHANGED result

\* The executor reads the status back after mark_complete; that may raise.
ReadBackFault ==
  /\ todo = <<>> /\ op = "complete" /\ thread = "runs"
  /\ Fails
  /\ thread' = "raised"
  /\ UNCHANGED <<database, op, todo, target, result, export, others>>

-----------------------------------------------------------------------------
(* Their steps                                                             *)

Do(s) == /\ todo # <<>> /\ Head(todo) = s /\ todo' = Tail(todo)
         /\ UNCHANGED <<others, failures>>

WriteStatus ==
  /\ Do("status")
  /\ status' = target
  /\ UNCHANGED <<rows, commands, calls, export>>

Upsert ==
  /\ Do("upsert")
  /\ rows' = [rows EXCEPT ![result.host] = [outcome |-> result.outcome, n |-> result.n]]
  /\ UNCHANGED <<status, commands, calls, export>>

\* DELETE the old commands and INSERT the new ones, in one transaction.
InsertCommands ==
  /\ Do("insertcmds")
  /\ commands' = [commands EXCEPT ![result.host] = result.n]
  /\ UNCHANGED <<status, rows, calls, export>>

\* Slip: "no failure counted" is taken for success, rows or not.
ReadCountsLoosely ==
  /\ Do("counts")
  /\ target' = IF Counts(rows).failed = 0 THEN "completed" ELSE "partial_failure"
  /\ UNCHANGED <<database, op, result, thread, export>>

\* mark_complete decides on the counts it reads, and writes later.
ReadCounts ==
  /\ Do("counts")
  /\ target' = Verdict(Outcomes(rows), {})
  /\ UNCHANGED <<database, op, result, thread, export>>

Snap(s) ==
  /\ Do(s)
  /\ snap' = IF s = "job"          THEN [snap EXCEPT !.status = status]
             ELSE IF s = "devices" THEN [snap EXCEPT !.rows = rows]
             ELSE                       [snap EXCEPT !.commands = commands]
  /\ UNCHANGED <<database, calls, file>>

\* write_text truncates the file in place, then writes it.
OpenFile ==
  /\ Do("open")
  /\ file' = [state |-> "torn", data |-> Blank]
  /\ UNCHANGED <<database, calls, snap>>

WriteFile ==
  /\ Do("write")
  /\ file' = [state |-> "whole", data |-> snap]
  /\ snap' = Blank
  /\ UNCHANGED <<database, calls>>

\* A failing query or write of the method itself is the caller's problem: POST
\* answers 500, an except clause calls mark_failed, and when that raises too
\* the thread is gone.  In the export it is swallowed.
StepFault ==
  /\ todo # <<>>
  /\ Fails
  /\ todo' = <<>> /\ snap' = Blank
  /\ thread' = IF Len(todo) <= Len(Export) \/ op = "create" THEN thread
               ELSE IF op = "failed" THEN "gone" ELSE "raised"
  /\ UNCHANGED <<database, op, target, result, file, others>>

\* The process dies: nobody finishes the method, the export or the requests.
Restart ==
  /\ Fails
  /\ todo' = <<>> /\ snap' = Blank
  /\ thread' = IF status = "absent" THEN thread ELSE "gone"
  /\ reader' = [r \in Readers |-> Idle]
  /\ UNCHANGED <<database, op, target, result, file, client>>

-----------------------------------------------------------------------------
(* GET /jobs/{id} and GET /jobs/{id}/detail                                *)

Ask(r, o) ==
  /\ reader[r].op = "idle"
  /\ reader' = [reader EXCEPT ![r] = [Idle EXCEPT !.op = o, !.left = Reads(o)]]
  /\ UNCHANGED <<database, calls, todo, export, client, failures>>

Reading(r, s) == reader[r].left # <<>> /\ Head(reader[r].left) = s

Got(r, new) ==
  /\ reader' = [reader EXCEPT ![r] = [new EXCEPT !.left = Tail(@)]]
  /\ UNCHANGED <<database, calls, todo, export, client, failures>>

\* 404 when there is no job.
GetJob(r) ==
  /\ Reading(r, "job")
  /\ IF status = "absent"
       THEN /\ reader' = [reader EXCEPT ![r] = Idle]
            /\ UNCHANGED <<database, calls, todo, export, client, failures>>
       ELSE Got(r, [reader[r] EXCEPT !.data.status = status])

GetDevices(r) ==
  /\ Reading(r, "devices")
  /\ Got(r, [reader[r] EXCEPT !.data.rows = rows,
                              !.unread = {d \in Devices : rows[d] # NoRow}])

\* One query per device found.
GetCommands(r) ==
  /\ Reading(r, "cmds")
  /\ \/ /\ reader[r].unread = {}
        /\ Got(r, reader[r])
     \/ \E d \in reader[r].unread :
          /\ reader' = [reader EXCEPT ![r].unread = @ \ {d},
                                      ![r].data.commands[d] = commands[d]]
          /\ UNCHANGED <<database, calls, todo, export, client, failures>>

GetCounts(r) == Reading(r, "counts") /\ Got(r, [reader[r] EXCEPT !.counts = Counts(rows)])

Answered(r) == reader[r].op # "idle" /\ reader[r].left = <<>>

\* The answer is sent, or a query has raised: 500.
Close(r) ==
  /\ reader[r].op # "idle"
  /\ reader' = [reader EXCEPT ![r] = Idle]
  /\ UNCHANGED <<database, calls, todo, export, client, failures>>

-----------------------------------------------------------------------------
(* scripts/bigfix_trigger.sh                                               *)

Move(from, new) ==
  /\ client.at = from
  /\ client' = new
  /\ UNCHANGED <<database, calls, todo, export, reader, failures>>

\* POST /jobs is answered once store.create is through.
Accepted ==
  /\ status # "absent" /\ (op = "create" => todo = <<>>)
  /\ Move("post", [client EXCEPT !.at = "poll"])

\* Slip: the loop never gives up on a job that looks active.
PollForEver ==
  /\ client.seen \in Active /\ client.polls <= MaxPolls
  /\ \E s \in {status, client.seen} :
       Move("poll", [client EXCEPT !.polls = @ + 1, !.seen = s])

\* A poll that fails leaves STATUS as it was.
Poll ==
  /\ client.seen \in Active /\ client.polls < MaxPolls
  /\ \E s \in {status, client.seen} :
       Move("poll", [client EXCEPT !.polls = @ + 1, !.seen = s])

PollEnd ==
  \/ /\ client.seen \in Terminal
     /\ Move("poll", [client EXCEPT !.at = "download"])
  \/ /\ client.seen \in Active /\ client.polls >= MaxPolls
     /\ Move("poll", [client EXCEPT !.at = "exit"])

\* GET /logs/{id}/raw: the script exits by STATUS whether this works or not.
Download ==
  \E f \in {file, [state |-> "absent", data |-> Blank]} :
    Move("download", [client EXCEPT !.at = "exit", !.saved = f])

-----------------------------------------------------------------------------
Init ==
  /\ status = "absent" /\ rows = Blank.rows /\ commands = Blank.commands
  /\ op = "none" /\ todo = <<>> /\ target = "absent"
  /\ result = [n |-> 0] /\ thread = "runs"
  /\ snap = Blank /\ file = [state |-> "absent", data |-> Blank]
  /\ reader = [r \in Readers |-> Idle]
  /\ client = [at |-> "post", seen |-> "queued", polls |-> 0,
               saved |-> [state |-> "absent", data |-> Blank]]
  /\ failures = 0

Caller == \/ Create \/ MarkRunning \/ MarkComplete \/ MarkCancelled \/ MarkFailed
          \/ \E r \in Results : UpdateDevice(r)
Worker == \/ WriteStatus \/ Upsert \/ InsertCommands \/ ReadCounts
          \/ \E s \in {"job", "devices", "cmds"} : Snap(s)
          \/ OpenFile \/ WriteFile
Request(r) == \/ \E o \in {"status", "detail"} : Ask(r, o)
              \/ GetJob(r) \/ GetDevices(r) \/ GetCommands(r) \/ GetCounts(r) \/ Close(r)
Script == Accepted \/ Poll \/ PollEnd \/ Download

Next ==
  \/ Caller \/ Worker \/ ReadBackFault \/ StepFault \/ Restart
  \/ \E r \in Readers : Request(r)
  \/ Script

Spec == Init /\ [][Next]_vars

\* A method that has been called goes on; nobody is obliged to call one.
FairSpec == Spec /\ WF_vars(Worker)

-----------------------------------------------------------------------------
(* Correctness                                                             *)

\* The variables keep the shapes the code gives them, and the script stops
\* polling in time.
TypeOK ==
  /\ Current \in Snapshot /\ snap \in Snapshot
  /\ op \in {"none", "create", "running", "update", "complete", "failed", "cancelled"}
  /\ target \in Statuses
  /\ result \in Results \cup {[n |-> 0]}
  /\ thread \in {"runs", "raised", "gone"}
  /\ file.state \in {"absent", "torn", "whole"} /\ file.data \in Snapshot
  /\ \A r \in Readers : reader[r].data \in Snapshot /\ reader[r].unread \subseteq Devices
  /\ client.at \in {"post", "poll", "download", "exit"}
  /\ client.polls \in 0..MaxPolls
  /\ failures \in 0..MaxFailures

Undisturbed == failures = 0

\* A status answer mixes two queries, but one that says the job has ended
\* carries the final counts: a poller that stops there has missed nothing.
TerminalAnswerIsFinal ==
  \A r \in Readers :
    Answered(r) /\ reader[r].data.status \in Terminal => reader[r].counts = Counts(rows)

\* The same for the four and more queries of a detail answer: every device
\* with its commands.
TerminalDetailIsComplete ==
  \A r \in Readers :
    Answered(r) /\ reader[r].op = "detail" /\ reader[r].data.status \in Terminal
      => reader[r].data.rows = rows /\ reader[r].data.commands = commands

\* A script that sees a terminal status and then downloads a file that is
\* whole has all results in it, though the status in it may lag behind.
ResultsPrecedeVerdict ==
  Undisturbed /\ client.at = "exit" /\ client.saved.state = "whole"
    => client.saved.data.rows = rows /\ client.saved.data.commands = commands

\* Unless something fails the file says in the end what the database says.
EventuallyExported ==
  status \in Terminal ~> \/ file = [state |-> "whole", data |-> Current]
                         \/ ~Undisturbed

\* Query by query, the store does what clients are promised of a job, as long
\* as no call fails (mark_failed after a failing read-back breaks the promise).
Lifecycle == INSTANCE JobLifecycle
  WITH Jobs <- {"job"}, status <- [j \in {"job"} |-> status],
       rows <- [j \in {"job"} |-> Outcomes(rows)]
ImplementsLifecycle ==
  /\ Lifecycle!LifecycleInit
  /\ [][Lifecycle!LifecycleNext \/ ~Undisturbed]_<<status, Outcomes(rows)>>

\* tests/test_logs.py, test_get_log_raw_is_valid_json: once a poll has shown
\* the job completed, the raw log is valid JSON.
RawLogIsValidJson ==
  Undisturbed /\ client.at = "exit" /\ client.seen = "completed"
    => client.saved.state # "torn"
=============================================================================
