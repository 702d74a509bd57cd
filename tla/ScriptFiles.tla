----------------------------- MODULE ScriptFiles -----------------------------
(***************************************************************************)
(* One workflow or runbook file and the handlers that save, delete and run *)
(* it (api/routes/workflows.py, api/routes/runbooks.py, submit_workflow of *)
(* core/workflow_runner.py), each on a thread of its own.  Files are       *)
(* written in place: emptied first, then filled.  A running workflow is    *)
(* here no more than its entry in _active_jobs; WorkflowRunner says what   *)
(* it does, JobExecutor what becomes of the job a runbook is made into.    *)
(***************************************************************************)
EXTENDS Naturals, Sequences, FiniteSets

CONSTANTS
  Requests,   \* requests being handled
  Scenarios,  \* what they ask for
  Scripts,    \* kinds of script: "workflow", "runbook"
  Lines,      \* lines of a text
  First,      \* what the file may hold at first, <<>> if it is not there
  Depth,      \* executor.max_queue_depth
  MaxErrors   \* bound on writes the system refuses

ASSUME ScriptAssumption ==
  /\ IsFiniteSet(Requests) /\ Requests \cap {"none", "disk"} = {}
  /\ Depth \in Nat \ {0} /\ MaxErrors \in Nat
  /\ Scripts \subseteq {"workflow", "runbook"} /\ First \subseteq Seq(Lines)
  /\ \A s \in Scenarios : \A r \in Requests :
       s[r].kind \in {"put", "post", "delete", "run"} /\ s[r].text \in Seq(Lines)

NoFile == "none"

VARIABLES
  script, asked,  \* what the file is; the requests
  pc, got, id,    \* place in the handler, text it has read, job id
  answer,         \* "none", "ok", "refused" (4xx, 503) or "error" (500)
  hand, file,     \* inode a handler has open, inode of the file: who created it
  data,           \* lines of an inode
  jobs, active,   \* ids in the jobs table, in _active_jobs
  errors,
  saved,  \* history: texts that were saved
  mixed,  \* history: two handlers had the file open for writing
  torn,   \* history: runs that read the file while one had
  peak    \* history: most runs at a time between counting and registering

request == <<pc, got, id, answer>>
disk    == <<hand, file, data>>
history == <<saved, mixed, torn, peak>>
vars    == <<script, asked, request, disk, jobs, active, errors, history>>

At(r, from) == pc[r] = from
Goto(r, to) == pc' = [pc EXCEPT ![r] = to]
Answers(r, a) == Goto(r, "done") /\ answer' = [answer EXCEPT ![r] = a]
Moves(r, to) == Goto(r, to) /\ UNCHANGED answer

Open == {r \in Requests : pc[r] = "fill"}

-----------------------------------------------------------------------------
(* create, put, delete                                                     *)

\* exists(): 409, 404; PUT does not ask.
Arrive(r) ==
  /\ At(r, "start")
  /\ LET k == asked[r].kind
         there == file # NoFile
     IN  IF (k = "post" /\ there) \/ (k \in {"delete", "run"} /\ ~there)
         THEN Answers(r, "refused")
         ELSE Moves(r, IF k \in {"put", "post"} THEN "open" ELSE k)
  /\ UNCHANGED <<script, asked, got, id, disk, jobs, active, errors, history>>

\* write_text: the file is empty until it is filled.
OpenFile(r) ==
  /\ At(r, "open") /\ Moves(r, "fill")
  /\ LET i == IF file = NoFile THEN r ELSE file
     IN  hand' = [hand EXCEPT ![r] = i] /\ file' = i /\ data' = [data EXCEPT ![i] = <<>>]
  /\ mixed' = (mixed \/ Open # {})
  /\ UNCHANGED <<script, asked, got, id, jobs, active, errors, saved, torn, peak>>

Overlay(new, old) == new \o SubSeq(old, Len(new) + 1, Len(old))

FillFile(r) ==
  /\ At(r, "fill") /\ Answers(r, "ok")
  /\ data' = [data EXCEPT ![hand[r]] = Overlay(asked[r].text, @)]
  /\ saved' = saved \cup {asked[r].text}
  /\ UNCHANGED <<script, asked, got, id, hand, file, jobs, active, errors, mixed, torn, peak>>

\* What a full disk leaves of a text.
Begun(r) == {SubSeq(asked[r].text, 1, n) : n \in 0..(Len(asked[r].text) - 1)}

\* OSError, from opening the file or when a part of the text is in it.
WriteFails(r) ==
  /\ pc[r] \in {"open", "fill"} /\ errors < MaxErrors /\ errors' = errors + 1
  /\ Answers(r, "error")
  /\ \/ pc[r] = "open" /\ UNCHANGED data
     \/ pc[r] = "fill" /\ \E part \in Begun(r) : data' = [data EXCEPT ![hand[r]] = Overlay(part, @)]
  /\ UNCHANGED <<script, asked, got, id, hand, file, jobs, active, history>>

DeleteFile(r) ==
  /\ At(r, "delete") /\ Answers(r, IF file = NoFile THEN "error" ELSE "ok") /\ file' = NoFile
  /\ UNCHANGED <<script, asked, got, id, hand, data, jobs, active, errors, history>>

-----------------------------------------------------------------------------
(* run                                                                     *)

\* What parse() makes of a text: an empty one is a workflow without steps, of
\* one that nobody saved nothing is known.
MayParse(text) ==
  IF text \in saved THEN {"bad" \notin {text[i] : i \in DOMAIN text}}
  ELSE IF text = <<>> THEN {TRUE} ELSE BOOLEAN

Text == data[file]

\* parse_workflow(path), to validate it: the definition is thrown away.  An error
\* other than WorkflowParseError is answered 500.
Validate(r) ==
  /\ At(r, "run") /\ script = "workflow"
  /\ IF file = NoFile THEN Answers(r, "refused")
     ELSE \E ok \in MayParse(Text) :
            IF ok THEN Moves(r, "count") ELSE \E a \in {"refused", "error"} : Answers(r, a)
  /\ UNCHANGED <<script, asked, got, id, disk, jobs, active, errors, history>>

Between == {r \in Requests : pc[r] \in {"name", "devices", "submit", "create", "register"}}

\* Slip: one more than max_queue_depth.
FullAbove == Cardinality(active) > Depth

Full == Cardinality(active) >= Depth

\* active_workflow_count()
Count(r) ==
  /\ At(r, "count") /\ script = "workflow"
  /\ IF Full THEN Answers(r, "refused") ELSE Moves(r, "name")
  /\ peak' = LET n == Cardinality(Between') IN IF n > peak THEN n ELSE peak
  /\ UNCHANGED <<script, asked, got, id, disk, jobs, active, errors, saved, mixed, torn>>

\* store.exists(): an id that is taken is replaced.
Name(r) ==
  /\ At(r, "name") /\ Moves(r, "devices")
  /\ id' = [id EXCEPT ![r] = IF asked[r].id \in jobs THEN r ELSE asked[r].id]
  /\ UNCHANGED <<script, asked, got, disk, jobs, active, errors, history>>

\* A runbook's job is counted by the executor's semaphore.
CountJobs(r) ==
  /\ At(r, "count") /\ script = "runbook" /\ (Answers(r, "refused") \/ Moves(r, "devices"))
  /\ UNCHANGED <<script, asked, got, id, disk, jobs, active, errors, history>>

\* _expand_devices
Expand(r) ==
  /\ At(r, "devices")
  /\ \/ Answers(r, "refused")
     \/ Moves(r, IF script = "workflow" THEN "submit" ELSE "register")
  /\ UNCHANGED <<script, asked, got, id, disk, jobs, active, errors, history>>

\* submit_workflow parses the file once more: that text is run.
Submit(r) ==
  /\ At(r, "submit")
  /\ IF file = NoFile THEN Answers(r, "error") /\ UNCHANGED got
     ELSE \E ok \in MayParse(Text) :
            IF ok THEN Moves(r, "create") /\ got' = [got EXCEPT ![r] = Text]
            ELSE Answers(r, "error") /\ UNCHANGED got
  /\ torn' = IF Open = {} THEN torn ELSE torn \cup {r}
  /\ UNCHANGED <<script, asked, id, disk, jobs, active, errors, saved, mixed, peak>>

\* store.create raises when the id was taken since it was looked up.
Create(r) ==
  /\ At(r, "create")
  /\ IF id[r] \in jobs THEN Answers(r, "error") ELSE Moves(r, "register")
  /\ jobs' = jobs \cup {id[r]}
  /\ UNCHANGED <<script, asked, got, id, disk, active, errors, history>>

\* Slip: a runbook without commands is run.
EmptyIsFine(text) == TRUE

HasCommands(text) == text # <<>>

\* _parse_runbook: the text is read once and kept, then stat() may raise.
ReadRunbook(r) ==
  /\ At(r, "run") /\ script = "runbook"
  /\ IF file = NoFile THEN Answers(r, "error") /\ UNCHANGED got
     ELSE /\ got' = [got EXCEPT ![r] = Text]
          /\ Moves(r, "stat")
  /\ UNCHANGED <<script, asked, id, disk, jobs, active, errors, history>>

StatRunbook(r) ==
  /\ At(r, "stat")
  /\ IF file = NoFile THEN Answers(r, "error")
     ELSE IF HasCommands(got[r]) THEN Moves(r, "count") ELSE Answers(r, "refused")
  /\ UNCHANGED <<script, asked, got, id, disk, jobs, active, errors, history>>

\* The job starts; a workflow is entered in _active_jobs.
Register(r) ==
  /\ At(r, "register") /\ Answers(r, "ok")
  /\ active' = IF script = "workflow" THEN active \cup {id[r]} ELSE active
  /\ UNCHANGED <<script, asked, got, id, disk, jobs, errors, history>>

\* A workflow ends: _active_jobs.pop
End(i) ==
  /\ i \in active /\ active' = active \ {i}
  /\ UNCHANGED <<script, asked, request, disk, jobs, errors, history>>

-----------------------------------------------------------------------------
Init ==
  /\ script \in Scripts /\ asked \in Scenarios
  /\ pc = [r \in Requests |-> "start"] /\ got = [r \in Requests |-> <<>>]
  /\ id = [r \in Requests |-> r] /\ answer = [r \in Requests |-> "none"]
  /\ hand = id /\ jobs = {} /\ active = {} /\ errors = 0
  /\ \E t \in First :
       /\ file = IF t = <<>> THEN NoFile ELSE "disk"
       /\ data = [i \in Requests \cup {"disk"} |-> IF i = "disk" THEN t ELSE <<>>]
       /\ saved = {t} \ {<<>>}
  /\ mixed = FALSE /\ torn = {} /\ peak = 0

Handle(r) ==
  \/ Arrive(r) \/ OpenFile(r) \/ FillFile(r) \/ WriteFails(r) \/ DeleteFile(r)
  \/ Validate(r) \/ Count(r) \/ Name(r) \/ CountJobs(r) \/ Expand(r) \/ Submit(r) \/ Create(r)
  \/ ReadRunbook(r) \/ StatRunbook(r) \/ Register(r)

Next == (\E r \in Requests : Handle(r)) \/ (\E i \in active : End(i))
Spec == Init /\ [][Next]_vars

-----------------------------------------------------------------------------
\* A request that saves answered with an error and may have left that text.
LeftBy(q, text) ==
  asked[q].kind \in {"put", "post"} /\ answer[q] = "error" /\ text \in Begun(q)

\* What a successful run started is a text someone saved, as it was saved; or it
\* is the beginning of a text whose save has been answered with an error, or the
\* empty workflow, one without steps, of a save that has just emptied the file
\* (workflows.py:185 and 196, submit_workflow).  Two saves at a time may mix.  An
\* empty runbook is never run.
SavedIsRun ==
  \A r \in Requests : asked[r].kind = "run" /\ answer[r] = "ok" =>
    /\ script = "workflow" \/ got[r] # <<>>
    /\ \/ got[r] \in saved
       \/ mixed
       \/ got[r] = <<>> /\ r \in torn
       \/ \E q \in Requests : LeftBy(q, got[r])

\* The count of active workflows and the entry of a new one are not one step, so
\* max_queue_depth may be passed, but by no more than the requests that were
\* between the two at the same time (workflows.py:234, workflow_runner.py:87).
OvershootBounded ==
  Cardinality(active) <= Depth - 1 + peak
=============================================================================
