---------------------------- MODULE DeviceSession ----------------------------
(***************************************************************************)
(* core/ssh_worker.py, drivers/ and the device end of a workflow step:     *)
(* several workers with a session each on one device.  A worker resolves   *)
(* credentials, connects, carries out its operations and disconnects; a    *)
(* job's worker tries again when it could not connect and goes on after a  *)
(* failed operation, a workflow step tries once and stops at the first.    *)
(*                                                                         *)
(* A class of drivers/ is a record that says what its methods do.  What    *)
(* the device keeps (running configuration, staged commands, sessions) is  *)
(* known only through them.                                                *)
(*                                                                         *)
(* A definition marked "Slip" is a definition as it might be after a small *)
(* mistake in the code; no specification uses it.                          *)
(***************************************************************************)
EXTENDS Naturals, Sequences, FiniteSets, SequencesExt

CONSTANTS
  Workers,      \* worker threads with a session on the device
  Drivers,      \* the drivers the device may have
  Works,        \* what the workers may be given: sets of [Workers -> task]
  N,            \* commands of one configuration operation
  MaxAttempts,  \* max(1, executor.retry_attempts)
  MaxFaults     \* bound on calls that fail after connecting

Operations == {"backup", "command", "wait", "transfer", "post", "config"}
Tasks      == [ops : Seq(Operations), stops : BOOLEAN]

-----------------------------------------------------------------------------
(* drivers/.  elevates: connect() may call enable() on the session it has  *)
(* just opened.  notices: run_command looks at what the device answers.    *)
(* style: "set", all commands are sent and the output is looked at once;   *)
(* "each", after every command; "commit", they are staged and committed,   *)
(* and the answers to them not looked at.  exact: a refused command shows  *)
(* by its exit status; the others know a refusal by a few phrases, which   *)
(* an answer may lack, or contain though the command was taken.            *)
(* checks: a dry run goes before the commit.  shared: all sessions stage   *)
(* into one candidate configuration.  transfers: transfer_file is there.   *)

Driver(elevates, notices, style, transfers) ==
  [elevates |-> elevates, notices |-> notices, style |-> style,
   transfers |-> transfers, exact |-> FALSE, checks |-> FALSE, shared |-> FALSE]

IosXeDriver      == Driver(TRUE,  TRUE,  "set",  TRUE)
ArubaAosCxDriver == Driver(TRUE,  TRUE,  "set",  TRUE)
NxosDriver       == Driver(FALSE, TRUE,  "set",  TRUE)
FortinetDriver   == Driver(FALSE, FALSE, "each", TRUE)
WlcAireOsDriver  == Driver(FALSE, TRUE,  "each", FALSE)
LinuxDriver      == [Driver(FALSE, FALSE, "each", TRUE) EXCEPT !.exact = TRUE]
ViptelaDriver    == Driver(FALSE, TRUE,  "commit", TRUE)
IosXrDriver      == [Driver(FALSE, TRUE, "commit", TRUE) EXCEPT !.checks = TRUE]
JunosDriver      == [Driver(FALSE, FALSE, "commit", TRUE)
                       EXCEPT !.checks = TRUE, !.shared = TRUE]

\* get_driver finds no class for the platform.
Unsupported == Driver(FALSE, FALSE, "none", FALSE)

AllDrivers ==
  {IosXeDriver, ArubaAosCxDriver, NxosDriver, FortinetDriver, WlcAireOsDriver,
   LinuxDriver, ViptelaDriver, IosXrDriver, JunosDriver, Unsupported}

\* What a class of drivers/ may be, or that there is none.
DriverClasses ==
  {d \in [elevates : BOOLEAN, notices : BOOLEAN, style : {"set", "each", "commit"},
          transfers : BOOLEAN, exact : BOOLEAN, checks : BOOLEAN, shared : BOOLEAN] :
     d.exact => d.style = "each"}

ASSUME SessionAssumption ==
  /\ IsFiniteSet(Workers)
  /\ Drivers \subseteq DriverClasses \cup {Unsupported}
  /\ Works \subseteq [Workers -> Tasks]
  /\ N \in Nat \ {0} /\ MaxAttempts \in Nat \ {0} /\ MaxFaults \in Nat

VARIABLES
  driver, task,  \* of the device; of each worker
  pc, attempt,   \* place in run_device_job, number of the connection attempt
  op, sent,      \* operation and, in it, number of commands sent
  results,       \* of the operations so far: <<operation, "ok" or "error">>
  status,        \* of the DeviceResult returned
  session,       \* "open", "dead" (the transport is gone) or "none"
  abandoned,     \* sessions left open by a connect() that raised after opening
  staged, applied, refused,  \* device: by worker, <<operation, command>>
  unseen,        \* history: those refused that the driver took for accepted
  sendings,      \* history: <<worker, operation, command>> that reached the device
  resent,        \* history: those that reached it again
  faults, lost   \* history: calls that failed, workers whose session was lost

place  == <<pc, attempt, op, sent>>
device == <<staged, applied, refused, unseen, sendings, resent>>
line   == <<session, faults, lost>>
vars   == <<driver, task, place, results, status, abandoned, device, line>>

-----------------------------------------------------------------------------
Current(w)  == task[w].ops[op[w]]
Private     == driver.style = "commit" /\ ~driver.shared
Attempts(w) == IF task[w].stops THEN 1 ELSE MaxAttempts

At(w, from)   == pc[w] = from
Goto(w, to)   == pc' = [pc EXCEPT ![w] = to]
Stays(w)      == UNCHANGED <<attempt, op, sent>>
Session(w, s) == session' = [session EXCEPT ![w] = s]

\* What the transport may do to a call.  It returns; it raises, the session
\* being lost, now or earlier; or it raises because the answer is late.
Returns(w) == session[w] = "open" /\ UNCHANGED line
Drops(w)   == /\ session[w] = "open" /\ faults < MaxFaults /\ faults' = faults + 1
              /\ Session(w, "dead") /\ lost' = lost \cup {w}
Late(w)    == /\ session[w] = "open" /\ faults < MaxFaults /\ faults' = faults + 1
              /\ UNCHANGED <<session, lost>>
Raises(w, arrived) ==
  Drops(w) \/ IF arrived THEN Late(w) ELSE session[w] = "dead" /\ UNCHANGED line

\* A private candidate configuration goes with its session.
Candidate(s) ==
  staged' = [v \in Workers |-> IF Private /\ session'[v] # "open" THEN {} ELSE s[v]]

\* DeviceResult, or the (output, code) of a step.
Return(w, verdict) ==
  /\ Goto(w, "returned") /\ Stays(w)
  /\ status' = [status EXCEPT ![w] = verdict]

\* Slip: one attempt more than configured.
MayRetryOnceMore(w) == attempt[w] <= Attempts(w)

MayRetry(w) == attempt[w] < Attempts(w)

\* The except clause of the retry loop: only errors of _NO_RETRY_ERRORS are final.
AttemptFails(w, retryable) ==
  IF retryable /\ MayRetry(w)
  THEN /\ Goto(w, "connect") /\ attempt' = [attempt EXCEPT ![w] = @ + 1]
       /\ UNCHANGED <<op, sent, status>>
  ELSE Return(w, "failed")

-----------------------------------------------------------------------------
(* run_device_job                                                          *)

Resolve(w) ==
  /\ At(w, "resolve")
  /\ \/ Goto(w, "connect") /\ Stays(w) /\ UNCHANGED status
     \/ Return(w, "failed")
  /\ UNCHANGED <<driver, task, results, abandoned, device, line>>

\* get_driver, connect(): refused for good ("Authentication failed", no key
\* exchange), for now, or open; enable() follows when there is a secret.
Connect(w) ==
  /\ At(w, "connect")
  /\ IF driver = Unsupported
     THEN AttemptFails(w, FALSE) /\ UNCHANGED session
     ELSE \/ \E retryable \in BOOLEAN : AttemptFails(w, retryable) /\ UNCHANGED session
          \/ /\ \E to \in {"ops"} \cup (IF driver.elevates THEN {"enable"} ELSE {}) :
                  Goto(w, to)
             /\ Stays(w) /\ Session(w, "open") /\ UNCHANGED status
  /\ UNCHANGED <<driver, task, results, abandoned, device, faults, lost>>

\* connect() raises after the session was opened: __exit__ is not called.
Enable(w) ==
  /\ At(w, "enable")
  /\ \/ Goto(w, "ops") /\ Stays(w) /\ UNCHANGED <<status, session, abandoned>>
     \/ /\ \E retryable \in BOOLEAN : AttemptFails(w, retryable)
        /\ Session(w, "none") /\ abandoned' = [abandoned EXCEPT ![w] = @ + 1]
  /\ UNCHANGED <<driver, task, results, device, faults, lost>>

\* The abandoned connection object is freed.
Collect(w) ==
  /\ abandoned[w] > 0 /\ abandoned' = [abandoned EXCEPT ![w] = @ - 1]
  /\ UNCHANGED <<driver, task, place, results, status, session, device, faults, lost>>

\* Slip: an error goes up to the retry loop.
ConcludeRaises(w, r) ==
  /\ results' = [results EXCEPT ![w] = @ \cup {<<op[w], r>>}]
  /\ sent' = [sent EXCEPT ![w] = 0]
  /\ IF r = "error" /\ MayRetry(w)
     THEN Goto(w, "connect") /\ op' = [op EXCEPT ![w] = 1]
          /\ attempt' = [attempt EXCEPT ![w] = @ + 1]
     ELSE Goto(w, "ops") /\ op' = [op EXCEPT ![w] = @ + 1] /\ UNCHANGED attempt

\* An operation has ended.  Its error is recorded, no more: a job goes on with
\* the next one, but for the commands that follow a failed transfer.
Conclude(w, r) ==
  /\ results' = [results EXCEPT ![w] = @ \cup {<<op[w], r>>}]
  /\ Goto(w, "ops") /\ UNCHANGED attempt /\ sent' = [sent EXCEPT ![w] = 0]
  /\ op' = [op EXCEPT ![w] =
              IF r = "error" /\ task[w].stops THEN Len(task[w].ops) + 1
              ELSE IF r = "error" /\ Current(w) = "transfer" /\ @ < Len(task[w].ops)
                      /\ task[w].ops[@ + 1] = "post"
              THEN @ + 2 ELSE @ + 1]

Ready(w, what) ==
  At(w, "ops") /\ op[w] <= Len(task[w].ops) /\ Current(w) \in what

\* get_running_config, run_command: a refusal is an error if the driver looks.
Exec(w) ==
  /\ Ready(w, {"backup", "command"})
  /\ \/ Returns(w) /\ Conclude(w, "ok")
     \/ Returns(w) /\ driver.notices /\ Conclude(w, "error")
     \/ \E arrived \in BOOLEAN : Raises(w, arrived) /\ Conclude(w, "error")
  /\ Candidate(staged)
  /\ UNCHANGED <<driver, task, status, abandoned, applied, refused, unseen, sendings, resent>>

\* wait_until: an error is output like any other, and the command is sent again
\* until it shows what is waited for or time is up (after N times, the bound).
Poll(w) ==
  /\ Ready(w, {"wait"})
  /\ Returns(w) \/ \E arrived \in BOOLEAN : Raises(w, arrived)
  /\ \/ \E r \in {"ok", "error"} : Conclude(w, r)
     \/ /\ sent[w] < N /\ sent' = [sent EXCEPT ![w] = @ + 1]
        /\ UNCHANGED <<pc, attempt, op, results>>
  /\ Candidate(staged)
  /\ UNCHANGED <<driver, task, status, abandoned, applied, refused, unseen, sendings, resent>>

TransferFile(w) ==
  /\ Ready(w, {"transfer"})
  /\ \/ Returns(w) /\ driver.transfers /\ Conclude(w, "ok")
     \/ Returns(w) /\ Conclude(w, "error")
     \/ \E arrived \in BOOLEAN : Raises(w, arrived) /\ Conclude(w, "error")
  /\ Candidate(staged)
  /\ UNCHANGED <<driver, task, status, abandoned, applied, refused, unseen, sendings, resent>>

-----------------------------------------------------------------------------
(* run_config_commands                                                     *)

Configs == {"post", "config"}

Moves(w, to) == Goto(w, to) /\ UNCHANGED <<attempt, op, sent, results>>

\* config_mode() of the commit drivers, before their try; send_config_set
\* enters and leaves the mode itself, the rest has none.
EnterConfig(w) ==
  /\ Ready(w, Configs)
  /\ \/ driver.style # "commit" /\ UNCHANGED line /\ Moves(w, "stage")
     \/ driver.style = "commit" /\ Returns(w) /\ Moves(w, "stage")
     \/ /\ driver.style = "commit"
        /\ \E arrived \in BOOLEAN : Raises(w, arrived) /\ Conclude(w, "error")
  /\ Candidate(staged)
  /\ UNCHANGED <<driver, task, status, abandoned, applied, refused, unseen, sendings, resent>>

Command(w)   == <<op[w], sent[w] + 1>>
Arrives(w)   ==
  LET c == {<<w, op[w], sent[w] + 1>>}
  IN  sendings' = sendings \cup c /\ resent' = resent \cup (sendings \cap c)
With(f, w)   == [f EXCEPT ![w] = @ \cup {Command(w)}]
\* The command is taken: into the candidate or, without one, for good.
Takes(w) ==
  IF driver.style = "commit" THEN Candidate(With(staged, w)) /\ UNCHANGED applied
  ELSE applied' = With(applied, w) /\ UNCHANGED staged
Onward(w) ==
  Goto(w, "stage") /\ sent' = [sent EXCEPT ![w] = @ + 1] /\ UNCHANGED <<attempt, op, results>>
\* except Exception of the commit drivers; the others have none.
Fails(w) ==
  IF driver.style = "commit" THEN Moves(w, "rescue") ELSE Conclude(w, "error")

\* A command that is taken may be answered with a phrase that means an error.
SendTaken(w) ==
  /\ Returns(w) /\ Arrives(w) /\ Takes(w) /\ UNCHANGED <<refused, unseen>>
  /\ \/ Onward(w)
     \/ driver.style = "each" /\ ~driver.exact /\ Conclude(w, "error")

\* The answer to a refused command shows it, or has none of the phrases; only
\* the drivers that look after every command stop here.
SendRefused(w) ==
  /\ Returns(w) /\ Arrives(w) /\ Candidate(staged) /\ refused' = With(refused, w)
  /\ \/ /\ driver.style # "commit" /\ UNCHANGED unseen
        /\ IF driver.style = "each" THEN Conclude(w, "error") ELSE Onward(w)
     \/ ~driver.exact /\ unseen' = With(unseen, w) /\ Onward(w)
  /\ UNCHANGED applied

SendFails(w) ==
  /\ \/ Raises(w, TRUE) /\ Arrives(w) /\ Takes(w)
     \/ Raises(w, FALSE) /\ Candidate(staged) /\ UNCHANGED <<applied, sendings, resent>>
  /\ Fails(w) /\ UNCHANGED <<refused, unseen>>

Send(w) ==
  /\ At(w, "stage") /\ sent[w] < N
  /\ SendTaken(w) \/ SendRefused(w) \/ SendFails(w)
  /\ UNCHANGED <<driver, task, status, abandoned>>

\* Slip: what follows the loop is indented into it.
SomeSent(w) == sent[w] > 0

AllSent(w) == sent[w] = N

Noticed(w) == driver.style = "set" /\ \E c \in 1..N : <<op[w], c>> \in refused[w] \ unseen[w]

\* Slip: the output of send_config_set is not looked at.
OutputRead(w) == Conclude(w, "ok")

\* The output of the whole set is searched for the phrases of the driver.
ReadOutput(w) ==
  \/ ~Noticed(w) /\ Conclude(w, "ok")
  \/ driver.style = "set" /\ Conclude(w, "error")

Sent(w) ==
  /\ At(w, "stage") /\ AllSent(w)
  /\ IF driver.style # "commit" THEN ReadOutput(w)
     ELSE Moves(w, IF driver.checks THEN "check" ELSE "commit")
  /\ UNCHANGED <<driver, task, status, abandoned, device, line>>

\* Slip: a failed check raises and nothing else.
CheckRaises(w) ==
  /\ At(w, "check")
  /\ \/ Returns(w) /\ \E to \in {"commit", "exit_error"} : Moves(w, to)
     \/ \E arrived \in BOOLEAN : Raises(w, arrived) /\ Moves(w, "rescue")
  /\ Candidate(staged)
  /\ UNCHANGED <<driver, task, status, abandoned, applied, refused, unseen, sendings, resent>>

\* commit dry-run, commit check
Check(w) ==
  /\ At(w, "check")
  /\ \/ Returns(w) /\ \E to \in {"commit", "discard"} : Moves(w, to)
     \/ \E arrived \in BOOLEAN : Raises(w, arrived) /\ Moves(w, "rescue")
  /\ Candidate(staged)
  /\ UNCHANGED <<driver, task, status, abandoned, applied, refused, unseen, sendings, resent>>

\* Whose staged commands a commit or a rollback by w takes.
Reach(w) == IF driver.shared THEN Workers ELSE {w}
Emptied(w) == [v \in Workers |-> IF v \in Reach(w) THEN {} ELSE staged[v]]
Committed(w) ==
  /\ applied' = [v \in Workers |-> IF v \in Reach(w) THEN applied[v] \cup staged[v] ELSE applied[v]]
  /\ Candidate(Emptied(w))

Commit(w) ==
  /\ At(w, "commit")
  /\ \/ Returns(w) /\ Committed(w) /\ Moves(w, "exit_ok")
     \/ Returns(w) /\ Moves(w, "discard") /\ UNCHANGED <<applied, staged>>
     \/ Raises(w, TRUE) /\ Committed(w) /\ Moves(w, "rescue")
     \/ Raises(w, FALSE) /\ Candidate(staged) /\ Moves(w, "rescue") /\ UNCHANGED applied
  /\ UNCHANGED <<driver, task, status, abandoned, refused, unseen, sendings, resent>>

\* abort or rollback 0: inside the try, where it may raise once more, and in
\* the except clause, where it may not.
Abandon(w) ==
  /\ \/ /\ At(w, "discard")
        /\ \/ Returns(w) /\ Candidate(Emptied(w)) /\ Moves(w, "exit_error")
           \/ Raises(w, TRUE) /\ Candidate(Emptied(w)) /\ Moves(w, "rescue")
           \/ Raises(w, FALSE) /\ Candidate(staged) /\ Moves(w, "rescue")
     \/ /\ At(w, "rescue") /\ Moves(w, "exit_error")
        /\ \/ (Returns(w) \/ Raises(w, TRUE)) /\ Candidate(Emptied(w))
           \/ Raises(w, FALSE) /\ Candidate(staged)
  /\ UNCHANGED <<driver, task, status, abandoned, applied, refused, unseen, sendings, resent>>

\* finally: exit_config_mode(), its errors ignored.  Leaving with uncommitted
\* commands gives a private candidate up and keeps the shared one.
ExitConfig(w) ==
  /\ \/ At(w, "exit_ok") /\ Conclude(w, "ok")
     \/ At(w, "exit_error") /\ Conclude(w, "error")
  /\ \/ /\ Returns(w) \/ Raises(w, TRUE)
        /\ Candidate(IF Private THEN [staged EXCEPT ![w] = {}] ELSE staged)
     \/ Raises(w, FALSE) /\ Candidate(staged)
  /\ UNCHANGED <<driver, task, status, abandoned, applied, refused, unseen, sendings, resent>>

-----------------------------------------------------------------------------
Finished(w) == At(w, "ops") /\ op[w] > Len(task[w].ops)

\* A failed operation of a job is in the results, not in the status.
Verdict(w) ==
  IF task[w].stops /\ \E r \in results[w] : r[2] = "error" THEN "failed" ELSE "success"

\* Slip: a step that returns at its first error passes by disconnect().
DisconnectLeaks(w) ==
  /\ Finished(w) /\ Return(w, Verdict(w))
  /\ IF Verdict(w) = "failed" THEN UNCHANGED session ELSE Session(w, "none")
  /\ Candidate(staged)
  /\ UNCHANGED <<driver, task, results, abandoned, applied, refused, unseen, sendings, resent, faults, lost>>

\* __exit__
Disconnect(w) ==
  /\ Finished(w) /\ Return(w, Verdict(w)) /\ Session(w, "none")
  /\ Candidate(staged)
  /\ UNCHANGED <<driver, task, results, abandoned, applied, refused, unseen, sendings, resent, faults, lost>>

Init ==
  /\ driver \in Drivers /\ task \in Works
  /\ pc = [w \in Workers |-> "resolve"] /\ attempt = [w \in Workers |-> 1]
  /\ op = [w \in Workers |-> 1] /\ sent = [w \in Workers |-> 0]
  /\ results = [w \in Workers |-> {}] /\ status = [w \in Workers |-> "none"]
  /\ session = [w \in Workers |-> "none"] /\ abandoned = [w \in Workers |-> 0]
  /\ staged = [w \in Workers |-> {}] /\ applied = staged /\ refused = staged /\ unseen = staged
  /\ sendings = {} /\ resent = {} /\ faults = 0 /\ lost = {}

Worker(w) ==
  \/ Resolve(w) \/ Connect(w) \/ Enable(w) \/ Exec(w) \/ Poll(w) \/ TransferFile(w)
  \/ EnterConfig(w) \/ Send(w) \/ Sent(w) \/ Check(w) \/ Commit(w)
  \/ Abandon(w) \/ ExitConfig(w) \/ Disconnect(w)

Next == \E w \in Workers : Worker(w) \/ Collect(w)
Spec == Init /\ [][Next]_vars

\* A call to a device ends: by its timeout or, where it has none (SFTP, the exit
\* status of a Linux command), when the device answers or TCP gives the peer up.
\* CPython frees an object that nothing refers to.
FairSpec ==
  Spec /\ \A w \in Workers : WF_vars(Worker(w)) /\ WF_vars(Collect(w))

-----------------------------------------------------------------------------
Places == {"resolve", "connect", "enable", "ops", "stage", "check", "commit",
           "discard", "rescue", "exit_ok", "exit_error", "returned"}
Commands(w) == (DOMAIN task[w].ops) \X (1..N)

\* The types, with the bounds of the retry loop and of abandoned sessions:
\* no worker tries more often, or leaves more sessions behind, than it is told.
TypeOK ==
  /\ driver \in Drivers /\ task \in Works
  /\ pc \in [Workers -> Places] /\ status \in [Workers -> {"none", "failed", "success"}]
  /\ \A w \in Workers : attempt[w] \in 1..Attempts(w) /\ abandoned[w] \in 0..attempt[w]
  /\ \A w \in Workers : op[w] \in 1..(Len(task[w].ops) + 1) /\ sent[w] \in 0..N
  /\ session \in [Workers -> {"open", "dead", "none"}]
  /\ \A w \in Workers : results[w] \subseteq (DOMAIN task[w].ops) \X {"ok", "error"}
  /\ \A f \in {staged, applied, refused, unseen} : \A w \in Workers : f[w] \subseteq Commands(w)
  /\ faults \in 0..MaxFaults /\ lost \subseteq Workers

\* A command is sent at most once: only connecting is tried again, whatever the
\* device or the line did to the operations after it (ssh_worker.run_device_job).
SentOnce == resent = {}

OfOp(s, i) == {x \in s : x[1] = i}
Whole(i)   == {i} \X (1..N)

\* On a device with a candidate configuration of each session's own, what the
\* device took of an operation is applied in full or not at all, though the
\* session be lost or an answer late at any point (ios_xr.py, viptela.py).
CommittedTogether ==
  Private =>
    \A w \in Workers : \A i \in DOMAIN task[w].ops :
      OfOp(applied[w], i) \in {{}, Whole(i) \ refused[w]}

Disturbed(w) == driver.shared /\ \E c \in sendings : c[1] # w

Missed(w) == IF driver.exact THEN {} ELSE unseen[w]

\* A configuration operation that is reported without an error is in force, all
\* of it.  What escapes the drivers: a refusal whose answer they do not look at
\* or do not know for one, never where the exit status tells; and another session
\* in the candidate that Junos sessions share (run_config_commands).
CleanReportIsTrue ==
  \A w \in Workers : \A r \in results[w] :
    r[2] = "ok" /\ task[w].ops[r[1]] \in Configs =>
      Disturbed(w) \/ Whole(r[1]) \ applied[w] \subseteq Missed(w)

\* Nothing a worker staged waits on the device, for another session's commit to
\* put it in force, after the worker has answered; only a lost session leaves it
\* there, and only in the candidate that Junos sessions share (junos.py).
LeftoverNeedsLostSession ==
  \A w \in Workers : pc[w] = "returned" /\ staged[w] # {} => w \in lost

\* Every worker answers and no session stays open on the device, not even that
\* of a connect() that raised after it had opened one (ios_xe.py).
SessionsEnd ==
  <>[](\A w \in Workers : pc[w] = "returned" /\ session[w] = "none" /\ abandoned[w] = 0)

==============================================================================
