---------------------------- MODULE JobLifecycle ----------------------------
(***************************************************************************)
(* What a client polling netorch is promised about a job, whatever happens *)
(* inside: a job is queued, may run, and ends in exactly one terminal      *)
(* status; device results appear only while it runs; a job that ends by    *)
(* itself ends with the verdict its results call for.                      *)
(***************************************************************************)
EXTENDS JobStatuses

CONSTANTS Jobs, Devices

VARIABLES
  status,   \* jobs.status, per job
  rows      \* devices.status, per job and device

lifecycleVars == <<status, rows>>

LifecycleInit ==
  /\ status = [j \in Jobs |-> "absent"]
  /\ rows   = [j \in Jobs |-> [d \in Devices |-> "none"]]

Accept(j) ==
  /\ status[j] = "absent"
  /\ status' = [status EXCEPT ![j] = "queued"]
  /\ UNCHANGED rows

Start(j) ==
  /\ status[j] = "queued"
  /\ status' = [status EXCEPT ![j] = "running"]
  /\ UNCHANGED rows

Report(j, d, o) ==
  /\ status[j] = "running"
  /\ rows' = [rows EXCEPT ![j][d] = o]
  /\ UNCHANGED status

\* The exit codes of steps that concern no device matter to workflows only.
Finish(j) ==
  /\ status[j] = "running"
  /\ \E codes \in SUBSET {0, 1} :
       status' = [status EXCEPT ![j] = Verdict(rows[j], codes)]
  /\ UNCHANGED rows

\* Queue timeout or executor error (failed), or a cancellation honoured.
Abandon(j, s) ==
  /\ status[j] \in Active
  /\ status' = [status EXCEPT ![j] = s]
  /\ UNCHANGED rows

LifecycleNext ==
  \E j \in Jobs :
    \/ Accept(j) \/ Start(j) \/ Finish(j)
    \/ \E d \in Devices, o \in Outcome : Report(j, d, o)
    \/ \E s \in {"failed", "cancelled"} : Abandon(j, s)

LifecycleSpec == LifecycleInit /\ [][LifecycleNext]_lifecycleVars
=============================================================================
