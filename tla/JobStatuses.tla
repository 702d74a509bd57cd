---------------------------- MODULE JobStatuses ----------------------------
(***************************************************************************)
(* The vocabulary of api/schemas.py and the rule by which JobStore derives *)
(* the final status of a job from what the database holds about it.  Only  *)
(* constant-level operators: shared by the executor, the workflow engine   *)
(* and the abstract lifecycle.                                             *)
(***************************************************************************)
EXTENDS Naturals, FiniteSets

\* The statuses a row of the jobs table can hold, "absent" when there is none.
Active   == {"queued", "running"}
Terminal == {"completed", "partial_failure", "failed", "cancelled"}
Statuses == {"absent"} \cup Active \cup Terminal

\* What one device session reports, and what the devices table may hold.
Outcome == {"success", "failed"}
Row     == {"none"} \cup Outcome

\* get_job_summary_counts: the devices of row set R that hold value v.
WithRow(R, v) == {d \in DOMAIN R : R[d] = v}

\* JobStore.mark_complete: R maps devices to rows, codes is the set of exit
\* codes found in workflow_step_outputs, read only when no device row counts.
Verdict(R, codes) ==
  LET ok  == WithRow(R, "success")
      bad == WithRow(R, "failed")
  IN IF bad = {} /\ ok # {}      THEN "completed"
     ELSE IF bad = {} /\ ok = {}
       THEN IF codes = {}        THEN "failed"
            ELSE IF codes # {0}  THEN "partial_failure"
            ELSE "completed"
     ELSE IF ok = {}             THEN "failed"
     ELSE "partial_failure"
=============================================================================
