--------------------------- MODULE WorkflowParser ---------------------------
(***************************************************************************)
(* core/workflow_parser.py: the workflow definitions that parse() accepts. *)
(* A step is reduced to what the runner's control flow depends on.         *)
(***************************************************************************)
EXTENDS Naturals, Sequences

\* VALID_STEP_TYPES: "shell" stands for its two names, "commands" for
\* device_commands and device_config.
StepTypes == {"shell", "commands", "transfer", "runbook", "wait"}

\* A condition "steps.S.exit_code == 0", or != 0, with S the step number of.
NoCondition == [of |-> 0, equal |-> TRUE]

\* body: the fields the type requires are there.  only: the hosts whose
\* platform the step names, {} for any.  A rollback step is a step whose
\* on_error is not looked at.
Step(type, run, when, only) ==
  [type |-> type, run |-> run, body |-> TRUE, when |-> when, only |-> only]
WithOnError(s, action, rollback) ==
  [type |-> s.type, run |-> s.run, body |-> s.body, when |-> s.when,
   only |-> s.only, action |-> action, rollback |-> rollback]

IsShell(s) == s.type = "shell"

AcceptedRollback(s) ==
  /\ s.type \in StepTypes
  /\ s.type \in {"shell", "commands"} => s.body

AcceptedStep(s) ==
  /\ s.type \in StepTypes
  /\ IsShell(s) => s.run \in {"once", "per_device"}
  /\ s.body
  /\ s.action \in {"stop", "continue", "rollback"}
  /\ s.action = "rollback" => s.rollback # <<>>
  /\ \A r \in DOMAIN s.rollback : AcceptedRollback(s.rollback[r])

\* _validate
Accepted(wf) == \A k \in DOMAIN wf : AcceptedStep(wf[k])
=============================================================================
