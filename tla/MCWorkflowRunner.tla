-------------------------- MODULE MCWorkflowRunner --------------------------
(***************************************************************************)
(* Instances of WorkflowRunner for TLC: every workflow of two steps over   *)
(* the steps below that parse() accepts, for two hosts; some of three      *)
(* steps; some for a request that lists a host twice.                      *)
(***************************************************************************)
EXTENDS WorkflowRunner

CONSTANTS d1, d2

TwoHosts    == <<d1, d2>>
ListedTwice == <<d1, d2, d1>>

Kinds == {<<"shell", "once">>, <<"shell", "per_device">>, <<"commands", "absent">>,
          <<"shell", "absent">>, <<"unknown", "absent">>}
Actions == {"stop", "continue", "rollback"}

After(k) == {NoCondition, [of |-> k, equal |-> TRUE], [of |-> k, equal |-> FALSE]}

Commands(w, o) == Step("commands", "absent", w, o)
Rollbacks ==
  {<<>>,
   <<Step("shell", "once", NoCondition, {}), Commands(NoCondition, {d1})>>,
   <<Step("shell", "absent", NoCondition, {}), Step("shell", "per_device", NoCondition, {}),
     Commands(NoCondition, {})>>}

\* Second steps have a condition on the first one or a platform.
First  == {WithOnError(Step(k[1], k[2], NoCondition, {}), a, r) :
             k \in Kinds, a \in Actions, r \in Rollbacks}
Second == {WithOnError(Step(k[1], k[2], w, IF w = NoCondition THEN {d1} ELSE {}), a, <<>>) :
             k \in Kinds, a \in {"stop", "continue"}, w \in After(1)}
TwoSteps == First \X Second

Plain(a, w, o) == WithOnError(Commands(w, o), a, <<>>)
ThreeSteps ==
  {<<Plain(a, NoCondition, {}), Plain(b, NoCondition, {d1}), Plain("stop", w, {})>> :
     a \in {"stop", "continue"}, b \in {"stop", "continue"}, w \in After(1) \cup After(2)}

\* The step with a rollback comes first or is the last one.
Undoable(k) ==
  WithOnError(Step(k[1], k[2], NoCondition, {}), "rollback", <<Commands(NoCondition, {})>>)
RolledBack ==
  {<<Undoable(k), Plain("continue", NoCondition, {})>> : k \in Kinds}
    \cup {<<Undoable(k)>> : k \in Kinds}

\* Rollback steps with conditions: on the step before, and on their own.
Choosy ==
  {<<Plain("continue", NoCondition, {}),
     WithOnError(Commands(NoCondition, {}), a,
       <<Step("shell", "per_device", w, {}), Commands(v, {})>>)>> :
     a \in {"stop", "continue"}, w \in After(1), v \in After(2)}

Workflows ==
  [file : TwoSteps \cup ThreeSteps \cup Choosy \cup {<<>>}, devices : {TwoHosts}] \cup
  [file : RolledBack, devices : {ListedTwice}]

\* Three steps that cannot fail the job.
LongWorkflow ==
  {[file |-> <<Plain("continue", NoCondition, {}), Plain("continue", NoCondition, {}),
               Plain("continue", NoCondition, {})>>,
    devices |-> TwoHosts]}
=============================================================================
