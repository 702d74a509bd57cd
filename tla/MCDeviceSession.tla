-------------------------- MODULE MCDeviceSession --------------------------
(* Instances of DeviceSession for TLC: two workers on one device.           *)
EXTENDS DeviceSession

CONSTANTS w1, w2

Job(ops)  == [ops |-> ops, stops |-> FALSE]
Step(ops) == [ops |-> ops, stops |-> TRUE]
Idle      == Job(<<>>)

Alone(t)     == (w1 :> t) @@ (w2 :> Idle)
Both(t1, t2) == (w1 :> t1) @@ (w2 :> t2)

\* A whole job, the four kinds of steps, and two sessions that configure one
\* device at the same time, of a job and of a workflow.
MCWorks ==
  {Alone(Job(<<"backup", "command", "transfer", "post", "config">>)),
   Alone(Step(<<"command", "command">>)),
   Alone(Step(<<"wait", "command">>)),
   Alone(Step(<<"transfer", "post">>)),
   Both(Job(<<"config">>), Step(<<"config">>))}

MCDrivers == AllDrivers
=============================================================================
