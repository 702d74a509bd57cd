------------------------- MODULE DeviceSessionProofs -------------------------
(***************************************************************************)
(* Theorems about DeviceSession, for any number of workers on the device,  *)
(* any lists of operations, any length of a configuration and any driver   *)
(* class the records of DeviceSession can describe, however many calls     *)
(* fail and sessions are lost.                                             *)
(***************************************************************************)
EXTENDS DeviceSession, SequenceTheorems, TLAPS

Staging == {"stage", "check", "commit"}
Config  == Staging \cup {"discard", "rescue", "exit_ok", "exit_error"}
Numbers == Nat \X Nat

Types ==
  /\ driver \in Drivers /\ task \in Works
  /\ pc \in [Workers -> Places] /\ status \in [Workers -> {"none", "failed", "success"}]
  /\ attempt \in [Workers -> Nat] /\ op \in [Workers -> Nat] /\ sent \in [Workers -> 0..N]
  /\ session \in [Workers -> {"open", "dead", "none"}] /\ abandoned \in [Workers -> Nat]
  /\ results \in [Workers -> SUBSET (Nat \X {"ok", "error"})]
  /\ staged \in [Workers -> SUBSET Numbers] /\ applied \in [Workers -> SUBSET Numbers]
  /\ refused \in [Workers -> SUBSET Numbers] /\ unseen \in [Workers -> SUBSET Numbers]
  /\ sendings \in SUBSET (Workers \X Nat \X Nat)
  /\ faults \in 0..MaxFaults /\ lost \in SUBSET Workers

\* Where a worker is, against its counters and its session.
Placed(w) ==
  /\ attempt[w] \in 1..Attempts(w)
  /\ abandoned[w] <= attempt[w] /\ (At(w, "resolve") \/ At(w, "connect") \/ At(w, "enable")
                                      => abandoned[w] < attempt[w])
  /\ op[w] \in 1..(Len(task[w].ops) + 1)
  /\ pc[w] \in {"resolve", "connect", "enable"} => op[w] = 1 /\ sent[w] = 0
  /\ At(w, "ops") /\ sent[w] > 0 => op[w] <= Len(task[w].ops) /\ Current(w) = "wait"
  /\ pc[w] \in Config => op[w] <= Len(task[w].ops) /\ Current(w) \in Configs
  /\ pc[w] \in {"check", "commit", "discard", "exit_ok"} => sent[w] = N
  /\ pc[w] \in Config \ {"stage"} => driver.style = "commit"
  /\ driver.style = "commit" /\ pc[w] \in Staging \cup {"discard"} => session[w] = "open"
  /\ driver = Unsupported => pc[w] \in {"resolve", "connect", "returned"}
  /\ session[w] = "dead" => w \in lost
  /\ \A r \in results[w] : r[1] \in DOMAIN task[w].ops

\* What a driver overlooks: nothing if the exit status tells, all of it if the
\* commands are staged.
Overlooked(w) ==
  /\ unseen[w] \subseteq refused[w]
  /\ driver.style = "commit" => unseen[w] = refused[w]
  /\ driver.exact => unseen[w] = {}

\* Nothing but the current operation is being sent, and its commands in order.
Sending(w) ==
  /\ \A c \in sendings : c[1] = w =>
       \/ c[2] < op[w]
       \/ c[2] = op[w] /\ pc[w] \in Config /\ (At(w, "stage") => c[3] <= sent[w])
  /\ \/ pc[w] \in {"check", "commit", "discard"}
     \/ At(w, "rescue") /\ session[w] = "open"
     \/ At(w, "stage") /\ sent[w] > 0
     => \E c \in sendings : c[1] = w
  /\ \A c \in refused[w] : /\ c \in Commands(w)
                           /\ \/ c[1] < op[w]
                              \/ c[1] = op[w] /\ pc[w] \in Config /\ c[2] <= sent[w]
  /\ Overlooked(w)

\* What of the current operation has been sent and not been refused.
Accepted(w) == ({op[w]} \X (1..sent[w])) \ refused[w]

\* The candidate configuration.
Candidates(w) ==
  /\ staged[w] \subseteq Commands(w)
  /\ driver.style # "commit" => staged[w] = {}
  /\ Private /\ (session[w] # "open" \/ pc[w] \notin Config) => staged[w] = {}
  /\ Private /\ pc[w] \in Staging => staged[w] \subseteq Accepted(w)
  /\ driver.style = "commit" /\ pc[w] \in Staging /\ ~Disturbed(w) => Accepted(w) \subseteq staged[w]
  /\ staged[w] # {} => w \in lost \/ pc[w] \in Staging \cup {"discard", "rescue"}

\* The running configuration.
Together(w) ==
  \A i \in DOMAIN task[w].ops : OfOp(applied[w], i) \in {{}, Whole(i) \ refused[w]}
InForce(w, i) ==
  Disturbed(w) \/ Whole(i) \ applied[w] \subseteq
                    (IF driver.exact THEN {} ELSE unseen[w])
Running(w) ==
  /\ applied[w] \subseteq Commands(w)
  /\ Private => Together(w)
  /\ Private => \A c \in applied[w] : \/ c[1] < op[w]
                                      \/ c[1] = op[w] /\ pc[w] \in Config \ (Staging \cup {"discard"})
  /\ At(w, "stage") /\ driver.style # "commit" =>
       {op[w]} \X (1..sent[w]) \subseteq applied[w] \cup refused[w]
  /\ At(w, "stage") /\ driver.style = "each" =>
       \A c \in refused[w] \ unseen[w] : c[1] < op[w]
  /\ At(w, "exit_ok") => InForce(w, op[w])
  /\ \A r \in results[w] : r[2] = "ok" /\ task[w].ops[r[1]] \in Configs => InForce(w, r[1])

SessionInv ==
  /\ Types /\ resent = {}
  /\ \A w \in Workers : Placed(w) /\ Sending(w) /\ Candidates(w) /\ Running(w)


-----------------------------------------------------------------------------
(* Helpers of the model.                                                   *)

\* What a task is.
LEMMA TaskFacts ==
  ASSUME Types, NEW w \in Workers
  PROVE  /\ task[w].ops \in Seq(Operations) /\ Len(task[w].ops) \in Nat
         /\ DOMAIN task[w].ops = 1..Len(task[w].ops)
         /\ Attempts(w) \in Nat \ {0}
<1>1. task[w] \in Tasks
  BY SessionAssumption DEF Types
<1>2. task[w].ops \in Seq(Operations)
  BY <1>1 DEF Tasks
<1> QED
  BY <1>2, SessionAssumption, LenProperties DEF Attempts

\* What the transport does to one session leaves the others alone.
LEMMA LineFacts ==
  ASSUME Types, NEW w \in Workers,
         Returns(w) \/ Raises(w, TRUE) \/ Raises(w, FALSE)
  PROVE  /\ session' \in [Workers -> {"open", "dead", "none"}]
         /\ faults' \in 0..MaxFaults /\ lost' \in SUBSET Workers /\ lost \subseteq lost'
         /\ \A v \in Workers \ {w} : session'[v] = session[v]
         /\ session'[w] \in {"open", "dead"}
         /\ session'[w] = "dead" => session[w] = "dead" \/ w \in lost'
  BY SessionAssumption DEF Types, Returns, Raises, Drops, Late, Session, line

\* How an operation ends.
LEMMA ConcludeFacts ==
  ASSUME Types, NEW w \in Workers, NEW r \in {"ok", "error"},
         op[w] \in 1..Len(task[w].ops), Conclude(w, r)
  PROVE  /\ pc' \in [Workers -> Places] /\ pc'[w] = "ops"
         /\ op' \in [Workers -> Nat] /\ op'[w] \in (op[w] + 1)..(Len(task[w].ops) + 1)
         /\ sent' \in [Workers -> 0..N] /\ sent'[w] = 0 /\ attempt' = attempt
         /\ results' \in [Workers -> SUBSET (Nat \X {"ok", "error"})]
         /\ results'[w] = results[w] \cup {<<op[w], r>>}
         /\ \A v \in Workers \ {w} : /\ pc'[v] = pc[v] /\ op'[v] = op[v]
                                     /\ sent'[v] = sent[v] /\ results'[v] = results[v]
<1>1. op[w] \in Nat /\ Len(task[w].ops) \in Nat
  BY TaskFacts DEF Types
<1>2. <<op[w], r>> \in Nat \X {"ok", "error"}
  BY <1>1
<1> DEFINE l == Len(task[w].ops)
<1> DEFINE skips == r = "error" /\ Current(w) = "transfer" /\ op[w] < l
                      /\ task[w].ops[op[w] + 1] = "post"
<1> DEFINE n == IF r = "error" /\ task[w].stops THEN l + 1
                ELSE IF skips THEN op[w] + 2 ELSE op[w] + 1
<1>3. op' = [op EXCEPT ![w] = n]
  BY DEF Conclude
<1>4. n \in (op[w] + 1)..(l + 1)
  <2>1. skips => op[w] + 2 <= l + 1
    BY <1>1
  <2> HIDE DEF skips
  <2> QED
    BY <1>1, <2>1
<1> HIDE DEF n
<1>5. op' \in [Workers -> Nat] /\ op'[w] = n /\ \A v \in Workers \ {w} : op'[v] = op[v]
  BY <1>1, <1>3, <1>4 DEF Types
<1>6. results' \in [Workers -> SUBSET (Nat \X {"ok", "error"})]
  BY <1>2 DEF Types, Conclude
<1>7. sent' \in [Workers -> 0..N] /\ sent'[w] = 0
  BY SessionAssumption DEF Types, Conclude
<1>8. pc' \in [Workers -> Places] /\ pc'[w] = "ops" /\ attempt' = attempt
  BY DEF Types, Conclude, Goto, Places
<1>9. results'[w] = results[w] \cup {<<op[w], r>>}
  BY DEF Types, Conclude
<1>10. \A v \in Workers \ {w} : pc'[v] = pc[v] /\ sent'[v] = sent[v] /\ results'[v] = results[v]
  BY DEF Types, Conclude, Goto
<1> QED
  BY <1>4, <1>5, <1>6, <1>7, <1>8, <1>9, <1>10


-----------------------------------------------------------------------------
(* What a step of one worker leaves to the others.                         *)

\* What a step of w keeps of every other worker, and what only grows.
Keeps(w, v) ==
  /\ pc'[v] = pc[v] /\ attempt'[v] = attempt[v] /\ op'[v] = op[v] /\ sent'[v] = sent[v]
  /\ results'[v] = results[v] /\ session'[v] = session[v] /\ abandoned'[v] = abandoned[v]
  /\ refused'[v] = refused[v] /\ unseen'[v] = unseen[v]
  /\ \/ staged'[v] = staged[v] /\ applied'[v] = applied[v]
     \/ /\ driver.shared /\ \E c \in sendings : c[1] = w
        /\ staged'[v] = {} /\ applied'[v] \in {applied[v], applied[v] \cup staged[v]}

Grows(w) ==
  /\ driver' = driver /\ task' = task /\ lost \subseteq lost' /\ sendings \subseteq sendings'
  /\ \A c \in sendings' : c \in sendings \/ c[1] = w

Local(w) == Placed(w) /\ Sending(w) /\ Candidates(w) /\ Running(w)

\* Whoever commits or rolls back in the candidate that Junos sessions share has
\* sent commands into it: the other workers were disturbed.
LEMMA OthersStay ==
  ASSUME Types, NEW w \in Workers, NEW v \in Workers \ {w}, Local(v), Keeps(w, v), Grows(w)
  PROVE  Local(v)'
<1>2. Placed(v)'
  <2>1. Placed(v)
    BY DEF Local
  <2> QED
    BY <2>1 DEF Placed, Keeps, Grows, At, Current, Attempts
<1>3. Disturbed(v) => Disturbed(v)'
  BY DEF Disturbed, Grows
<1>4. \A c \in sendings' : c[1] = v => c \in sendings
  BY DEF Grows
<1>5. Sending(v)'
  <2>1. Sending(v)
    BY DEF Local
  <2> QED
    BY <1>4, <2>1 DEF Sending, Keeps, Grows, At, Commands, Overlooked
<1>6. CASE staged'[v] = staged[v] /\ applied'[v] = applied[v]
  <2>1. Candidates(v)'
    <3>1. Candidates(v)
      BY DEF Local
    <3> QED
      BY <1>3, <1>6, <3>1 DEF Candidates, Keeps, Grows, At, Commands, Accepted, Private
  <2>2. Running(v)'
    <3>1. Running(v)
      BY DEF Local
    <3>2. \A i : InForce(v, i) => InForce(v, i)'
      BY <1>3, <1>6 DEF InForce, Keeps, Grows
    <3>3. Private /\ Together(v) => Together(v)'
      BY <1>6 DEF Together, Keeps, Grows
    <3> QED
      BY <1>6, <3>1, <3>2, <3>3 DEF Running, Keeps, Grows, At, Commands, Private
  <2> QED
    BY <1>2, <1>5, <2>1, <2>2 DEF Local
<1>7. CASE /\ driver.shared /\ \E c \in sendings : c[1] = w
           /\ staged'[v] = {} /\ applied'[v] \in {applied[v], applied[v] \cup staged[v]}
  <2>1. Disturbed(v)' /\ ~Private /\ ~Private'
    BY <1>7 DEF Disturbed, Grows, Private
  <2>2. Candidates(v)'
    BY <1>7, <2>1 DEF Candidates
  <2>3. Running(v)'
    <3>1. Running(v) /\ staged[v] \subseteq Commands(v)
      BY DEF Local, Candidates
    <3>2. \A i : InForce(v, i)'
      BY <2>1 DEF InForce
    <3> QED
      BY <1>7, <2>1, <3>1, <3>2 DEF Running, Keeps, Grows, At, Commands
  <2> QED
    BY <1>2, <1>5, <2>2, <2>3 DEF Local
<1> QED
  BY <1>6, <1>7 DEF Keeps


-----------------------------------------------------------------------------
(* A step from the view of the worker that takes it.                       *)

\* The part of a step that does not depend on where the worker is.
Common(w) ==
  Types' /\ resent' = {} /\ Grows(w) /\ \A v \in Workers \ {w} : Keeps(w, v)

\* The transport's part in Candidate(staged): only w's own session counts.
LEMMA CandidateKept ==
  ASSUME Types, NEW w \in Workers, \A v \in Workers : Candidates(v), Candidate(staged),
         \A v \in Workers \ {w} : session'[v] = session[v]
  PROVE  /\ staged' \in [Workers -> SUBSET Numbers]
         /\ \A v \in Workers \ {w} : staged'[v] = staged[v]
         /\ staged'[w] = IF Private /\ session'[w] # "open" THEN {} ELSE staged[w]
<1>1. \A v \in Workers : staged'[v] = IF Private /\ session'[v] # "open" THEN {} ELSE staged[v]
  BY DEF Candidate
<1>2. \A v \in Workers : staged[v] \in SUBSET Numbers
  BY DEF Types
<1>3. staged' \in [Workers -> SUBSET Numbers]
  <2>1. staged' = [v \in Workers |-> IF Private /\ session'[v] # "open" THEN {} ELSE staged[v]]
    BY DEF Candidate
  <2> QED
    BY <1>2, <2>1
<1>4. \A v \in Workers : Private /\ session[v] # "open" => staged[v] = {}
  BY DEF Candidates
<1> QED
  BY <1>1, <1>3, <1>4

\* Outside run_config_commands only the place of the worker matters.
LEMMA Outside ==
  ASSUME SessionInv, NEW w \in Workers, Grows(w), Placed(w)',
         pc[w] \notin Config, pc'[w] \notin Config,
         op'[w] = op[w], results'[w] = results[w], staged'[w] \in {staged[w], {}},
         UNCHANGED <<applied, refused, unseen, sendings>>
  PROVE  Local(w)'
<1>1. Placed(w) /\ Sending(w) /\ Candidates(w) /\ Running(w)
  BY DEF SessionInv
<1>2. pc[w] # "stage" /\ pc'[w] # "stage" /\ pc'[w] # "exit_ok" /\ pc'[w] # "rescue"
  BY DEF Config, Staging
<1>3. pc'[w] \notin Staging /\ pc'[w] \notin {"check", "commit", "discard"}
      /\ pc'[w] \notin Staging \cup {"discard"} /\ pc[w] \notin Staging \cup {"discard", "rescue"}
  BY DEF Config, Staging
<1>4. Sending(w)'
  BY <1>1, <1>2, <1>3 DEF Sending, At, Commands, Grows, Overlooked
<1>5. Candidates(w)'
  BY <1>1, <1>2, <1>3 DEF Candidates, At, Commands, Grows, Private
<1>6. Running(w)'
  <2>1. \A i : InForce(w, i) => InForce(w, i)'
    BY DEF InForce, Disturbed, Grows
  <2>2. Private /\ Together(w) => Together(w)'
    BY DEF Together, Grows
  <2> QED
    BY <1>1, <1>2, <1>3, <2>1, <2>2 DEF Running, At, Commands, Grows, Private
<1> QED
  BY <1>4, <1>5, <1>6 DEF Local

\* What a driver has overlooked changes with what was refused.
LEMMA OverlookedKept ==
  ASSUME SessionInv, NEW w \in Workers, Grows(w), refused'[w] = refused[w], unseen'[w] = unseen[w]
  PROVE  Overlooked(w)'
BY DEF SessionInv, Sending, Overlooked, Grows

\* What has to be shown when an operation ends.
LEMMA Concluded ==
  ASSUME SessionInv, NEW w \in Workers, NEW r \in {"ok", "error"},
         op[w] \in 1..Len(task[w].ops), Conclude(w, r), Types', Grows(w), driver # Unsupported,
         pc[w] \notin {"resolve", "connect", "enable"},
         abandoned' = abandoned, session'[w] = "dead" => w \in lost',
         \A c \in sendings' : c[1] = w => c[2] <= op[w],
         \A c \in refused'[w] : c \in Commands(w) /\ c[1] <= op[w], Overlooked(w)',
         staged'[w] \subseteq Commands(w), driver.style # "commit" => staged'[w] = {},
         Private => staged'[w] = {}, staged'[w] # {} => w \in lost',
         applied'[w] \subseteq Commands(w), Private => Together(w)',
         Private => \A c \in applied'[w] : c[1] <= op[w],
         r = "ok" /\ Current(w) \in Configs => \A i : i = op[w] => InForce(w, i)',
         \A i : InForce(w, i) => InForce(w, i)'
  PROVE  Local(w)'
<1>1. Placed(w) /\ Running(w)
  BY DEF SessionInv
<1>2. Types
  BY DEF SessionInv
<1>3. Len(task[w].ops) \in Nat /\ DOMAIN task[w].ops = 1..Len(task[w].ops) /\ op[w] \in Nat
  BY <1>2, TaskFacts DEF Types
<1>4. /\ pc'[w] = "ops" /\ op'[w] \in (op[w] + 1)..(Len(task[w].ops) + 1)
      /\ sent'[w] = 0 /\ attempt' = attempt /\ results'[w] = results[w] \cup {<<op[w], r>>}
  BY <1>2, ConcludeFacts
<1>5. "ops" \notin Config
  BY DEF Config, Staging
<1>6. task' = task /\ driver' = driver
  BY DEF Grows
<1>7. Placed(w)'
  <2>1. \A x \in results'[w] : x[1] \in DOMAIN task[w].ops
    <3>1. \A x \in results[w] : x[1] \in DOMAIN task[w].ops
      BY <1>1 DEF Placed
    <3>2. <<op[w], r>>[1] = op[w]
      OBVIOUS
    <3>3. \A x \in results'[w] : x \in results[w] \/ x = <<op[w], r>>
      BY <1>4
    <3> QED
      BY <1>3, <3>1, <3>2, <3>3
  <2>2. abandoned[w] <= attempt[w] /\ attempt[w] \in 1..Attempts(w)
    BY <1>1 DEF Placed
  <2>3. op'[w] \in 1..(Len(task[w].ops) + 1)
    BY <1>3, <1>4
  <2> QED
    BY <1>4, <1>5, <1>6, <2>1, <2>2, <2>3 DEF Placed, At, Current, Attempts, Config, Staging
<1>8. Sending(w)'
  <2>1. \A c \in sendings' : c[1] = w => c[2] < op'[w]
    <3>1. \A c \in sendings' : c[2] \in Nat
      BY DEF Types
    <3> QED
      BY <1>3, <1>4, <3>1
  <2>2. \A c \in refused'[w] : c \in Commands(w)' /\ c[1] < op'[w]
    <3>1. \A c \in refused'[w] : c \in Commands(w)' /\ c[1] \in Nat
      BY <1>3, <1>6 DEF Commands
    <3> QED
      BY <1>3, <1>4, <3>1
  <2> QED
    BY <1>4, <1>5, <1>6, <2>1, <2>2 DEF Sending, At, Overlooked
<1>9. Candidates(w)'
  <2>1. staged'[w] \subseteq Commands(w)'
    BY <1>6 DEF Commands
  <2>2. pc'[w] \notin Staging /\ pc'[w] \notin Config
    BY <1>4 DEF Config, Staging
  <2> QED
    BY <1>6, <2>1, <2>2 DEF Candidates, Private
<1>10. Running(w)'
  <2>1. applied'[w] \subseteq Commands(w)'
    BY <1>6 DEF Commands
  <2>2. Private' => \A c \in applied'[w] : c[1] < op'[w]
    <3>1. \A c \in applied'[w] : c[1] \in Nat
      BY <1>3 DEF Commands
    <3> QED
      BY <1>3, <1>4, <1>6, <3>1 DEF Private
  <2>3. ASSUME NEW x \in results'[w], x[2] = "ok", task'[w].ops[x[1]] \in Configs
        PROVE  InForce(w, x[1])'
    <3>1. CASE x \in results[w]
      BY <1>1, <1>6, <2>3, <3>1 DEF Running
    <3>2. CASE x = <<op[w], r>>
      <4>1. x[1] = op[w] /\ r = "ok"
        BY <2>3, <3>2
      <4>2. Current(w) \in Configs
        BY <1>6, <2>3, <4>1 DEF Current
      <4> QED
        BY <4>1, <4>2
    <3> QED
      BY <1>4, <3>1, <3>2
  <2>4. (Private => Together(w))'
    BY <1>6 DEF Private
  <2> QED
    BY <1>4, <2>1, <2>2, <2>3, <2>4 DEF Running, At
<1> QED
  BY <1>7, <1>8, <1>9, <1>10 DEF Local


-----------------------------------------------------------------------------
(* Connecting and leaving.                                                 *)

\* Where a worker may be outside run_config_commands.
LEMMA PlacedOutside ==
  ASSUME Types, NEW w \in Workers, Placed(w), Types', Grows(w),
         pc'[w] \in {"resolve", "connect", "enable", "ops", "returned"},
         attempt'[w] <= Attempts(w), abandoned'[w] <= attempt'[w], attempt'[w] # 0,
         pc'[w] \in {"resolve", "connect", "enable"} =>
           abandoned'[w] < attempt'[w] /\ op[w] = 1 /\ sent'[w] = 0,
         pc'[w] = "ops" /\ sent'[w] > 0 => op[w] <= Len(task[w].ops) /\ Current(w) = "wait",
         driver = Unsupported => pc'[w] \in {"resolve", "connect", "returned"},
         session'[w] = "dead" => w \in lost', op'[w] = op[w], results'[w] = results[w]
  PROVE  Placed(w)' /\ pc'[w] \notin Config
<1>1. driver' = driver /\ task' = task /\ Attempts(w)' = Attempts(w)
  BY DEF Grows, Attempts
<1>2. attempt'[w] \in 1..Attempts(w)'
  BY <1>1, TaskFacts DEF Types
<1>3. pc'[w] \notin Config /\ pc'[w] \notin Staging \cup {"discard"}
      /\ pc'[w] \notin {"check", "commit", "discard", "exit_ok"}
      /\ pc'[w] \notin Config \ {"stage"}
  BY DEF Config, Staging
<1>4. op'[w] \in 1..(Len(task'[w].ops) + 1)
  BY <1>1 DEF Placed
<1>5. \A r \in results'[w] : r[1] \in DOMAIN task'[w].ops
  BY <1>1 DEF Placed
<1>6. pc'[w] = "ops" /\ sent'[w] > 0 => op'[w] <= Len(task'[w].ops) /\ Current(w)' = "wait"
  BY <1>1 DEF Current
<1> QED
  BY <1>1, <1>2, <1>3, <1>4, <1>5, <1>6 DEF Placed, At

\* The retry loop stays within the attempts the worker has.
LEMMA AttemptFailsFacts ==
  ASSUME Types, NEW w \in Workers, Placed(w), NEW b \in BOOLEAN, AttemptFails(w, b)
  PROVE  /\ pc' \in [Workers -> Places] /\ pc'[w] \in {"connect", "returned"}
         /\ attempt' \in [Workers -> Nat] /\ attempt'[w] \in attempt[w]..Attempts(w)
         /\ pc'[w] = "connect" => attempt'[w] = attempt[w] + 1
         /\ status' \in [Workers -> {"none", "failed", "success"}] /\ op' = op /\ sent' = sent
         /\ \A v \in Workers \ {w} : pc'[v] = pc[v] /\ attempt'[v] = attempt[v]
<1>1. attempt[w] \in 1..Attempts(w) /\ Attempts(w) \in Nat
  BY TaskFacts DEF Placed
<1>2. CASE b /\ MayRetry(w)
  <2>1. /\ pc' = [pc EXCEPT ![w] = "connect"] /\ attempt' = [attempt EXCEPT ![w] = @ + 1]
        /\ op' = op /\ sent' = sent /\ status' = status /\ attempt[w] < Attempts(w)
    BY <1>2 DEF AttemptFails, Goto, MayRetry
  <2>2. /\ attempt \in [Workers -> Nat] /\ pc \in [Workers -> Places]
        /\ status \in [Workers -> {"none", "failed", "success"}]
    BY DEF Types
  <2>3. attempt' \in [Workers -> Nat] /\ attempt'[w] = attempt[w] + 1
        /\ \A v \in Workers \ {w} : attempt'[v] = attempt[v]
    BY <2>1, <2>2
  <2>4. attempt'[w] \in attempt[w]..Attempts(w)
    BY <1>1, <2>1, <2>3
  <2>5. /\ pc' \in [Workers -> Places] /\ pc'[w] = "connect"
        /\ \A v \in Workers \ {w} : pc'[v] = pc[v]
    BY <2>1, <2>2 DEF Places
  <2> QED
    BY <2>1, <2>2, <2>3, <2>4, <2>5
<1>3. CASE ~(b /\ MayRetry(w))
  <2>1. /\ pc' = [pc EXCEPT ![w] = "returned"] /\ attempt' = attempt
        /\ op' = op /\ sent' = sent /\ status' = [status EXCEPT ![w] = "failed"]
    BY <1>3 DEF AttemptFails, Return, Goto, Stays
  <2>2. /\ attempt \in [Workers -> Nat] /\ pc \in [Workers -> Places]
        /\ status \in [Workers -> {"none", "failed", "success"}]
    BY DEF Types
  <2>3. attempt'[w] \in attempt[w]..Attempts(w)
    BY <1>1, <2>1
  <2>4. /\ pc' \in [Workers -> Places] /\ pc'[w] = "returned"
        /\ \A v \in Workers \ {w} : pc'[v] = pc[v]
    BY <2>1, <2>2 DEF Places
  <2>5. status' \in [Workers -> {"none", "failed", "success"}]
    BY <2>1, <2>2
  <2> QED
    BY <2>1, <2>2, <2>3, <2>4, <2>5
<1> QED
  BY <1>2, <1>3

LEMMA ResolveStep ==
  ASSUME SessionInv, NEW w \in Workers, Resolve(w)
  PROVE  Common(w) /\ Local(w)'
<1> USE DEF device, line
<1>1. Types /\ resent = {} /\ Placed(w)
  BY DEF SessionInv
<1>2. Types' /\ pc[w] = "resolve" /\ pc'[w] \in {"connect", "returned"}
      /\ \A v \in Workers \ {w} : pc'[v] = pc[v]
  BY <1>1 DEF Types, Resolve, Return, Goto, Stays, At, Places
<1>3. UNCHANGED <<driver, task, attempt, op, sent, results, abandoned, device, line>>
  BY DEF Resolve, Return, Stays
<1>4. Common(w)
  BY <1>1, <1>2, <1>3 DEF Common, Grows, Keeps
<1>5. Placed(w)'
  <2>1. attempt[w] \in 1..Attempts(w) /\ abandoned[w] < attempt[w] /\ op[w] = 1 /\ sent[w] = 0
    BY <1>1, <1>2 DEF Placed, At
  <2>2. session[w] = "dead" => w \in lost
    BY <1>1 DEF Placed
  <2>3. attempt[w] <= Attempts(w) /\ abandoned[w] <= attempt[w] /\ attempt[w] # 0
    <3>1. attempt[w] \in Nat /\ abandoned[w] \in Nat /\ Attempts(w) \in Nat
      BY <1>1, TaskFacts DEF Types
    <3> QED
      BY <2>1, <3>1
  <2> QED
    BY <1>1, <1>2, <1>3, <1>4, <2>1, <2>2, <2>3, PlacedOutside DEF Common
<1> QED
  <2>1. pc[w] \notin Config /\ pc'[w] \notin Config
    BY <1>2 DEF Config, Staging
  <2> QED
    BY <1>2, <1>3, <1>4, <1>5, <2>1, Outside DEF Common

LEMMA ConnectStep ==
  ASSUME SessionInv, NEW w \in Workers, Connect(w)
  PROVE  Common(w) /\ Local(w)'
<1> USE DEF device
<1>1. Types /\ resent = {} /\ Placed(w)
  BY DEF SessionInv
<1>2. UNCHANGED <<driver, task, op, sent, results, abandoned, device, faults, lost>>
  BY DEF Connect, AttemptFails, Return, Stays
<1>3. pc[w] = "connect" /\ attempt[w] \in 1..Attempts(w) /\ Attempts(w) \in Nat
  BY <1>1, TaskFacts DEF Connect, At, Placed
<1>4. /\ pc' \in [Workers -> Places] /\ attempt' \in [Workers -> Nat]
      /\ status' \in [Workers -> {"none", "failed", "success"}]
      /\ session' \in [Workers -> {"open", "dead", "none"}]
      /\ attempt'[w] \in attempt[w]..Attempts(w)
      /\ pc'[w] \in {"connect", "returned", "ops", "enable"}
      /\ driver = Unsupported => pc'[w] \in {"connect", "returned"}
      /\ session'[w] = session[w] \/ session'[w] = "open"
      /\ \A v \in Workers \ {w} : /\ pc'[v] = pc[v] /\ attempt'[v] = attempt[v]
                                  /\ session'[v] = session[v]
  <2>1. ASSUME NEW b \in BOOLEAN, AttemptFails(w, b), session' = session
        PROVE  <1>4!:
    BY <1>1, <2>1, AttemptFailsFacts DEF Types
  <2>2. ASSUME driver # Unsupported, Goto(w, "ops") \/ Goto(w, "enable"),
               Stays(w), Session(w, "open"), UNCHANGED status
        PROVE  <1>4!:
    <3>1. /\ pc \in [Workers -> Places] /\ session \in [Workers -> {"open", "dead", "none"}]
          /\ attempt \in [Workers -> Nat] /\ status \in [Workers -> {"none", "failed", "success"}]
      BY <1>1 DEF Types
    <3>2. attempt' = attempt /\ status' = status /\ session' = [session EXCEPT ![w] = "open"]
      BY <2>2 DEF Stays, Session
    <3>3. /\ pc' \in [Workers -> Places] /\ pc'[w] \in {"ops", "enable"}
          /\ \A v \in Workers \ {w} : pc'[v] = pc[v]
      BY <2>2, <3>1 DEF Goto, Places
    <3>4. attempt'[w] \in attempt[w]..Attempts(w)
      BY <1>3, <3>2
    <3>5. /\ session' \in [Workers -> {"open", "dead", "none"}] /\ session'[w] = "open"
          /\ \A v \in Workers \ {w} : session'[v] = session[v]
      BY <3>1, <3>2
    <3> QED
      BY <2>2, <3>1, <3>2, <3>3, <3>4, <3>5
  <2> QED
    BY <2>1, <2>2 DEF Connect
<1>5. Types'
  BY <1>1, <1>2, <1>4 DEF Types
<1>6. Common(w)
  BY <1>1, <1>2, <1>4, <1>5 DEF Common, Grows, Keeps
<1>7. Placed(w)'
  <2>1. abandoned[w] < attempt'[w] /\ abandoned[w] \in Nat /\ attempt'[w] \in 1..Attempts(w)
    BY <1>1, <1>3, <1>4 DEF Placed, At, Types
  <2>2. op[w] = 1 /\ sent[w] = 0
    BY <1>1, <1>3 DEF Placed
  <2>3. session'[w] = "dead" => w \in lost
    BY <1>1, <1>4 DEF Placed
  <2> QED
    <3>1. attempt'[w] <= Attempts(w) /\ attempt'[w] # 0 /\ abandoned[w] <= attempt'[w]
      BY <1>3, <2>1
    <3> QED
      BY <1>1, <1>2, <1>4, <1>5, <1>6, <2>1, <2>2, <2>3, <3>1, PlacedOutside DEF Common
<1> QED
  <2>1. pc[w] \notin Config /\ pc'[w] \notin Config
    BY <1>3, <1>4 DEF Config, Staging
  <2> QED
    BY <1>2, <1>6, <1>7, <2>1, Outside DEF Common


LEMMA EnableStep ==
  ASSUME SessionInv, NEW w \in Workers, Enable(w)
  PROVE  Common(w) /\ Local(w)'
<1> USE DEF device
<1>1. Types /\ resent = {} /\ Placed(w)
  BY DEF SessionInv
<1>2. UNCHANGED <<driver, task, op, sent, results, device, faults, lost>>
  BY DEF Enable, AttemptFails, Return, Stays
<1>3. pc[w] = "enable" /\ attempt[w] \in 1..Attempts(w) /\ Attempts(w) \in Nat
  BY <1>1, TaskFacts DEF Enable, At, Placed
<1>4. /\ abandoned[w] < attempt[w] /\ abandoned[w] \in Nat /\ op[w] = 1 /\ sent[w] = 0
      /\ driver # Unsupported
      /\ session[w] = "dead" => w \in lost
  BY <1>1, <1>3 DEF Placed, At, Types
<1>5. CASE Goto(w, "ops") /\ Stays(w) /\ UNCHANGED <<status, session, abandoned>>
  <2>1. /\ pc' \in [Workers -> Places] /\ pc'[w] = "ops" /\ attempt' = attempt
        /\ \A v \in Workers \ {w} : pc'[v] = pc[v]
    BY <1>1, <1>5 DEF Types, Goto, Stays, Places
  <2>2. Types'
    BY <1>1, <1>2, <1>5, <2>1 DEF Types
  <2>3. Common(w)
    BY <1>1, <1>2, <1>5, <2>1, <2>2 DEF Common, Grows, Keeps
  <2>4. attempt[w] <= Attempts(w) /\ attempt[w] # 0 /\ abandoned[w] <= attempt[w]
    BY <1>3, <1>4
  <2>5. Placed(w)'
    BY <1>1, <1>2, <1>4, <1>5, <2>1, <2>2, <2>3, <2>4, PlacedOutside DEF Common
  <2>6. pc[w] \notin Config /\ pc'[w] \notin Config
    BY <1>3, <2>1 DEF Config, Staging
  <2> QED
    BY <1>2, <2>3, <2>5, <2>6, Outside DEF Common
<1>6. ASSUME NEW b \in BOOLEAN, AttemptFails(w, b), Session(w, "none"),
             abandoned' = [abandoned EXCEPT ![w] = @ + 1]
      PROVE  Common(w) /\ Local(w)'
  <2>1. /\ pc' \in [Workers -> Places] /\ pc'[w] \in {"connect", "returned"}
        /\ attempt' \in [Workers -> Nat] /\ attempt'[w] \in attempt[w]..Attempts(w)
        /\ pc'[w] = "connect" => attempt'[w] = attempt[w] + 1
        /\ status' \in [Workers -> {"none", "failed", "success"}]
        /\ \A v \in Workers \ {w} : pc'[v] = pc[v] /\ attempt'[v] = attempt[v]
    BY <1>1, <1>6, AttemptFailsFacts
  <2>2. /\ abandoned' \in [Workers -> Nat] /\ abandoned'[w] = abandoned[w] + 1
        /\ \A v \in Workers \ {w} : abandoned'[v] = abandoned[v]
    BY <1>1, <1>6 DEF Types
  <2>3. /\ session' \in [Workers -> {"open", "dead", "none"}] /\ session'[w] = "none"
        /\ \A v \in Workers \ {w} : session'[v] = session[v]
    BY <1>1, <1>6 DEF Types, Session
  <2>4. Types'
    BY <1>1, <1>2, <2>1, <2>2, <2>3 DEF Types
  <2>5. Common(w)
    BY <1>1, <1>2, <2>1, <2>2, <2>3, <2>4 DEF Common, Grows, Keeps
  <2>6. /\ attempt'[w] <= Attempts(w) /\ attempt'[w] # 0 /\ abandoned'[w] <= attempt'[w]
        /\ pc'[w] = "connect" => abandoned'[w] < attempt'[w]
    BY <1>3, <1>4, <2>1, <2>2
  <2>7. Placed(w)'
    BY <1>1, <1>2, <1>4, <2>1, <2>3, <2>4, <2>5, <2>6, PlacedOutside DEF Common
  <2>8. pc[w] \notin Config /\ pc'[w] \notin Config
    BY <1>3, <2>1 DEF Config, Staging
  <2> QED
    BY <1>2, <2>5, <2>7, <2>8, Outside DEF Common
<1> QED
  BY <1>5, <1>6 DEF Enable

LEMMA CollectStep ==
  ASSUME SessionInv, NEW w \in Workers, Collect(w)
  PROVE  Common(w) /\ Local(w)'
<1> USE DEF device, place
<1>1. Types /\ resent = {} /\ Local(w)
  BY DEF SessionInv, Local
<1>2. UNCHANGED <<driver, task, place, results, status, session, device, faults, lost>>
  BY DEF Collect
<1>3. /\ abandoned' \in [Workers -> Nat] /\ abandoned'[w] < abandoned[w]
      /\ \A v \in Workers \ {w} : abandoned'[v] = abandoned[v]
  BY <1>1 DEF Types, Collect
<1>4. Common(w)
  <2>1. Types'
    BY <1>1, <1>2, <1>3 DEF Types
  <2> QED
    BY <1>1, <1>2, <1>3, <2>1 DEF Common, Grows, Keeps
<1>5. Placed(w)'
  <2>1. abandoned[w] \in Nat /\ abandoned'[w] \in Nat /\ attempt[w] \in Nat
    BY <1>1, <1>3 DEF Types
  <2>2. abandoned[w] <= attempt[w] => abandoned'[w] <= attempt[w] /\ abandoned'[w] < attempt[w]
    BY <1>3, <2>1
  <2>3. abandoned[w] <= attempt[w] /\ abandoned'[w] < attempt[w] /\ abandoned'[w] <= attempt[w]
    BY <1>1, <2>2 DEF Local, Placed
  <2> QED
    BY <1>1, <1>2, <2>3 DEF Local, Placed, At, Current, Attempts
<1>6. Sending(w)'
  BY <1>1, <1>2 DEF Local, Sending, At, Commands, Overlooked
<1>7. Candidates(w)'
  BY <1>1, <1>2 DEF Local, Candidates, At, Commands, Accepted, Private, Disturbed
<1>8. Running(w)'
  <2>1. \A i : InForce(w, i) => InForce(w, i)'
    BY <1>2 DEF InForce, Disturbed
  <2>2. Together(w) => Together(w)'
    BY <1>2 DEF Together
  <2> QED
    BY <1>1, <1>2, <2>1, <2>2 DEF Local, Running, At, Commands, Private
<1> QED
  BY <1>4, <1>5, <1>6, <1>7, <1>8 DEF Local

LEMMA DisconnectStep ==
  ASSUME SessionInv, NEW w \in Workers, Disconnect(w)
  PROVE  Common(w) /\ Local(w)'
<1>1. Types /\ resent = {} /\ Placed(w) /\ \A v \in Workers : Candidates(v)
  BY DEF SessionInv
<1>2. UNCHANGED <<driver, task, attempt, op, sent, results, abandoned, applied, refused, unseen,
                  sendings, resent, faults, lost>>
  BY DEF Disconnect, Return, Stays
<1>3. pc[w] = "ops" /\ op[w] > Len(task[w].ops)
  BY DEF Disconnect, Finished, At
<1>4. /\ pc' \in [Workers -> Places] /\ pc'[w] = "returned"
      /\ \A v \in Workers \ {w} : pc'[v] = pc[v]
  BY <1>1 DEF Types, Disconnect, Return, Goto, Places
<1>5. /\ session' \in [Workers -> {"open", "dead", "none"}] /\ session'[w] = "none"
      /\ \A v \in Workers \ {w} : session'[v] = session[v]
  BY <1>1 DEF Types, Disconnect, Session
<1>6. status' \in [Workers -> {"none", "failed", "success"}]
  BY <1>1 DEF Types, Disconnect, Return, Verdict
<1>7. /\ staged' \in [Workers -> SUBSET Numbers] /\ staged'[w] \in {staged[w], {}}
      /\ \A v \in Workers \ {w} : staged'[v] = staged[v]
  BY <1>1, <1>5, CandidateKept DEF Disconnect
<1>8. Common(w)
  <2>1. Types'
    BY <1>1, <1>2, <1>4, <1>5, <1>6, <1>7 DEF Types
  <2> QED
    BY <1>1, <1>2, <1>4, <1>5, <1>7, <2>1 DEF Common, Grows, Keeps
<1>9. Placed(w)'
  <2>1. attempt[w] <= Attempts(w) /\ attempt[w] # 0 /\ abandoned[w] <= attempt[w]
    <3>1. attempt[w] \in 1..Attempts(w) /\ abandoned[w] <= attempt[w] /\ Attempts(w) \in Nat
      BY <1>1, TaskFacts DEF Placed
    <3> QED
      BY <3>1
  <2> QED
    BY <1>1, <1>2, <1>4, <1>5, <1>8, <2>1, PlacedOutside DEF Common
<1> QED
  <2>1. pc[w] \notin Config /\ pc'[w] \notin Config
    BY <1>3, <1>4 DEF Config, Staging
  <2> QED
    BY <1>2, <1>7, <1>8, <1>9, <2>1, Outside DEF Common


-----------------------------------------------------------------------------
(* Operations that send no configuration.                                  *)

\* What was applied together or is in force stays so while the device keeps
\* its running configuration and its refusals.
LEMMA DeviceKept ==
  ASSUME Types, NEW w \in Workers, Grows(w), applied'[w] = applied[w], refused'[w] = refused[w],
         unseen'[w] = unseen[w]
  PROVE  /\ \A i : InForce(w, i) => InForce(w, i)'
         /\ Together(w) => Together(w)'
BY DEF InForce, Disturbed, Together, Grows

\* An operation ends before any of its commands has been sent.
LEMMA OperationEnds ==
  ASSUME SessionInv, NEW w \in Workers, NEW r \in {"ok", "error"},
         pc[w] = "ops", op[w] <= Len(task[w].ops), r = "ok" => Current(w) \notin Configs,
         Returns(w) \/ Raises(w, TRUE) \/ Raises(w, FALSE), Conclude(w, r), Candidate(staged),
         UNCHANGED <<driver, task, status, abandoned, applied, refused, unseen, sendings, resent>>
  PROVE  Common(w) /\ Local(w)'
<1>1. /\ Types /\ resent = {} /\ \A v \in Workers : Candidates(v)
      /\ Placed(w) /\ Sending(w) /\ Candidates(w) /\ Running(w)
  BY DEF SessionInv
<1>2. op[w] \in Nat /\ op[w] \in 1..Len(task[w].ops) /\ pc[w] \notin Config
      /\ pc[w] \notin Staging \cup {"discard", "rescue"}
  <2>1. op[w] \in 1..(Len(task[w].ops) + 1)
    BY <1>1 DEF Placed
  <2>2. Len(task[w].ops) \in Nat
    BY <1>1, TaskFacts
  <2> QED
    BY <2>1, <2>2 DEF Config, Staging
<1>3. /\ session' \in [Workers -> {"open", "dead", "none"}]
      /\ faults' \in 0..MaxFaults /\ lost' \in SUBSET Workers /\ lost \subseteq lost'
      /\ \A v \in Workers \ {w} : session'[v] = session[v]
      /\ session'[w] = "dead" => w \in lost'
  BY <1>1, LineFacts DEF Placed
<1>4. /\ pc' \in [Workers -> Places] /\ op' \in [Workers -> Nat]
      /\ sent' \in [Workers -> 0..N] /\ attempt' = attempt
      /\ results' \in [Workers -> SUBSET (Nat \X {"ok", "error"})]
      /\ \A v \in Workers \ {w} : /\ pc'[v] = pc[v] /\ op'[v] = op[v]
                                  /\ sent'[v] = sent[v] /\ results'[v] = results[v]
  BY <1>1, <1>2, ConcludeFacts
<1>5. /\ staged' \in [Workers -> SUBSET Numbers] /\ staged'[w] \in {staged[w], {}}
      /\ \A v \in Workers \ {w} : staged'[v] = staged[v]
  BY <1>1, <1>3, CandidateKept
<1>6. Types'
  BY <1>1, <1>3, <1>4, <1>5 DEF Types
<1>7. Common(w)
  BY <1>1, <1>3, <1>4, <1>5, <1>6 DEF Common, Grows, Keeps
<1>8. Local(w)'
  <2>1. driver # Unsupported
    BY <1>1 DEF Placed
  <2>2. \A c \in sendings : c[1] = w => c[2] <= op[w]
    <3>1. \A c \in sendings : c[2] \in Nat
      BY <1>1 DEF Types
    <3> QED
      BY <1>1, <1>2, <3>1 DEF Sending
  <2>3. \A c \in refused[w] : c \in Commands(w) /\ c[1] <= op[w]
    <3>1. \A c \in refused[w] : c[1] \in Nat
      BY <1>1 DEF Types, Numbers
    <3> QED
      BY <1>1, <1>2, <3>1 DEF Sending
  <2>4. /\ staged'[w] \subseteq Commands(w)
        /\ driver.style # "commit" => staged'[w] = {}
    BY <1>1, <1>5 DEF Candidates
  <2>5. Private => staged'[w] = {}
    BY <1>1, <1>2, <1>5 DEF Candidates
  <2>6. staged'[w] # {} => w \in lost'
    BY <1>1, <1>2, <1>3, <1>5 DEF Candidates
  <2>7. \A c \in applied[w] : c \in Commands(w) /\ (Private => c[1] <= op[w])
    <3>1. \A c \in applied[w] : c[1] \in Nat
      BY <1>1 DEF Types, Numbers
    <3>2. applied[w] \subseteq Commands(w)
      BY <1>1 DEF Running
    <3>3. pc[w] \notin Config \ (Staging \cup {"discard"})
      BY <1>2
    <3>4. Private => \A c \in applied[w] : c[1] < op[w]
      BY <1>1, <3>3 DEF Running
    <3> QED
      BY <1>2, <3>1, <3>2, <3>4
  <2>8. (Private => Together(w)') /\ \A i : InForce(w, i) => InForce(w, i)'
    BY <1>1, <1>7, DeviceKept DEF Common, Running
  <2>9. Overlooked(w)'
    BY <1>7, OverlookedKept DEF Common
  <2> QED
    BY <1>2, <1>3, <1>6, <1>7, <2>1, <2>2, <2>3, <2>4, <2>5, <2>6, <2>7, <2>8, <2>9, Concluded
       DEF Common
<1> QED
  BY <1>7, <1>8

LEMMA ExecStep ==
  ASSUME SessionInv, NEW w \in Workers, Exec(w)
  PROVE  Common(w) /\ Local(w)'
<1>1. pc[w] = "ops" /\ op[w] <= Len(task[w].ops) /\ Current(w) \notin Configs
  BY DEF Exec, Ready, At, Configs
<1>2. PICK r \in {"ok", "error"} :
        (Returns(w) \/ Raises(w, TRUE) \/ Raises(w, FALSE)) /\ Conclude(w, r)
  BY DEF Exec
<1> QED
  BY <1>1, <1>2, OperationEnds DEF Exec

LEMMA TransferFileStep ==
  ASSUME SessionInv, NEW w \in Workers, TransferFile(w)
  PROVE  Common(w) /\ Local(w)'
<1>1. pc[w] = "ops" /\ op[w] <= Len(task[w].ops) /\ Current(w) \notin Configs
  BY DEF TransferFile, Ready, At, Configs
<1>2. PICK r \in {"ok", "error"} :
        (Returns(w) \/ Raises(w, TRUE) \/ Raises(w, FALSE)) /\ Conclude(w, r)
  BY DEF TransferFile
<1> QED
  BY <1>1, <1>2, OperationEnds DEF TransferFile

LEMMA PollStep ==
  ASSUME SessionInv, NEW w \in Workers, Poll(w)
  PROVE  Common(w) /\ Local(w)'
<1>1. /\ pc[w] = "ops" /\ op[w] <= Len(task[w].ops) /\ Current(w) \notin Configs
      /\ Current(w) = "wait" /\ pc[w] \notin Config
  BY DEF Poll, Ready, At, Configs, Config, Staging
<1>2. Returns(w) \/ Raises(w, TRUE) \/ Raises(w, FALSE)
  BY DEF Poll
<1>3. ASSUME NEW r \in {"ok", "error"}, Conclude(w, r)
      PROVE  Common(w) /\ Local(w)'
  BY <1>1, <1>2, <1>3, OperationEnds DEF Poll
<1>4. ASSUME sent[w] < N, sent' = [sent EXCEPT ![w] = @ + 1],
             UNCHANGED <<pc, attempt, op, results>>
      PROVE  Common(w) /\ Local(w)'
  <2>1. /\ Types /\ resent = {} /\ Placed(w) /\ \A v \in Workers : Candidates(v)
    BY DEF SessionInv
  <2>2. UNCHANGED <<driver, task, status, abandoned, applied, refused, unseen, sendings, resent>>
    BY DEF Poll
  <2>3. sent' \in [Workers -> 0..N] /\ \A v \in Workers \ {w} : sent'[v] = sent[v]
    BY <1>4, <2>1, SessionAssumption DEF Types
  <2>4. /\ session' \in [Workers -> {"open", "dead", "none"}]
        /\ faults' \in 0..MaxFaults /\ lost' \in SUBSET Workers /\ lost \subseteq lost'
        /\ \A v \in Workers \ {w} : session'[v] = session[v]
        /\ session'[w] = "dead" => w \in lost'
    BY <1>2, <2>1, LineFacts DEF Placed
  <2>5. /\ staged' \in [Workers -> SUBSET Numbers] /\ staged'[w] \in {staged[w], {}}
        /\ \A v \in Workers \ {w} : staged'[v] = staged[v]
    BY <2>1, <2>4, CandidateKept DEF Poll
  <2>6. Common(w)
    <3>1. Types'
      BY <1>4, <2>1, <2>2, <2>3, <2>4, <2>5 DEF Types
    <3> QED
      BY <1>4, <2>1, <2>2, <2>3, <2>4, <2>5, <3>1 DEF Common, Grows, Keeps
  <2>7. Placed(w)'
    <3>1. attempt[w] \in 1..Attempts(w) /\ abandoned[w] <= attempt[w] /\ Attempts(w) \in Nat
      BY <2>1, TaskFacts DEF Placed
    <3>2. attempt[w] <= Attempts(w) /\ attempt[w] # 0 /\ driver # Unsupported
      BY <1>1, <2>1, <3>1 DEF Placed
    <3> QED
      BY <1>1, <1>4, <2>1, <2>2, <2>4, <2>6, <3>1, <3>2, PlacedOutside DEF Common
  <2> QED
    BY <1>1, <1>4, <2>2, <2>5, <2>6, <2>7, Outside DEF Common
<1> QED
  BY <1>3, <1>4 DEF Poll


-----------------------------------------------------------------------------
(* run_config_commands                                                     *)

LEMMA MovesFacts ==
  ASSUME Types, NEW w \in Workers, NEW to \in Config, Moves(w, to)
  PROVE  /\ pc' \in [Workers -> Places] /\ pc'[w] = to
         /\ UNCHANGED <<attempt, op, sent, results>>
         /\ \A v \in Workers \ {w} : pc'[v] = pc[v]
<1>1. Config \subseteq Places
  BY DEF Config, Staging, Places
<1> QED
  BY <1>1 DEF Types, Moves, Goto

\* The facts every proof about a configuration operation starts from.
LEMMA InConfig ==
  ASSUME SessionInv, NEW w \in Workers, pc[w] \in Config
  PROVE  /\ Types /\ resent = {} /\ \A v \in Workers : Candidates(v)
         /\ Placed(w) /\ Sending(w) /\ Candidates(w) /\ Running(w)
         /\ op[w] \in Nat /\ sent[w] \in Nat /\ op[w] \in 1..Len(task[w].ops)
         /\ op[w] <= Len(task[w].ops) /\ DOMAIN task[w].ops = 1..Len(task[w].ops)
         /\ Current(w) \in Configs /\ driver # Unsupported
<1>1. /\ Types /\ resent = {} /\ \A v \in Workers : Candidates(v)
      /\ Placed(w) /\ Sending(w) /\ Candidates(w) /\ Running(w)
  BY DEF SessionInv
<1>2. op[w] <= Len(task[w].ops) /\ Current(w) \in Configs /\ op[w] \in 1..(Len(task[w].ops) + 1)
  BY <1>1 DEF Placed
<1>3. Len(task[w].ops) \in Nat /\ DOMAIN task[w].ops = 1..Len(task[w].ops)
  BY <1>1, TaskFacts
<1>4. op[w] \in Nat /\ sent[w] \in Nat
  BY <1>1, SessionAssumption DEF Types
<1>5. driver # Unsupported
  BY <1>1 DEF Placed, Config, Staging
<1> QED
  BY <1>1, <1>2, <1>3, <1>4, <1>5

\* From one place of a commit driver's method to the next.
LEMMA Moved ==
  ASSUME SessionInv, NEW w \in Workers, pc[w] \in Config, driver.style = "commit",
         NEW to \in Config \ {"stage"}, Moves(w, to), Grows(w),
         UNCHANGED <<abandoned, refused, unseen>>,
         \A c \in sendings' : c \in sendings \/ c[2] = op[w],
         to \in {"check", "commit", "discard", "exit_ok"} => sent[w] = N,
         to \in Staging \cup {"discard"} => session'[w] = "open" /\ pc[w] \in Staging,
         session'[w] = "dead" => w \in lost',
         \/ to \in {"check", "commit", "discard"}
         \/ to = "rescue" /\ session'[w] = "open"
         => \E c \in sendings' : c[1] = w,
         staged'[w] \subseteq Commands(w), Private /\ session'[w] # "open" => staged'[w] = {},
         to \in Staging => staged'[w] = staged[w],
         staged'[w] # {} => w \in lost' \/ to \in Staging \cup {"discard", "rescue"},
         applied'[w] \subseteq Commands(w), Private => Together(w)',
         Private => \A c \in applied'[w] : \/ c[1] < op[w]
                                           \/ c[1] = op[w] /\ to \notin Staging \cup {"discard"},
         to = "exit_ok" => \A i : i = op[w] => InForce(w, i)',
         \A i : InForce(w, i) => InForce(w, i)'
  PROVE  Local(w)'
<1>1. /\ Types /\ Placed(w) /\ Sending(w) /\ Candidates(w) /\ Running(w)
      /\ op[w] \in Nat /\ op[w] <= Len(task[w].ops) /\ Current(w) \in Configs
      /\ driver # Unsupported
  BY InConfig
<1>2. pc'[w] = to /\ UNCHANGED <<attempt, op, sent, results>>
  BY <1>1, MovesFacts
<1>3. driver' = driver /\ task' = task
  BY DEF Grows
<1>4. to \in Config /\ to \notin {"resolve", "connect", "enable", "ops", "returned", "stage"}
  BY DEF Config, Staging
<1>5. Placed(w)'
  <2>1. attempt[w] \in 1..Attempts(w) /\ abandoned[w] <= attempt[w]
        /\ op[w] \in 1..(Len(task[w].ops) + 1) /\ \A r \in results[w] : r[1] \in DOMAIN task[w].ops
    BY <1>1 DEF Placed
  <2> QED
    BY <1>1, <1>2, <1>3, <1>4, <2>1 DEF Placed, At, Current, Attempts
<1>6. Sending(w)'
  <2>1. \A c \in sendings' : c[1] = w => c[2] < op'[w] \/ (c[2] = op'[w] /\ pc'[w] \in Config)
    BY <1>1, <1>2, <1>4 DEF Sending
  <2>2. \A c \in refused'[w] :
          c \in Commands(w)' /\ (c[1] < op'[w] \/ (c[1] = op'[w] /\ pc'[w] \in Config /\ c[2] <= sent'[w]))
    <3>1. ASSUME NEW c \in refused[w]
          PROVE  c \in Commands(w) /\ (c[1] < op[w] \/ (c[1] = op[w] /\ c[2] <= sent[w]))
      BY <1>1 DEF Sending
    <3>2. Commands(w)' = Commands(w)
      BY <1>3 DEF Commands
    <3> QED
      BY <1>2, <1>4, <3>1, <3>2
  <2>3. Overlooked(w)'
    BY OverlookedKept
  <2> QED
    BY <1>2, <1>4, <2>1, <2>2, <2>3 DEF Sending, At
<1>7. Candidates(w)'
  <2>1. Accepted(w)' = Accepted(w) /\ Commands(w)' = Commands(w) /\ Private' = Private
    BY <1>2, <1>3 DEF Accepted, Commands, Private
  <2>2. to \in Staging => pc[w] \in Staging /\ staged'[w] = staged[w]
    OBVIOUS
  <2>3. ~Disturbed(w)' => ~Disturbed(w)
    BY <1>3 DEF Disturbed, Grows
  <2> QED
    BY <1>1, <1>2, <1>3, <1>4, <2>1, <2>2, <2>3 DEF Candidates
<1>8. Running(w)'
  <2>1. Private' = Private /\ Commands(w)' = Commands(w)
    BY <1>3 DEF Private, Commands
  <2>2. \A r \in results'[w] : r[2] = "ok" /\ task'[w].ops[r[1]] \in Configs => InForce(w, r[1])'
    BY <1>1, <1>2, <1>3 DEF Running
  <2>3. pc'[w] = "exit_ok" => InForce(w, op[w])'
    BY <1>2
  <2>4. Private => \A c \in applied'[w] :
          c[1] < op'[w] \/ (c[1] = op'[w] /\ pc'[w] \in Config \ (Staging \cup {"discard"}))
    <3>1. ASSUME Private, NEW c \in applied'[w]
          PROVE  c[1] < op[w] \/ (c[1] = op[w] /\ to \notin Staging \cup {"discard"})
      BY <3>1
    <3> QED
      BY <1>2, <1>4, <3>1
  <2> QED
    BY <1>2, <1>4, <2>1, <2>2, <2>3, <2>4 DEF Running, At
<1> QED
  BY <1>5, <1>6, <1>7, <1>8 DEF Local


LEMMA EnterConfigStep ==
  ASSUME SessionInv, NEW w \in Workers, EnterConfig(w)
  PROVE  Common(w) /\ Local(w)'
<1>1. /\ Types /\ resent = {} /\ \A v \in Workers : Candidates(v)
      /\ Placed(w) /\ Sending(w) /\ Candidates(w) /\ Running(w)
  BY DEF SessionInv
<1>2. pc[w] = "ops" /\ op[w] <= Len(task[w].ops) /\ Current(w) \in Configs
  BY DEF EnterConfig, Ready, At
<1>3. UNCHANGED <<driver, task, status, abandoned, applied, refused, unseen, sendings, resent>>
  BY DEF EnterConfig
<1>4. pc[w] \notin Config /\ pc[w] \notin Staging \cup {"discard", "rescue"} /\ "stage" \in Config
      /\ "stage" \in Staging /\ pc[w] \notin Config \ (Staging \cup {"discard"})
  BY <1>2 DEF Config, Staging
<1>5. sent[w] = 0 /\ op[w] \in Nat
  <2>1. sent[w] \in Nat /\ op[w] \in Nat
    BY <1>1, SessionAssumption DEF Types
  <2>2. ~(sent[w] > 0)
    BY <1>1, <1>2 DEF Placed, At, Configs
  <2> QED
    BY <2>1, <2>2
<1>6. ASSUME driver.style = "commit", Raises(w, TRUE) \/ Raises(w, FALSE), Conclude(w, "error")
      PROVE  Common(w) /\ Local(w)'
  BY <1>2, <1>3, <1>6, OperationEnds DEF EnterConfig
<1>7. ASSUME Moves(w, "stage"), driver.style = "commit" => session[w] = "open", UNCHANGED line
      PROVE  Common(w) /\ Local(w)'
  <2>1. /\ pc' \in [Workers -> Places] /\ pc'[w] = "stage"
        /\ UNCHANGED <<attempt, op, sent, results>>
        /\ \A v \in Workers \ {w} : pc'[v] = pc[v]
    BY <1>1, <1>4, <1>7, MovesFacts
  <2>2. session' = session /\ faults' = faults /\ lost' = lost
    BY <1>7 DEF line
  <2>3. /\ staged' \in [Workers -> SUBSET Numbers] /\ staged'[w] = staged[w]
        /\ \A v \in Workers \ {w} : staged'[v] = staged[v]
    <3>1. Private => session'[w] = "open"
      BY <1>7, <2>2 DEF Private
    <3> QED
      BY <1>1, <2>2, <3>1, CandidateKept DEF EnterConfig
  <2>4. Common(w)
    <3>1. Types'
      BY <1>1, <1>3, <2>1, <2>2, <2>3 DEF Types
    <3> QED
      BY <1>1, <1>3, <2>1, <2>2, <2>3, <3>1 DEF Common, Grows, Keeps
  <2>5. Placed(w)'
    <3>1. attempt[w] \in 1..Attempts(w) /\ abandoned[w] <= attempt[w] /\ driver # Unsupported
          /\ op[w] \in 1..(Len(task[w].ops) + 1) /\ \A r \in results[w] : r[1] \in DOMAIN task[w].ops
      BY <1>1, <1>2 DEF Placed
    <3>2. session[w] = "dead" => w \in lost
      BY <1>1 DEF Placed
    <3> QED
      BY <1>2, <1>3, <1>7, <2>1, <2>2, <3>1, <3>2 DEF Placed, At, Current, Attempts
  <2>6. Sending(w)'
    <3>1. \A c \in sendings : c[1] = w => c[2] < op[w]
      BY <1>1, <1>4 DEF Sending
    <3>2. \A c \in refused[w] : c \in Commands(w) /\ c[1] < op[w]
      BY <1>1, <1>4 DEF Sending
    <3>3. Overlooked(w)'
      BY <1>3, <2>4, OverlookedKept DEF Common
    <3> QED
      BY <1>3, <1>5, <2>1, <3>1, <3>2, <3>3 DEF Sending, At, Commands
  <2>7. Accepted(w)' = {}
    BY <1>5, <2>1 DEF Accepted
  <2>8. Candidates(w)'
    <3>1. Private => staged[w] = {}
      BY <1>1, <1>4 DEF Candidates
    <3> QED
      BY <1>1, <1>3, <1>4, <2>1, <2>3, <2>7, <3>1 DEF Candidates, Commands, Private
  <2>9. Running(w)'
    <3>1. (\A i : InForce(w, i) => InForce(w, i)') /\ (Together(w) => Together(w)')
      BY <1>1, <1>3, <2>4, DeviceKept DEF Common
    <3>2. Private => \A c \in applied[w] : c[1] < op[w]
      BY <1>1, <1>4 DEF Running
    <3>3. \A c \in refused[w] : c[1] < op[w]
      BY <1>1, <1>4 DEF Sending
    <3>4. {op'[w]} \X (1..sent'[w]) = {}
      BY <1>5, <2>1
    <3> QED
      BY <1>1, <1>3, <1>4, <2>1, <3>1, <3>2, <3>3, <3>4 DEF Running, At, Commands, Private
  <2> QED
    BY <2>4, <2>5, <2>6, <2>8, <2>9 DEF Local
<1> QED
  BY <1>6, <1>7 DEF EnterConfig, Returns

LEMMA SentStep ==
  ASSUME SessionInv, NEW w \in Workers, Sent(w)
  PROVE  Common(w) /\ Local(w)'
<1> USE DEF device, line
<1>1. pc[w] = "stage" /\ sent[w] = N /\ pc[w] \in Config /\ pc[w] \in Staging
  BY DEF Sent, AllSent, At, Config, Staging
<1>2. /\ Types /\ resent = {} /\ Placed(w) /\ Sending(w) /\ Candidates(w) /\ Running(w)
      /\ op[w] \in Nat /\ op[w] \in 1..Len(task[w].ops) /\ Current(w) \in Configs
      /\ driver # Unsupported /\ \A v \in Workers : Candidates(v)
  BY <1>1, InConfig
<1>3. UNCHANGED <<driver, task, status, abandoned, device, line>>
  BY DEF Sent
<1>4. CASE driver.style = "commit"
  <2>1. PICK to \in {"check", "commit"} : Moves(w, to)
    BY <1>4 DEF Sent
  <2>2. to \in Config \ {"stage"} /\ to \in Staging /\ to \in Config
    BY DEF Config, Staging
  <2>3. /\ pc' \in [Workers -> Places] /\ pc'[w] = to
        /\ UNCHANGED <<attempt, op, sent, results>>
        /\ \A v \in Workers \ {w} : pc'[v] = pc[v]
    BY <1>2, <2>1, <2>2, MovesFacts
  <2>4. Common(w)
    <3>1. Types'
      BY <1>2, <1>3, <2>3 DEF Types
    <3> QED
      BY <1>2, <1>3, <2>3, <3>1 DEF Common, Grows, Keeps
  <2>5. session[w] = "open"
    BY <1>1, <1>2, <1>4 DEF Placed
  <2>6. \E c \in sendings : c[1] = w
    <3>1. sent[w] > 0
      BY <1>1, SessionAssumption
    <3> QED
      BY <1>1, <1>2, <3>1 DEF Sending, At
  <2>7. staged[w] \subseteq Commands(w) /\ applied[w] \subseteq Commands(w)
    BY <1>2 DEF Candidates, Running
  <2>8. (\A i : InForce(w, i) => InForce(w, i)') /\ (Private => Together(w)')
    BY <1>2, <1>3, <2>4, DeviceKept DEF Common, Running
  <2>9. Private => \A c \in applied[w] : c[1] < op[w]
    BY <1>1, <1>2 DEF Running
  <2> QED
    BY <1>1, <1>3, <1>4, <2>1, <2>2, <2>4, <2>5, <2>6, <2>7, <2>8, <2>9, Moved DEF Common
<1>5. CASE driver.style # "commit"
  <2>1. PICK r \in {"ok", "error"} : Conclude(w, r) /\ (r = "ok" => ~Noticed(w))
    BY <1>5 DEF Sent, ReadOutput
  <2>2. r = "ok" => ~Noticed(w)
    BY <2>1
  <2>3. /\ pc' \in [Workers -> Places] /\ op' \in [Workers -> Nat]
        /\ sent' \in [Workers -> 0..N] /\ attempt' = attempt
        /\ results' \in [Workers -> SUBSET (Nat \X {"ok", "error"})]
        /\ \A v \in Workers \ {w} : /\ pc'[v] = pc[v] /\ op'[v] = op[v]
                                    /\ sent'[v] = sent[v] /\ results'[v] = results[v]
    BY <1>2, <2>1, ConcludeFacts
  <2>4. Types'
    BY <1>2, <1>3, <2>3 DEF Types
  <2>5. Common(w)
    BY <1>2, <1>3, <2>3, <2>4 DEF Common, Grows, Keeps
  <2>6. ~Private /\ ~Private'
    BY <1>3, <1>5 DEF Private
  <2>7. session[w] = "dead" => w \in lost
    BY <1>2 DEF Placed
  <2>8. \A c \in sendings : c[1] = w => c[2] <= op[w]
    <3>1. \A c \in sendings : c[2] \in Nat
      BY <1>2 DEF Types
    <3> QED
      BY <1>2, <3>1 DEF Sending
  <2>9. \A c \in refused[w] : c \in Commands(w) /\ c[1] <= op[w]
    <3>1. \A c \in refused[w] : c[1] \in Nat
      BY <1>2 DEF Types, Numbers
    <3> QED
      BY <1>2, <3>1 DEF Sending
  <2>10. staged[w] = {} /\ applied[w] \subseteq Commands(w)
    BY <1>2, <1>5 DEF Candidates, Running
  <2>11. \A i : InForce(w, i) => InForce(w, i)'
    BY <1>2, <1>3, <2>5, DeviceKept DEF Common
  <2>12. r = "ok" => InForce(w, op[w])
    <3>1. {op[w]} \X (1..N) \subseteq applied[w] \cup refused[w]
      BY <1>1, <1>2, <1>5 DEF Running, At
    <3>0. driver.exact => driver.style = "each" /\ unseen[w] = {}
      BY <1>2, SessionAssumption DEF Types, DriverClasses, Sending, Overlooked
    <3>2. CASE driver.style = "each"
      <4>1. \A c \in refused[w] \ unseen[w] : c[1] < op[w]
        BY <1>1, <1>2, <3>2 DEF Running, At
      <4>2. \A c \in {op[w]} \X (1..N) : c[1] = op[w]
        OBVIOUS
      <4>3. {op[w]} \X (1..N) \subseteq applied[w] \cup unseen[w]
        BY <1>2, <3>1, <4>1, <4>2
      <4> QED
        BY <3>0, <4>3 DEF InForce, Whole
    <3>3. CASE driver.style = "set"
      <4>1. r = "ok" => \A c \in 1..N : <<op[w], c>> \notin refused[w] \ unseen[w]
        BY <2>2, <3>3 DEF Noticed
      <4>2. r = "ok" => {op[w]} \X (1..N) \subseteq applied[w] \cup unseen[w]
        BY <3>1, <4>1
      <4> QED
        BY <3>0, <3>3, <4>2 DEF InForce, Whole
    <3>4. driver \in DriverClasses
      BY <1>2, SessionAssumption DEF Types
    <3>5. driver.style \in {"set", "each", "commit"}
      BY <3>4 DEF DriverClasses
    <3> QED
      BY <1>5, <3>2, <3>3, <3>5
  <2>13. r = "ok" => \A i : i = op[w] => InForce(w, i)'
    BY <2>11, <2>12
  <2>14. pc[w] \notin {"resolve", "connect", "enable"} /\ Overlooked(w)'
    BY <1>1, <1>3, <2>5, OverlookedKept DEF Common
  <2>15. Local(w)'
    BY <1>2, <1>3, <1>5, <2>1, <2>4, <2>5, <2>6, <2>7, <2>8, <2>9, <2>10, <2>11, <2>13, <2>14,
       Concluded DEF Common
  <2> QED
    BY <2>5, <2>15
<1> QED
  BY <1>4, <1>5


\* A step that changes nothing on the device but for what the session takes
\* with it: on to the next place, or to the except clause.
LEMMA MovedOn ==
  ASSUME SessionInv, NEW w \in Workers, pc[w] \in Config, driver.style = "commit",
         NEW to \in Config \ {"stage", "exit_ok"}, Moves(w, to),
         Returns(w) \/ Raises(w, TRUE) \/ Raises(w, FALSE), Candidate(staged),
         UNCHANGED <<driver, task, status, abandoned, applied, refused, unseen, sendings, resent>>,
         to \in {"check", "commit", "discard"} => Returns(w) /\ pc[w] \in {"check", "commit"},
         to = "rescue" => pc[w] \in {"check", "commit", "discard"} \/ Raises(w, FALSE),
         to = "exit_error" => Raises(w, FALSE)
  PROVE  Common(w) /\ Local(w)'
<1>1. /\ Types /\ resent = {} /\ Placed(w) /\ Sending(w) /\ Candidates(w) /\ Running(w)
      /\ \A v \in Workers : Candidates(v)
  BY InConfig
<1>2. /\ pc' \in [Workers -> Places] /\ pc'[w] = to
      /\ UNCHANGED <<attempt, op, sent, results>>
      /\ \A v \in Workers \ {w} : pc'[v] = pc[v]
  BY <1>1, MovesFacts
<1>3. /\ session' \in [Workers -> {"open", "dead", "none"}]
      /\ faults' \in 0..MaxFaults /\ lost' \in SUBSET Workers /\ lost \subseteq lost'
      /\ \A v \in Workers \ {w} : session'[v] = session[v]
      /\ session'[w] = "dead" => w \in lost'
  BY <1>1, LineFacts DEF Placed
<1>4. /\ staged' \in [Workers -> SUBSET Numbers] /\ staged'[w] \in {staged[w], {}}
      /\ staged'[w] = IF Private /\ session'[w] # "open" THEN {} ELSE staged[w]
      /\ \A v \in Workers \ {w} : staged'[v] = staged[v]
  BY <1>1, <1>3, CandidateKept
<1>5. Common(w)
  <2>1. Types'
    BY <1>1, <1>2, <1>3, <1>4 DEF Types
  <2> QED
    BY <1>1, <1>2, <1>3, <1>4, <2>1 DEF Common, Grows, Keeps
<1>6. Raises(w, FALSE) => session'[w] = "dead"
  BY <1>1 DEF Raises, Drops, Session, line, Types
<1>7. to \in {"check", "commit", "discard"} => session'[w] = "open" /\ pc[w] \in Staging /\ sent[w] = N
  BY <1>1 DEF Returns, line, Placed, Staging
<1>8. to \in {"check", "commit", "discard", "rescue", "exit_error"}
  BY DEF Config, Staging
<1>9. to \in {"check", "commit", "discard"} \/ (to = "rescue" /\ session'[w] = "open")
        => \E c \in sendings : c[1] = w
  <2>1. pc[w] \in {"check", "commit", "discard"} => \E c \in sendings : c[1] = w
    BY <1>1 DEF Sending
  <2> QED
    BY <1>6, <2>1
<1>10. to \in Staging => to \in {"check", "commit"}
  BY DEF Staging
<1>11. to \in Staging => staged'[w] = staged[w]
  BY <1>4, <1>7, <1>10
<1>12. /\ staged'[w] \subseteq Commands(w) /\ applied[w] \subseteq Commands(w)
  BY <1>1, <1>4 DEF Candidates, Running
<1>13. staged'[w] # {} => w \in lost' \/ to \in Staging \cup {"discard", "rescue"}
  BY <1>3, <1>6, <1>8 DEF Staging
<1>14. (\A i : InForce(w, i) => InForce(w, i)') /\ (Private => Together(w)')
  BY <1>1, <1>5, DeviceKept DEF Common, Running
<1>15. ASSUME Private, NEW c \in applied[w]
       PROVE  c[1] < op[w] \/ (c[1] = op[w] /\ to \notin Staging \cup {"discard"})
  <2>1. c[1] < op[w] \/ (c[1] = op[w] /\ pc[w] \in Config \ (Staging \cup {"discard"}))
    BY <1>1, <1>15 DEF Running
  <2>2. pc[w] \notin Staging \cup {"discard"} => to \notin Staging \cup {"discard"}
    BY <1>7, <1>10
  <2> QED
    BY <2>1, <2>2
<1>16. Local(w)'
  <2>1. to \in Staging \cup {"discard"} => session'[w] = "open" /\ pc[w] \in Staging
    BY <1>7, <1>10
  <2>2. to \in {"check", "commit", "discard", "exit_ok"} => sent[w] = N
    BY <1>7
  <2>3. Grows(w)
    BY <1>5 DEF Common
  <2>4. Private /\ session'[w] # "open" => staged'[w] = {}
    BY <1>4
  <2> QED
    BY <1>3, <1>9, <1>11, <1>12, <1>13, <1>14, <1>15, <2>1, <2>2, <2>3, <2>4, Moved
<1> QED
  BY <1>5, <1>16

LEMMA CheckStep ==
  ASSUME SessionInv, NEW w \in Workers, Check(w)
  PROVE  Common(w) /\ Local(w)'
<1>1. pc[w] = "check" /\ pc[w] \in Config \ {"stage"} /\ pc[w] \in Config
  BY DEF Check, At, Config, Staging
<1>2. driver.style = "commit"
  BY <1>1, InConfig DEF Placed
<1>3. PICK to \in {"commit", "discard", "rescue"} :
        /\ Moves(w, to)
        /\ Returns(w) \/ Raises(w, TRUE) \/ Raises(w, FALSE)
        /\ to # "rescue" => Returns(w)
  BY DEF Check
<1>4. to \in Config \ {"stage", "exit_ok"}
  BY DEF Config, Staging
<1> QED
  BY <1>1, <1>2, <1>3, <1>4, MovedOn DEF Check


\* Whoever has come this far has sent commands.
LEMMA HasSent ==
  ASSUME SessionInv, NEW w \in Workers, session[w] = "open",
         pc[w] \in {"check", "commit", "discard", "rescue"}
  PROVE  \E c \in sendings : c[1] = w
BY DEF SessionInv, Sending, At

\* A commit or a rollback empties the candidate, a shared one for everybody.
LEMMA EmptiedKept ==
  ASSUME Types, NEW w \in Workers, \A v \in Workers : Candidates(v), Candidate(Emptied(w)),
         \A v \in Workers \ {w} : session'[v] = session[v]
  PROVE  /\ staged' \in [Workers -> SUBSET Numbers] /\ staged'[w] = {}
         /\ \A v \in Workers \ {w} : IF driver.shared THEN staged'[v] = {} ELSE staged'[v] = staged[v]
<1>1. staged' = [v \in Workers |-> IF Private /\ session'[v] # "open" THEN {} ELSE Emptied(w)[v]]
  BY DEF Candidate
<1>2. \A v \in Workers : Emptied(w)[v] = IF driver.shared \/ v = w THEN {} ELSE staged[v]
  BY DEF Emptied, Reach
<1>3. \A v \in Workers : Emptied(w)[v] \in SUBSET Numbers
  BY <1>2 DEF Types
<1>4. \A v \in Workers : Private /\ session[v] # "open" => staged[v] = {}
  BY DEF Candidates
<1> QED
  BY <1>1, <1>2, <1>3, <1>4

\* A rollback, in the method or in its except clause.
LEMMA RolledBackOn ==
  ASSUME SessionInv, NEW w \in Workers, pc[w] \in {"discard", "rescue"},
         NEW to \in {"exit_error", "rescue"}, to = "rescue" => pc[w] = "discard", Moves(w, to),
         Returns(w) \/ Raises(w, TRUE), Candidate(Emptied(w)),
         UNCHANGED <<driver, task, status, abandoned, applied, refused, unseen, sendings, resent>>
  PROVE  Common(w) /\ Local(w)'
<1>1. pc[w] \in Config /\ to \in Config /\ to \in Config \ {"stage"}
      /\ to \notin {"check", "commit", "discard", "exit_ok"} /\ to \notin Staging \cup {"discard"}
  BY DEF Config, Staging
<1>2. /\ Types /\ resent = {} /\ Placed(w) /\ Sending(w) /\ Candidates(w) /\ Running(w)
      /\ \A v \in Workers : Candidates(v)
  BY <1>1, InConfig
<1>3. /\ pc' \in [Workers -> Places] /\ pc'[w] = to
      /\ UNCHANGED <<attempt, op, sent, results>>
      /\ \A v \in Workers \ {w} : pc'[v] = pc[v]
  BY <1>1, <1>2, MovesFacts
<1>4. /\ session' \in [Workers -> {"open", "dead", "none"}]
      /\ faults' \in 0..MaxFaults /\ lost' \in SUBSET Workers /\ lost \subseteq lost'
      /\ \A v \in Workers \ {w} : session'[v] = session[v]
      /\ session'[w] = "dead" => w \in lost'
  BY <1>2, LineFacts DEF Placed
<1>5. /\ staged' \in [Workers -> SUBSET Numbers] /\ staged'[w] = {}
      /\ \A v \in Workers \ {w} : IF driver.shared THEN staged'[v] = {} ELSE staged'[v] = staged[v]
  BY <1>2, <1>4, EmptiedKept
<1>6. \E c \in sendings : c[1] = w
  BY HasSent DEF Returns, Raises, Drops, Late
<1>7. Common(w)
  <2>1. Types'
    BY <1>2, <1>3, <1>4, <1>5 DEF Types
  <2> QED
    BY <1>2, <1>3, <1>4, <1>5, <1>6, <2>1 DEF Common, Grows, Keeps
<1>8. driver.style = "commit" /\ applied[w] \subseteq Commands(w)
  BY <1>2 DEF Placed, Running, Config, Staging
<1>9. (\A i : InForce(w, i) => InForce(w, i)') /\ (Private => Together(w)')
  BY <1>2, <1>7, DeviceKept DEF Common, Running
<1>10. Private => \A c \in applied[w] : c[1] < op[w] \/ c[1] = op[w]
  BY <1>2 DEF Running
<1>11. Local(w)'
  BY <1>1, <1>3, <1>4, <1>5, <1>6, <1>7, <1>8, <1>9, <1>10, Moved DEF Common
<1> QED
  BY <1>7, <1>11

LEMMA AbandonStep ==
  ASSUME SessionInv, NEW w \in Workers, Abandon(w)
  PROVE  Common(w) /\ Local(w)'
<1>1. pc[w] \in {"discard", "rescue"} /\ pc[w] \in Config
  BY DEF Abandon, At, Config, Staging
<1>2. UNCHANGED <<driver, task, status, abandoned, applied, refused, unseen, sendings, resent>>
  BY DEF Abandon
<1>3. driver.style = "commit"
  BY <1>1, InConfig DEF Placed, Config, Staging
<1>4. PICK to \in {"exit_error", "rescue"} :
        /\ Moves(w, to)
        /\ to = "rescue" => pc[w] = "discard"
        /\ \/ (Returns(w) \/ Raises(w, TRUE)) /\ Candidate(Emptied(w))
           \/ Raises(w, FALSE) /\ Candidate(staged)
  BY DEF Abandon, At
<1>5. to \in Config \ {"stage", "exit_ok"}
  BY DEF Config, Staging
<1>6. CASE (Returns(w) \/ Raises(w, TRUE)) /\ Candidate(Emptied(w))
  BY <1>1, <1>2, <1>4, <1>6, RolledBackOn
<1>7. CASE Raises(w, FALSE) /\ Candidate(staged)
  BY <1>1, <1>2, <1>3, <1>4, <1>5, <1>7, MovedOn
<1> QED
  BY <1>4, <1>6, <1>7


\* All of the operation's commands are put in force at once.
LEMMA CommittedOn ==
  ASSUME SessionInv, NEW w \in Workers, pc[w] = "commit",
         NEW to \in {"exit_ok", "rescue"}, Moves(w, to),
         Returns(w) \/ Raises(w, TRUE), Committed(w),
         UNCHANGED <<driver, task, status, abandoned, refused, unseen, sendings, resent>>
  PROVE  Common(w) /\ Local(w)'
<1>1. /\ pc[w] \in Config /\ pc[w] \in Staging /\ to \in Config /\ to \in Config \ {"stage"}
      /\ to \notin {"check", "commit", "discard"} /\ to \notin Staging \cup {"discard"}
      /\ to \notin Staging
  BY DEF Config, Staging
<1>2. /\ Types /\ resent = {} /\ Placed(w) /\ Sending(w) /\ Candidates(w) /\ Running(w)
      /\ (\A v \in Workers : Candidates(v)) /\ op[w] \in Nat
      /\ op[w] \in DOMAIN task[w].ops
  BY <1>1, InConfig
<1>3. /\ pc' \in [Workers -> Places] /\ pc'[w] = to
      /\ UNCHANGED <<attempt, op, sent, results>>
      /\ \A v \in Workers \ {w} : pc'[v] = pc[v]
  BY <1>1, <1>2, MovesFacts
<1>4. /\ session' \in [Workers -> {"open", "dead", "none"}]
      /\ faults' \in 0..MaxFaults /\ lost' \in SUBSET Workers /\ lost \subseteq lost'
      /\ \A v \in Workers \ {w} : session'[v] = session[v]
      /\ session'[w] = "dead" => w \in lost'
  BY <1>2, LineFacts DEF Placed
<1>5. /\ staged' \in [Workers -> SUBSET Numbers] /\ staged'[w] = {}
      /\ \A v \in Workers \ {w} : IF driver.shared THEN staged'[v] = {} ELSE staged'[v] = staged[v]
  BY <1>2, <1>4, EmptiedKept DEF Committed
<1>6. /\ applied' \in [Workers -> SUBSET Numbers] /\ applied'[w] = applied[w] \cup staged[w]
      /\ \A v \in Workers \ {w} :
           applied'[v] = IF driver.shared THEN applied[v] \cup staged[v] ELSE applied[v]
  BY <1>2 DEF Types, Committed, Reach
<1>7. (\E c \in sendings : c[1] = w) /\ sent[w] = N /\ driver.style = "commit"
  <2>1. \E c \in sendings : c[1] = w
    BY <1>2 DEF Sending
  <2> QED
    BY <1>1, <1>2, <2>1 DEF Placed
<1>8. Common(w)
  <2>1. Types'
    BY <1>2, <1>3, <1>4, <1>5, <1>6 DEF Types
  <2> QED
    BY <1>2, <1>3, <1>4, <1>5, <1>6, <1>7, <2>1 DEF Common, Grows, Keeps
<1>9. driver' = driver /\ task' = task /\ refused' = refused /\ unseen' = unseen
  BY DEF Grows
<1>10. /\ applied[w] \subseteq Commands(w) /\ applied'[w] \subseteq Commands(w)
       /\ \A c \in staged[w] : Private => c \in Accepted(w)
       /\ ~Disturbed(w) => Accepted(w) \subseteq staged[w]
  BY <1>1, <1>2, <1>6, <1>7 DEF Candidates, Running
<1>11. Accepted(w) = Whole(op[w]) \ refused[w]
  BY <1>7 DEF Accepted, Whole
<1>12. \A i : InForce(w, i) => InForce(w, i)'
  BY <1>6, <1>9 DEF InForce, Disturbed
<1>13. \A i : i = op[w] => InForce(w, i)'
  <2>1. ~Disturbed(w)' => Whole(op[w]) \ applied'[w] \subseteq refused[w]
    BY <1>6, <1>10, <1>11, <1>9 DEF Disturbed
  <2>2. refused[w] = (IF driver.exact THEN {} ELSE unseen[w])
    BY <1>2, <1>7 DEF Sending, Overlooked
  <2> QED
    BY <1>7, <1>9, <2>1, <2>2 DEF InForce, Whole
<1>14. Private => \A c \in applied[w] : c[1] < op[w] /\ c[1] # op[w]
  <2>1. \A c \in applied[w] : c[1] \in Nat
    <3>1. applied[w] \in SUBSET Numbers
      BY <1>2 DEF Types
    <3> QED
      BY <3>1 DEF Numbers
  <2>2. Private => \A c \in applied[w] : c[1] < op[w]
    BY <1>1, <1>2 DEF Running
  <2>3. op[w] \in Nat
    BY <1>2
  <2>4. \A a, b \in Nat : a < b => a # b
    OBVIOUS
  <2> QED
    BY <2>1, <2>2, <2>3, <2>4
<1>15. Private => \A c \in staged[w] : c[1] = op[w]
  BY <1>10 DEF Accepted
<1>16. ASSUME Private
       PROVE  Together(w)'
  <2>1. staged[w] = Whole(op[w]) \ refused[w]
    BY <1>10, <1>11, <1>16 DEF Private, Disturbed
  <2>2. Together(w)
    BY <1>2, <1>16 DEF Running
  <2>3. ASSUME NEW i \in DOMAIN task[w].ops
        PROVE  OfOp(applied'[w], i) \in {{}, Whole(i) \ refused[w]}
    <3>2. CASE i = op[w]
      <4>1. OfOp(applied'[w], i) = staged[w]
        BY <1>6, <1>14, <1>15, <1>16, <3>2 DEF OfOp
      <4> QED
        BY <2>1, <3>2, <4>1
    <3>3. CASE i # op[w]
      <4>1. OfOp(applied'[w], i) = OfOp(applied[w], i)
        BY <1>6, <1>15, <1>16, <3>3 DEF OfOp
      <4> QED
        BY <2>2, <4>1 DEF Together
    <3> QED
      BY <3>2, <3>3
  <2> QED
    BY <1>9, <2>3 DEF Together, OfOp, Whole
<1>17. ASSUME Private, NEW c \in applied'[w]
       PROVE  c[1] < op[w] \/ (c[1] = op[w] /\ to \notin Staging \cup {"discard"})
  BY <1>1, <1>6, <1>14, <1>15, <1>17
<1>18. Local(w)'
  <2>1. Grows(w)
    BY <1>8 DEF Common
  <2> QED
    BY <1>1, <1>3, <1>4, <1>5, <1>7, <1>10, <1>12, <1>13, <1>16, <1>17, <2>1, Moved
<1> QED
  BY <1>8, <1>18

LEMMA CommitStep ==
  ASSUME SessionInv, NEW w \in Workers, Commit(w)
  PROVE  Common(w) /\ Local(w)'
<1>1. pc[w] = "commit" /\ pc[w] \in Config /\ pc[w] \in Staging
  BY DEF Commit, At, Config, Staging
<1>2. UNCHANGED <<driver, task, status, abandoned, refused, unseen, sendings, resent>>
  BY DEF Commit
<1>3. driver.style = "commit" /\ session[w] = "open" /\ Types /\ \A v \in Workers : Candidates(v)
  <2>1. pc[w] \in Staging \cup {"discard"} /\ pc[w] \in Config \ {"stage"}
    BY <1>1
  <2> QED
    BY <1>1, <2>1, InConfig DEF Placed
<1>4. CASE Returns(w) /\ Committed(w) /\ Moves(w, "exit_ok")
  BY <1>1, <1>2, <1>4, CommittedOn
<1>5. CASE Raises(w, TRUE) /\ Committed(w) /\ Moves(w, "rescue")
  BY <1>1, <1>2, <1>5, CommittedOn
<1>6. CASE Raises(w, FALSE) /\ Candidate(staged) /\ Moves(w, "rescue") /\ UNCHANGED applied
  <2>1. "rescue" \in Config \ {"stage", "exit_ok"}
    BY DEF Config
  <2> QED
    BY <1>1, <1>2, <1>3, <1>6, <2>1, MovedOn
<1>7. CASE Returns(w) /\ Moves(w, "discard") /\ UNCHANGED <<applied, staged>>
  <2>1. "discard" \in Config \ {"stage", "exit_ok"}
    BY DEF Config
  <2>2. Candidate(staged)
    <3>1. \A v \in Workers : ~(Private /\ session'[v] # "open" /\ staged[v] # {})
      BY <1>3, <1>7 DEF Returns, line, Candidates
    <3>2. staged = [v \in Workers |-> staged[v]]
      BY <1>3 DEF Types
    <3> QED
      BY <1>7, <3>1, <3>2 DEF Candidate
  <2> QED
    BY <1>1, <1>2, <1>3, <1>7, <2>1, <2>2, MovedOn
<1> QED
  BY <1>4, <1>5, <1>6, <1>7 DEF Commit


LEMMA ExitConfigStep ==
  ASSUME SessionInv, NEW w \in Workers, ExitConfig(w)
  PROVE  Common(w) /\ Local(w)'
<1>1. PICK r \in {"ok", "error"} : Conclude(w, r) /\ pc[w] \in {"exit_ok", "exit_error"}
        /\ (r = "ok" => pc[w] = "exit_ok")
  BY DEF ExitConfig, At
<1>2. pc[w] \in Config /\ pc[w] \notin Staging \cup {"discard", "rescue"}
      /\ pc[w] \notin {"resolve", "connect", "enable"}
  BY <1>1 DEF Config, Staging
<1>3. /\ Types /\ resent = {} /\ Placed(w) /\ Sending(w) /\ Candidates(w) /\ Running(w)
      /\ (\A v \in Workers : Candidates(v)) /\ op[w] \in Nat
      /\ op[w] \in 1..Len(task[w].ops) /\ driver # Unsupported
  BY <1>2, InConfig
<1>4. UNCHANGED <<driver, task, status, abandoned, applied, refused, unseen, sendings, resent>>
  BY DEF ExitConfig
<1>5. /\ session' \in [Workers -> {"open", "dead", "none"}]
      /\ faults' \in 0..MaxFaults /\ lost' \in SUBSET Workers /\ lost \subseteq lost'
      /\ \A v \in Workers \ {w} : session'[v] = session[v]
      /\ session'[w] = "dead" => w \in lost'
  BY <1>3, LineFacts DEF ExitConfig, Placed
<1>6. /\ staged' \in [Workers -> SUBSET Numbers]
      /\ staged'[w] \in {staged[w], {}}
      /\ Private => staged'[w] = {}
      /\ \A v \in Workers \ {w} : staged'[v] = staged[v]
  <2>1. CASE Candidate(staged) /\ (Private => session'[w] # "open")
    BY <1>3, <1>5, <2>1, CandidateKept
  <2>2. CASE Private /\ Candidate([staged EXCEPT ![w] = {}])
    <3>1. staged' = [v \in Workers |-> IF Private /\ session'[v] # "open" THEN {}
                                       ELSE [staged EXCEPT ![w] = {}][v]]
      BY <2>2 DEF Candidate
    <3>2. [staged EXCEPT ![w] = {}] \in [Workers -> SUBSET Numbers]
      BY <1>3 DEF Types
    <3>3. \A v \in Workers : session[v] # "open" => staged[v] = {}
      BY <1>3, <2>2 DEF Candidates
    <3>4. [staged EXCEPT ![w] = {}][w] = {}
          /\ \A v \in Workers \ {w} : [staged EXCEPT ![w] = {}][v] = staged[v]
      BY <1>3 DEF Types
    <3>5. \A v \in Workers : staged'[v] = IF Private /\ session'[v] # "open" THEN {}
                                          ELSE [staged EXCEPT ![w] = {}][v]
      BY <3>1
    <3>6. staged' \in [Workers -> SUBSET Numbers]
      <4>1. \A v \in Workers : [staged EXCEPT ![w] = {}][v] \in SUBSET Numbers
        BY <3>2
      <4> QED
        BY <3>1, <4>1
    <3>7. staged'[w] = {}
      BY <3>4, <3>5
    <3>8. \A v \in Workers \ {w} : staged'[v] = staged[v]
      BY <1>5, <3>3, <3>4, <3>5
    <3> QED
      BY <3>6, <3>7, <3>8
  <2>3. Raises(w, FALSE) => session'[w] = "dead"
    BY <1>3 DEF Raises, Drops, Session, line, Types
  <2>4. Candidate(IF Private THEN [staged EXCEPT ![w] = {}] ELSE staged)
        \/ (Raises(w, FALSE) /\ Candidate(staged))
    BY DEF ExitConfig
  <2>5. CASE Private
    <3>1. Candidate([staged EXCEPT ![w] = {}]) \/ (Raises(w, FALSE) /\ Candidate(staged))
      BY <2>4, <2>5 DEF Candidate
    <3> QED
      BY <2>1, <2>2, <2>3, <2>5, <3>1
  <2>6. CASE ~Private
    <3>1. Candidate(staged)
      BY <2>4, <2>6 DEF Candidate
    <3> QED
      BY <2>1, <2>6, <3>1
  <2> QED
    BY <2>5, <2>6
<1>7. /\ pc' \in [Workers -> Places] /\ op' \in [Workers -> Nat]
      /\ sent' \in [Workers -> 0..N] /\ attempt' = attempt
      /\ results' \in [Workers -> SUBSET (Nat \X {"ok", "error"})]
      /\ \A v \in Workers \ {w} : /\ pc'[v] = pc[v] /\ op'[v] = op[v]
                                  /\ sent'[v] = sent[v] /\ results'[v] = results[v]
  BY <1>1, <1>3, ConcludeFacts
<1>8. Types'
  BY <1>3, <1>4, <1>5, <1>6, <1>7 DEF Types
<1>9. Common(w)
  BY <1>3, <1>4, <1>5, <1>6, <1>7, <1>8 DEF Common, Grows, Keeps
<1>10. \A c \in sendings : c[1] = w => c[2] <= op[w]
  <2>1. \A c \in sendings : c[2] \in Nat
    BY <1>3 DEF Types
  <2> QED
    BY <1>3, <2>1 DEF Sending
<1>11. \A c \in refused[w] : c \in Commands(w) /\ c[1] <= op[w]
  <2>1. \A c \in refused[w] : c[1] \in Nat
    BY <1>3 DEF Types, Numbers
  <2> QED
    BY <1>3, <2>1 DEF Sending
<1>12. /\ staged'[w] \subseteq Commands(w)
       /\ driver.style # "commit" => staged'[w] = {}
       /\ staged'[w] # {} => w \in lost'
  BY <1>2, <1>3, <1>5, <1>6 DEF Candidates
<1>13. applied[w] \subseteq Commands(w) /\ (Private => \A c \in applied[w] : c[1] <= op[w])
  <2>1. \A c \in applied[w] : c[1] \in Nat
    BY <1>3 DEF Types, Numbers
  <2> QED
    BY <1>3, <2>1 DEF Running
<1>14. (\A i : InForce(w, i) => InForce(w, i)') /\ (Private => Together(w)')
  BY <1>3, <1>4, <1>9, DeviceKept DEF Common, Running
<1>15. r = "ok" => \A i : i = op[w] => InForce(w, i)'
  BY <1>1, <1>3, <1>14 DEF Running, At
<1>16. Overlooked(w)'
  BY <1>4, <1>9, OverlookedKept DEF Common
<1>17. Local(w)'
  BY <1>1, <1>2, <1>3, <1>4, <1>5, <1>6, <1>8, <1>9, <1>10, <1>11, <1>12, <1>13, <1>14, <1>15,
     <1>16, Concluded DEF Common
<1> QED
  BY <1>9, <1>17


\* A command reaches the device for the first time: its operation is the one
\* being sent, and of that only the commands before it were sent.
LEMMA FirstArrival ==
  ASSUME SessionInv, NEW w \in Workers, pc[w] = "stage", sent[w] < N, Arrives(w)
  PROVE  /\ sendings' = sendings \cup {<<w, op[w], sent[w] + 1>>}
         /\ sendings' \in SUBSET (Workers \X Nat \X Nat) /\ resent' = {}
         /\ \A c \in sendings' : c \in sendings \/ (c[1] = w /\ c[2] = op[w] /\ c[3] <= sent[w] + 1)
         /\ \E c \in sendings' : c[1] = w
<1>1. pc[w] \in Config
  BY DEF Config, Staging
<1>2. Types /\ resent = {} /\ Sending(w) /\ op[w] \in Nat /\ sent[w] \in Nat
  BY <1>1, InConfig
<1> DEFINE new == <<w, op[w], sent[w] + 1>>
<1>3. new \in Workers \X Nat \X Nat /\ new[1] = w /\ new[2] = op[w] /\ new[3] = sent[w] + 1
  BY <1>2
<1>4. new \notin sendings
  <2>1. SUFFICES ASSUME new \in sendings PROVE FALSE
    OBVIOUS
  <2>2. op[w] < op[w] \/ sent[w] + 1 <= sent[w]
    BY <1>2, <1>3, <2>1 DEF Sending, At
  <2> QED
    BY <1>2, <2>2
<1>5. sendings' = sendings \cup {new} /\ resent' = resent \cup (sendings \cap {new})
  BY DEF Arrives
<1>6. sendings \in SUBSET (Workers \X Nat \X Nat)
  BY <1>2 DEF Types
<1>7. sent[w] + 1 <= sent[w] + 1
  BY <1>2
<1> HIDE DEF new
<1>8. \A c \in sendings' : c \in sendings \/ (c[1] = w /\ c[2] = op[w] /\ c[3] <= sent[w] + 1)
  BY <1>3, <1>5, <1>7
<1>9. sendings' \in SUBSET (Workers \X Nat \X Nat) /\ resent' = {}
  BY <1>2, <1>3, <1>4, <1>5, <1>6
<1>10. \E c \in sendings' : c[1] = w
  BY <1>3, <1>5
<1> QED
  BY <1>5, <1>8, <1>9, <1>10 DEF new

\* The command itself.
LEMMA CommandFacts ==
  ASSUME SessionInv, NEW w \in Workers, pc[w] = "stage", sent[w] < N
  PROVE  /\ Command(w) \in Commands(w) /\ Command(w) \in Numbers
         /\ Command(w)[1] = op[w] /\ Command(w)[2] = sent[w] + 1
         /\ Command(w) \notin refused[w]
         /\ {op[w]} \X (1..(sent[w] + 1)) = ({op[w]} \X (1..sent[w])) \cup {Command(w)}
<1>1. pc[w] \in Config
  BY DEF Config, Staging
<1>2. /\ Sending(w) /\ op[w] \in Nat /\ sent[w] \in Nat /\ op[w] \in 1..Len(task[w].ops)
      /\ DOMAIN task[w].ops = 1..Len(task[w].ops)
  BY <1>1, InConfig
<1>3. Command(w) = <<op[w], sent[w] + 1>>
  BY DEF Command
<1>4. sent[w] + 1 \in 1..N /\ sent[w] + 1 \in Nat
  BY <1>2, SessionAssumption
<1>5. Command(w) \in Commands(w) /\ Command(w) \in Numbers
  BY <1>2, <1>3, <1>4 DEF Commands, Numbers
<1>6. Command(w)[1] = op[w] /\ Command(w)[2] = sent[w] + 1
  BY <1>3
<1>7. Command(w) \notin refused[w]
  <2>1. SUFFICES ASSUME Command(w) \in refused[w] PROVE FALSE
    OBVIOUS
  <2>2. op[w] < op[w] \/ sent[w] + 1 <= sent[w]
    BY <1>2, <1>6, <2>1 DEF Sending
  <2> QED
    BY <1>2, <2>2
<1>8. 1..(sent[w] + 1) = (1..sent[w]) \cup {sent[w] + 1}
  BY <1>2
<1> QED
  BY <1>3, <1>5, <1>6, <1>7, <1>8

\* A command is taken into the candidate or at once.
LEMMA TakesFacts ==
  ASSUME SessionInv, NEW w \in Workers, pc[w] = "stage", sent[w] < N, Takes(w),
         \A v \in Workers \ {w} : session'[v] = session[v]
  PROVE  /\ staged' \in [Workers -> SUBSET Numbers] /\ applied' \in [Workers -> SUBSET Numbers]
         /\ \A v \in Workers \ {w} : staged'[v] = staged[v] /\ applied'[v] = applied[v]
         /\ IF driver.style = "commit"
            THEN /\ applied' = applied
                 /\ staged'[w] = IF Private /\ session'[w] # "open" THEN {}
                                 ELSE staged[w] \cup {Command(w)}
            ELSE staged' = staged /\ applied'[w] = applied[w] \cup {Command(w)}
<1>1. Types /\ \A v \in Workers : Candidates(v)
  BY DEF SessionInv
<1>2. Command(w) \in Numbers
  BY CommandFacts
<1>3. CASE driver.style = "commit"
  <2>1. staged' = [v \in Workers |-> IF Private /\ session'[v] # "open" THEN {}
                                     ELSE With(staged, w)[v]]
    BY <1>3 DEF Takes, Candidate
  <2>2. With(staged, w) \in [Workers -> SUBSET Numbers]
        /\ With(staged, w)[w] = staged[w] \cup {Command(w)}
        /\ \A v \in Workers \ {w} : With(staged, w)[v] = staged[v]
    BY <1>1, <1>2 DEF With, Types
  <2>3. staged' \in [Workers -> SUBSET Numbers]
    <3>1. \A v \in Workers : With(staged, w)[v] \in SUBSET Numbers
      BY <2>2
    <3> QED
      BY <2>1, <3>1
  <2>4. \A v \in Workers : Private /\ session[v] # "open" => staged[v] = {}
    BY <1>1 DEF Candidates
  <2>5. \A v \in Workers \ {w} : staged'[v] = staged[v]
    BY <2>1, <2>2, <2>4
  <2>6. staged'[w] = IF Private /\ session'[w] # "open" THEN {} ELSE staged[w] \cup {Command(w)}
    BY <2>1, <2>2
  <2>7. applied' = applied /\ applied \in [Workers -> SUBSET Numbers]
    BY <1>1, <1>3 DEF Takes, Types
  <2> QED
    BY <1>3, <2>3, <2>5, <2>6, <2>7
<1>4. CASE driver.style # "commit"
  <2>1. applied' = With(applied, w) /\ staged' = staged
    BY <1>4 DEF Takes
  <2> QED
    BY <1>1, <1>2, <1>4, <2>1 DEF With, Types
<1> QED
  BY <1>3, <1>4

\* The running configuration and what the driver overlooked only grow.
LEMMA DeviceGrows ==
  ASSUME Types, NEW w \in Workers, Grows(w),
         applied[w] \subseteq applied'[w], unseen[w] \subseteq unseen'[w]
  PROVE  \A i : InForce(w, i) => InForce(w, i)'
BY DEF InForce, Disturbed, Grows

\* The next command of a configuration operation is due.
LEMMA OnwardLocal ==
  ASSUME SessionInv, NEW w \in Workers, pc[w] = "stage", sent[w] < N,
         Onward(w), Types', Grows(w), Arrives(w), UNCHANGED <<line, abandoned>>,
         \/ Takes(w) /\ UNCHANGED <<refused, unseen>>
         \/ /\ staged'[w] = staged[w] /\ UNCHANGED applied /\ refused' = With(refused, w)
            /\ \/ driver.style \notin {"each", "commit"} /\ UNCHANGED unseen
               \/ ~driver.exact /\ unseen' = With(unseen, w)
  PROVE  Local(w)'
<1> USE DEF line
<1>1. pc[w] \in Config /\ pc[w] \in Staging /\ "stage" \notin Config \ Staging
      /\ pc[w] \notin Config \ (Staging \cup {"discard"})
  BY DEF Config, Staging
<1>2. /\ Types /\ resent = {} /\ Placed(w) /\ Sending(w) /\ Candidates(w) /\ Running(w)
      /\ (\A v \in Workers : Candidates(v)) /\ op[w] \in Nat /\ sent[w] \in Nat
      /\ driver # Unsupported
  BY <1>1, InConfig
<1>3. /\ pc'[w] = "stage" /\ sent'[w] = sent[w] + 1 /\ op' = op /\ attempt' = attempt
      /\ results' = results /\ driver' = driver /\ task' = task
  BY <1>2 DEF Onward, Goto, Types, Grows
<1>4. /\ \A c \in sendings' : c \in sendings \/ (c[1] = w /\ c[2] = op[w] /\ c[3] <= sent[w] + 1)
      /\ \E c \in sendings' : c[1] = w
  BY FirstArrival
<1>5. /\ Command(w) \in Commands(w) /\ Command(w)[1] = op[w] /\ Command(w)[2] = sent[w] + 1
      /\ Command(w) \notin refused[w]
      /\ {op[w]} \X (1..(sent[w] + 1)) = ({op[w]} \X (1..sent[w])) \cup {Command(w)}
  BY CommandFacts
<1>6. driver.style = "commit" => session[w] = "open"
  BY <1>1, <1>2 DEF Placed
<1>7. \/ /\ refused'[w] = refused[w] /\ unseen'[w] = unseen[w]
         /\ IF driver.style = "commit"
            THEN applied'[w] = applied[w] /\ staged'[w] = staged[w] \cup {Command(w)}
            ELSE staged'[w] = staged[w] /\ applied'[w] = applied[w] \cup {Command(w)}
      \/ /\ refused'[w] = refused[w] \cup {Command(w)}
         /\ staged'[w] = staged[w] /\ applied'[w] = applied[w]
         /\ \/ driver.style \notin {"each", "commit"} /\ unseen'[w] = unseen[w]
            \/ ~driver.exact /\ unseen'[w] = unseen[w] \cup {Command(w)}
  <2>1. CASE Takes(w) /\ UNCHANGED <<refused, unseen>>
    BY <1>6, <2>1, TakesFacts
  <2>2. CASE /\ staged'[w] = staged[w] /\ UNCHANGED applied /\ refused' = With(refused, w)
             /\ \/ driver.style \notin {"each", "commit"} /\ UNCHANGED unseen
                \/ ~driver.exact /\ unseen' = With(unseen, w)
    BY <1>2, <2>2 DEF With, Types
  <2> QED
    BY <2>1, <2>2
<1>8. Placed(w)'
  <2>1. attempt[w] \in 1..Attempts(w) /\ abandoned[w] <= attempt[w]
        /\ op[w] \in 1..(Len(task[w].ops) + 1) /\ \A r \in results[w] : r[1] \in DOMAIN task[w].ops
    BY <1>2 DEF Placed
  <2>2. op[w] <= Len(task[w].ops) /\ Current(w) \in Configs
    BY <1>1, InConfig
  <2>3. session[w] = "dead" => w \in lost
    BY <1>2 DEF Placed
  <2> QED
    BY <1>2, <1>3, <1>6, <2>1, <2>2, <2>3 DEF Placed, At, Current, Attempts
<1>9. \A c \in sendings' : c[1] = w =>
        c[2] < op[w] \/ (c[2] = op[w] /\ c[3] <= sent[w] + 1)
  <2>1. \A c \in sendings : c[3] \in Nat
    BY <1>2 DEF Types
  <2>2. \A c \in sendings : c[1] = w => c[2] < op[w] \/ (c[2] = op[w] /\ c[3] <= sent[w])
    BY <1>2 DEF Sending, At
  <2>3. \A c \in sendings : c[3] <= sent[w] => c[3] <= sent[w] + 1
    BY <1>2, <2>1
  <2> QED
    BY <1>4, <2>2, <2>3
<1>10. \A c \in refused'[w] : c \in Commands(w) /\
         (c[1] < op[w] \/ (c[1] = op[w] /\ c[2] <= sent[w] + 1))
  <2>1. \A c \in refused[w] : c \in Commands(w) /\
          (c[1] < op[w] \/ (c[1] = op[w] /\ c[2] <= sent[w]))
    BY <1>2 DEF Sending
  <2>2. \A c \in refused[w] : c[2] \in Nat
    BY <1>2 DEF Types, Numbers
  <2>3. \A c \in refused[w] : c[2] <= sent[w] => c[2] <= sent[w] + 1
    BY <1>2, <2>2
  <2>4. Command(w)[2] <= sent[w] + 1
    BY <1>2, <1>5
  <2> QED
    BY <1>5, <1>7, <2>1, <2>3, <2>4
<1>11. Sending(w)'
  <2>1. Commands(w)' = Commands(w)
    BY <1>3 DEF Commands
  <2>2. Overlooked(w)'
    BY <1>2, <1>3, <1>7 DEF Sending, Overlooked
  <2> QED
    BY <1>1, <1>3, <1>4, <1>9, <1>10, <2>1, <2>2 DEF Sending, At
<1>12. Accepted(w)' = IF refused'[w] = refused[w] THEN Accepted(w) \cup {Command(w)} ELSE Accepted(w)
  <2>1. Accepted(w)' = (({op[w]} \X (1..sent[w])) \cup {Command(w)}) \ refused'[w]
    BY <1>3, <1>5 DEF Accepted
  <2>2. Command(w) \notin {op[w]} \X (1..sent[w])
    <3>1. ~(sent[w] + 1 <= sent[w])
      BY <1>2
    <3>2. sent[w] + 1 \notin 1..sent[w]
      BY <1>2, <3>1
    <3> QED
      BY <1>5, <3>2
  <2>3. Accepted(w) = ({op[w]} \X (1..sent[w])) \ refused[w]
    BY DEF Accepted
  <2> QED
    BY <1>5, <1>7, <2>1, <2>2, <2>3
<1>13. Candidates(w)'
  <2>1. Commands(w)' = Commands(w) /\ Private' = Private
    BY <1>3 DEF Commands, Private
  <2>2. ~Disturbed(w)' => ~Disturbed(w)
    BY <1>3 DEF Disturbed, Grows
  <2>3. /\ staged[w] \subseteq Commands(w)
        /\ driver.style # "commit" => staged[w] = {}
        /\ Private => staged[w] \subseteq Accepted(w)
        /\ driver.style = "commit" /\ ~Disturbed(w) => Accepted(w) \subseteq staged[w]
    BY <1>1, <1>2 DEF Candidates
  <2>4. staged'[w] \subseteq Commands(w) /\ (driver.style # "commit" => staged'[w] = {})
    BY <1>5, <1>7, <2>3
  <2>5. Private => staged'[w] \subseteq Accepted(w)'
    BY <1>5, <1>7, <1>12, <2>3 DEF Private
  <2>6. driver.style = "commit" /\ ~Disturbed(w)' => Accepted(w)' \subseteq staged'[w]
    BY <1>5, <1>7, <1>12, <2>2, <2>3
  <2>7. Private => session'[w] = "open"
    BY <1>6 DEF Private
  <2> QED
    BY <1>1, <1>3, <2>1, <2>4, <2>5, <2>6, <2>7 DEF Candidates
<1>14. \A i : InForce(w, i) => InForce(w, i)'
  BY <1>2, <1>7, DeviceGrows
<1>15. Private => Together(w)'
  <2>1. SUFFICES ASSUME Private PROVE Together(w)'
    OBVIOUS
  <2>2. applied'[w] = applied[w] /\ Together(w) /\ (\A c \in applied[w] : c[1] < op[w])
    BY <1>1, <1>2, <1>7, <2>1 DEF Private, Running
  <2>3. \A c \in applied[w] : c[1] # op[w]
    <3>1. \A c \in applied[w] : c[1] \in Nat
      BY <1>2 DEF Types, Numbers
    <3> QED
      BY <1>2, <2>2, <3>1
  <2>4. ASSUME NEW i \in DOMAIN task[w].ops
        PROVE  OfOp(applied[w], i) \in {{}, Whole(i) \ refused'[w]}
    <3>1. CASE i = op[w]
      BY <2>3, <3>1 DEF OfOp
    <3>2. CASE i # op[w]
      <4>1. Command(w) \notin Whole(i)
        BY <1>5, <3>2 DEF Whole
      <4>2. Whole(i) \ refused'[w] = Whole(i) \ refused[w]
        BY <1>7, <4>1
      <4> QED
        BY <2>2, <4>2 DEF Together
    <3> QED
      BY <3>1, <3>2
  <2> QED
    BY <1>3, <2>2, <2>4 DEF Together, OfOp, Whole
<1>16. Running(w)'
  <2>1. Commands(w)' = Commands(w) /\ Private' = Private
    BY <1>3 DEF Commands, Private
  <2>2. applied'[w] \subseteq Commands(w)
    BY <1>2, <1>5, <1>7 DEF Running
  <2>3. Private => \A c \in applied'[w] : c[1] < op[w]
    BY <1>1, <1>2, <1>7 DEF Running, Private
  <2>4. driver.style # "commit" =>
          {op'[w]} \X (1..sent'[w]) \subseteq applied'[w] \cup refused'[w]
    <3>1. driver.style # "commit" => {op[w]} \X (1..sent[w]) \subseteq applied[w] \cup refused[w]
      BY <1>2 DEF Running, At
    <3> QED
      BY <1>3, <1>5, <1>7, <3>1
  <2>5. driver.style = "each" => \A c \in refused'[w] \ unseen'[w] : c[1] < op[w]
    BY <1>2, <1>7 DEF Running, At
  <2>6. \A r \in results'[w] : r[2] = "ok" /\ task'[w].ops[r[1]] \in Configs => InForce(w, r[1])'
    BY <1>2, <1>3, <1>14 DEF Running
  <2> QED
    BY <1>3, <1>15, <2>1, <2>2, <2>3, <2>4, <2>5, <2>6 DEF Running, At
<1> QED
  BY <1>8, <1>11, <1>13, <1>16 DEF Local


\* Where the method raises from its loop: a commit driver goes on in its except
\* clause, the others end the operation with an error.
LEMMA SendFailed ==
  ASSUME SessionInv, NEW w \in Workers, pc[w] = "stage", sent[w] < N, Fails(w),
         Returns(w) => driver.style # "commit",
         Returns(w) \/ Raises(w, TRUE) \/ Raises(w, FALSE),
         Arrives(w) \/ (Raises(w, FALSE) /\ UNCHANGED <<sendings, resent>>),
         \/ Takes(w) /\ UNCHANGED refused
         \/ Candidate(staged) /\ UNCHANGED <<applied, refused>>
         \/ driver.style # "commit" /\ Candidate(staged) /\ UNCHANGED applied
              /\ refused' = With(refused, w),
         UNCHANGED <<driver, task, status, abandoned, unseen>>
  PROVE  Common(w) /\ Local(w)'
<1>1. pc[w] \in Config /\ pc[w] \in Staging /\ "rescue" \notin Staging \cup {"discard"}
      /\ "rescue" \in Config \ {"stage"} /\ "rescue" \in Config
      /\ pc[w] \notin {"resolve", "connect", "enable"}
  BY DEF Config, Staging
<1>2. /\ Types /\ resent = {} /\ Placed(w) /\ Sending(w) /\ Candidates(w) /\ Running(w)
      /\ (\A v \in Workers : Candidates(v)) /\ op[w] \in Nat /\ sent[w] \in Nat
      /\ op[w] \in 1..Len(task[w].ops) /\ driver # Unsupported
  BY <1>1, InConfig
<1>3. /\ session' \in [Workers -> {"open", "dead", "none"}]
      /\ faults' \in 0..MaxFaults /\ lost' \in SUBSET Workers /\ lost \subseteq lost'
      /\ \A v \in Workers \ {w} : session'[v] = session[v]
      /\ session'[w] = "dead" => w \in lost'
      /\ session'[w] \in {"open", "dead"}
  BY <1>2, LineFacts DEF Placed
<1>4. Raises(w, FALSE) => session'[w] = "dead"
  BY <1>2 DEF Raises, Drops, Session, line, Types
<1>5. /\ sendings \subseteq sendings' /\ sendings' \in SUBSET (Workers \X Nat \X Nat)
      /\ resent' = {} /\ \A c \in sendings' : c \in sendings \/ (c[1] = w /\ c[2] = op[w])
      /\ Raises(w, FALSE) \/ \E c \in sendings' : c[1] = w
  <2>1. CASE Arrives(w)
    BY <2>1, FirstArrival
  <2>2. CASE Raises(w, FALSE) /\ UNCHANGED <<sendings, resent>>
    BY <1>2, <2>2 DEF Types
  <2> QED
    BY <2>1, <2>2
<1>6. Command(w) \in Commands(w) /\ Command(w)[1] = op[w] /\ Command(w) \in Numbers
  BY CommandFacts
<1>7. /\ staged' \in [Workers -> SUBSET Numbers] /\ applied' \in [Workers -> SUBSET Numbers]
      /\ refused' \in [Workers -> SUBSET Numbers]
      /\ \A v \in Workers \ {w} : /\ staged'[v] = staged[v] /\ applied'[v] = applied[v]
                                  /\ refused'[v] = refused[v]
      /\ staged'[w] \in {{}, staged[w], staged[w] \cup {Command(w)}}
      /\ Private /\ session'[w] # "open" => staged'[w] = {}
      /\ IF driver.style = "commit" THEN applied'[w] = applied[w] /\ refused' = refused
         ELSE staged'[w] = staged[w]
      /\ applied'[w] \in {applied[w], applied[w] \cup {Command(w)}}
      /\ refused'[w] \in {refused[w], refused[w] \cup {Command(w)}}
  <2>0. refused \in [Workers -> SUBSET Numbers] /\ applied \in [Workers -> SUBSET Numbers]
    BY <1>2 DEF Types
  <2>1. CASE Takes(w) /\ UNCHANGED refused
    BY <1>3, <2>0, <2>1, TakesFacts DEF Private
  <2>2. ASSUME Candidate(staged)
        PROVE  /\ staged' \in [Workers -> SUBSET Numbers]
               /\ \A v \in Workers \ {w} : staged'[v] = staged[v]
               /\ staged'[w] = IF Private /\ session'[w] # "open" THEN {} ELSE staged[w]
    BY <1>2, <1>3, <2>2, CandidateKept
  <2>3. CASE Candidate(staged) /\ UNCHANGED <<applied, refused>>
    BY <2>0, <2>2, <2>3 DEF Private
  <2>4. CASE driver.style # "commit" /\ Candidate(staged) /\ UNCHANGED applied
             /\ refused' = With(refused, w)
    <3>1. /\ refused' \in [Workers -> SUBSET Numbers]
          /\ refused'[w] = refused[w] \cup {Command(w)}
          /\ \A v \in Workers \ {w} : refused'[v] = refused[v]
      BY <1>6, <2>0, <2>4 DEF With
    <3> QED
      BY <2>0, <2>2, <2>4, <3>1 DEF Private
  <2> QED
    BY <2>1, <2>3, <2>4
<1>8. \A c \in sendings' : c[1] = w => c[2] <= op[w]
  <2>1. \A c \in sendings' : c[2] \in Nat
    BY <1>5
  <2>2. \A c \in sendings' : c[1] = w => c[2] < op[w] \/ c[2] = op[w]
    BY <1>2, <1>5 DEF Sending
  <2> QED
    BY <1>2, <2>1, <2>2
<1>9. \A c \in refused'[w] : c \in Commands(w) /\ c[1] <= op[w]
  <2>1. \A c \in refused[w] : c[1] \in Nat
    BY <1>2 DEF Types, Numbers
  <2>2. \A c \in refused[w] : c \in Commands(w) /\ c[1] <= op[w]
    BY <1>2, <2>1 DEF Sending
  <2> QED
    BY <1>2, <1>6, <1>7, <2>2
<1>10. staged'[w] \subseteq Commands(w) /\ applied'[w] \subseteq Commands(w)
  BY <1>2, <1>6, <1>7 DEF Candidates, Running
<1>11. CASE driver.style = "commit"
  <2>1. Moves(w, "rescue")
    BY <1>11 DEF Fails
  <2>2. /\ pc' \in [Workers -> Places] /\ pc'[w] = "rescue"
        /\ UNCHANGED <<attempt, op, sent, results>>
        /\ \A v \in Workers \ {w} : pc'[v] = pc[v]
    BY <1>1, <1>2, <2>1, MovesFacts
  <2>3. Types'
    BY <1>2, <1>3, <1>5, <1>7, <2>2 DEF Types
  <2>4. Common(w)
    BY <1>2, <1>3, <1>5, <1>7, <2>2, <2>3 DEF Common, Grows, Keeps
  <2>5. Grows(w) /\ applied'[w] = applied[w] /\ refused' = refused /\ abandoned' = abandoned
    BY <1>7, <1>11, <2>4 DEF Common
  <2>6. (\A i : InForce(w, i) => InForce(w, i)') /\ (Private => Together(w)')
    BY <1>2, <2>5, DeviceKept DEF Running
  <2>7. Private => \A c \in applied'[w] : c[1] < op[w]
    BY <1>1, <1>2, <2>5 DEF Running
  <2>8. session'[w] = "open" => \E c \in sendings' : c[1] = w
    BY <1>4, <1>5
  <2>9. "rescue" \in Staging \cup {"discard", "rescue"}
        /\ "rescue" \notin {"check", "commit", "discard", "exit_ok"}
        /\ "rescue" \notin {"check", "commit", "discard"} /\ "rescue" \notin Staging
    BY <1>1
  <2>10. Private /\ session'[w] # "open" => staged'[w] = {}
    BY <1>7
  <2>11. \A c \in sendings' : c \in sendings \/ c[2] = op[w]
    BY <1>5
  <2>12. session'[w] = "dead" => w \in lost'
    BY <1>3
  <2>13. Local(w)'
    BY <1>1, <1>10, <1>11, <2>1, <2>5, <2>6, <2>7, <2>8, <2>9, <2>10, <2>11, <2>12, Moved
  <2> QED
    BY <2>4, <2>13
<1>12. CASE driver.style # "commit"
  <2>1. Conclude(w, "error")
    BY <1>12 DEF Fails
  <2>2. /\ pc' \in [Workers -> Places] /\ op' \in [Workers -> Nat]
        /\ sent' \in [Workers -> 0..N] /\ attempt' = attempt
        /\ results' \in [Workers -> SUBSET (Nat \X {"ok", "error"})]
        /\ \A v \in Workers \ {w} : /\ pc'[v] = pc[v] /\ op'[v] = op[v]
                                    /\ sent'[v] = sent[v] /\ results'[v] = results[v]
    BY <1>2, <2>1, ConcludeFacts
  <2>3. Types'
    BY <1>2, <1>3, <1>5, <1>7, <2>2 DEF Types
  <2>4. Common(w)
    BY <1>2, <1>3, <1>5, <1>7, <2>2, <2>3 DEF Common, Grows, Keeps
  <2>5. ~Private
    BY <1>12 DEF Private
  <2>6. staged'[w] = {}
    BY <1>2, <1>7, <1>12 DEF Candidates
  <2>7. \A i : InForce(w, i) => InForce(w, i)'
    <3>1. applied[w] \subseteq applied'[w] /\ unseen[w] \subseteq unseen'[w]
      BY <1>7
    <3> QED
      BY <1>2, <2>4, <3>1, DeviceGrows DEF Common
  <2>9. Overlooked(w)'
    BY <1>2, <1>7, <1>12 DEF Sending, Overlooked
  <2>8. Local(w)'
    BY <1>1, <1>2, <1>3, <1>8, <1>9, <1>10, <2>1, <2>3, <2>4, <2>5, <2>6, <2>7, <2>9, Concluded
       DEF Common
  <2> QED
    BY <2>4, <2>8
<1> QED
  BY <1>11, <1>12


LEMMA SendStep ==
  ASSUME SessionInv, NEW w \in Workers, Send(w)
  PROVE  Common(w) /\ Local(w)'
<1>1. pc[w] = "stage" /\ sent[w] < N /\ pc[w] \in Config /\ pc[w] \in Staging
  BY DEF Send, At, Config, Staging
<1>2. UNCHANGED <<driver, task, status, abandoned>>
  BY DEF Send
<1>3. /\ Types /\ resent = {} /\ Placed(w) /\ (\A v \in Workers : Candidates(v))
      /\ sent[w] \in Nat
  BY <1>1, InConfig
<1>4. driver.style = "commit" => session[w] = "open"
  BY <1>1, <1>3 DEF Placed
<1>5. ASSUME Returns(w), Arrives(w), Onward(w),
             \/ Takes(w) /\ UNCHANGED <<refused, unseen>>
             \/ /\ Candidate(staged) /\ UNCHANGED applied /\ refused' = With(refused, w)
                /\ \/ driver.style \notin {"each", "commit"} /\ UNCHANGED unseen
                   \/ ~driver.exact /\ unseen' = With(unseen, w)
      PROVE  Common(w) /\ Local(w)'
  <2>1. session' = session /\ faults' = faults /\ lost' = lost /\ UNCHANGED line
    BY <1>5 DEF Returns, line
  <2>2. /\ sendings \subseteq sendings' /\ sendings' \in SUBSET (Workers \X Nat \X Nat)
        /\ resent' = {} /\ \A c \in sendings' : c \in sendings \/ c[1] = w
    BY <1>1, <1>5, FirstArrival
  <2>3. /\ pc' \in [Workers -> Places] /\ UNCHANGED <<attempt, op, results>>
        /\ sent' \in [Workers -> 0..N]
        /\ \A v \in Workers \ {w} : pc'[v] = pc[v] /\ sent'[v] = sent[v]
    <3>1. sent[w] + 1 \in 0..N
      BY <1>1, <1>3, SessionAssumption
    <3> QED
      BY <1>3, <1>5, <3>1 DEF Onward, Goto, Types, Places
  <2>4. Command(w) \in Numbers
    BY <1>1, CommandFacts
  <2>5. refused \in [Workers -> SUBSET Numbers] /\ applied \in [Workers -> SUBSET Numbers]
        /\ unseen \in [Workers -> SUBSET Numbers]
    BY <1>3 DEF Types
  <2>6. /\ staged' \in [Workers -> SUBSET Numbers] /\ applied' \in [Workers -> SUBSET Numbers]
        /\ refused' \in [Workers -> SUBSET Numbers] /\ unseen' \in [Workers -> SUBSET Numbers]
        /\ \A v \in Workers \ {w} : /\ staged'[v] = staged[v] /\ applied'[v] = applied[v]
                                    /\ refused'[v] = refused[v] /\ unseen'[v] = unseen[v]
        /\ Candidate(staged) => staged'[w] = staged[w]
    <3>1. ASSUME Candidate(staged)
          PROVE  /\ staged' \in [Workers -> SUBSET Numbers] /\ staged'[w] = staged[w]
                 /\ \A v \in Workers \ {w} : staged'[v] = staged[v]
      BY <1>3, <1>4, <2>1, <3>1, CandidateKept DEF Private
    <3>2. CASE Takes(w) /\ UNCHANGED <<refused, unseen>>
      BY <1>1, <2>1, <2>5, <3>1, <3>2, TakesFacts
    <3>3. CASE /\ Candidate(staged) /\ UNCHANGED applied /\ refused' = With(refused, w)
               /\ UNCHANGED unseen \/ unseen' = With(unseen, w)
      BY <2>4, <2>5, <3>1, <3>3 DEF With
    <3> QED
      BY <1>5, <3>2, <3>3
  <2>7. Types'
    BY <1>2, <1>3, <2>1, <2>2, <2>3, <2>6 DEF Types
  <2>8. Common(w)
    BY <1>2, <1>3, <2>1, <2>2, <2>3, <2>6, <2>7 DEF Common, Grows, Keeps
  <2>9. Local(w)'
    BY <1>1, <1>2, <1>5, <2>1, <2>6, <2>7, <2>8, OnwardLocal DEF Common
  <2> QED
    BY <2>8, <2>9
<1>6. CASE SendTaken(w)
  <2>1. CASE Onward(w)
    BY <1>5, <1>6, <2>1 DEF SendTaken
  <2>2. CASE driver.style = "each" /\ Conclude(w, "error")
    <3>1. Fails(w) /\ driver.style # "commit"
      BY <2>2 DEF Fails
    <3> QED
      BY <1>1, <1>2, <1>6, <3>1, SendFailed DEF SendTaken
  <2> QED
    BY <1>6, <2>1, <2>2 DEF SendTaken
<1>7. CASE SendRefused(w)
  <2>1. CASE driver.style = "each" /\ Conclude(w, "error") /\ UNCHANGED unseen
    <3>1. Fails(w) /\ driver.style # "commit"
      BY <2>1 DEF Fails
    <3> QED
      BY <1>1, <1>2, <1>7, <2>1, <3>1, SendFailed DEF SendRefused
  <2>2. CASE driver.style \notin {"each", "commit"} /\ Onward(w) /\ UNCHANGED unseen
    BY <1>5, <1>7, <2>2 DEF SendRefused
  <2>3. CASE ~driver.exact /\ unseen' = With(unseen, w) /\ Onward(w)
    BY <1>5, <1>7, <2>3 DEF SendRefused
  <2> QED
    BY <1>7, <2>1, <2>2, <2>3 DEF SendRefused
<1>8. CASE SendFails(w)
  <2>1. ~Returns(w) \/ driver.style # "commit"
    <3>1. Raises(w, TRUE) \/ Raises(w, FALSE)
      BY <1>8 DEF SendFails
    <3>2. Returns(w) => session[w] = "open" /\ faults' = faults /\ session' = session
      BY DEF Returns, line
    <3>3. faults \in Nat /\ faults # faults + 1
      BY <1>3, SessionAssumption DEF Types
    <3> QED
      BY <3>1, <3>2, <3>3 DEF Raises, Drops, Late
  <2> QED
    BY <1>1, <1>2, <1>8, <2>1, SendFailed DEF SendFails
<1> QED
  BY <1>6, <1>7, <1>8 DEF Send

-----------------------------------------------------------------------------
(* The invariant and the properties it implies.                            *)

\* Every step of a worker keeps to itself what is its own.
LEMMA WorkerStep ==
  ASSUME SessionInv, NEW w \in Workers, Worker(w) \/ Collect(w)
  PROVE  Common(w) /\ Local(w)'
BY ResolveStep, ConnectStep, EnableStep, ExecStep, PollStep, TransferFileStep, EnterConfigStep,
   SendStep, SentStep, CheckStep, CommitStep, AbandonStep, ExitConfigStep, DisconnectStep,
   CollectStep DEF Worker

LEMMA SessionInitially == Init => SessionInv
<1> SUFFICES ASSUME Init PROVE SessionInv
  OBVIOUS
<1>1. Types
  BY SessionAssumption DEF Init, Types, Places
<1>2. resent = {}
  BY DEF Init
<1>3. ASSUME NEW w \in Workers
      PROVE  Placed(w) /\ Sending(w) /\ Candidates(w) /\ Running(w)
  <2>1. /\ pc[w] = "resolve" /\ attempt[w] = 1 /\ op[w] = 1 /\ sent[w] = 0 /\ results[w] = {}
        /\ session[w] = "none" /\ abandoned[w] = 0 /\ staged[w] = {} /\ applied[w] = {}
        /\ refused[w] = {} /\ unseen[w] = {} /\ sendings = {}
    BY DEF Init
  <2>2. Len(task[w].ops) \in Nat /\ Attempts(w) \in Nat \ {0}
    BY <1>1, TaskFacts
  <2>3. 1 \in 1..Attempts(w) /\ 1 \in 1..(Len(task[w].ops) + 1)
    BY <2>2
  <2>4. Placed(w)
    BY <2>1, <2>3 DEF Placed, At, Config, Staging
  <2>5. Sending(w)
    BY <2>1 DEF Sending, At, Overlooked
  <2>6. Candidates(w)
    BY <2>1 DEF Candidates, Staging
  <2>7. Running(w)
    BY <2>1 DEF Running, Together, OfOp, At
  <2> QED
    BY <2>4, <2>5, <2>6, <2>7
<1> QED
  BY <1>1, <1>2, <1>3 DEF SessionInv

LEMMA SessionNext == SessionInv /\ [Next]_vars => SessionInv'
<1> SUFFICES ASSUME SessionInv, [Next]_vars PROVE SessionInv'
  OBVIOUS
<1>1. ASSUME NEW w \in Workers, Worker(w) \/ Collect(w)
      PROVE  SessionInv'
  <2>1. Common(w) /\ Local(w)'
    BY <1>1, WorkerStep
  <2>2. ASSUME NEW v \in Workers \ {w}
        PROVE  Local(v)'
    <3>1. Types /\ Local(v)
      BY DEF SessionInv, Local
    <3> QED
      BY <2>1, <3>1, OthersStay DEF Common
  <2>3. \A v \in Workers : Local(v)'
    BY <2>1, <2>2
  <2> QED
    BY <2>1, <2>3 DEF Common, SessionInv, Local
<1>2. CASE UNCHANGED vars
  <2>1. \A w \in Workers : Local(w)
    BY DEF SessionInv, Local
  <2>2. UNCHANGED <<driver, task, pc, attempt, op, sent, results, status, session, abandoned,
                    staged, applied, refused, unseen, sendings, resent, faults, lost>>
    BY <1>2 DEF vars, place, device, line
  <2>3. Types' /\ resent' = {}
    BY <2>2 DEF SessionInv, Types
  <2>4. ASSUME NEW w \in Workers
        PROVE  Local(w)'
    <3>1. Placed(w)'
      BY <2>1, <2>2 DEF Local, Placed, At, Current, Attempts
    <3>2. Sending(w)'
      BY <2>1, <2>2 DEF Local, Sending, At, Commands, Overlooked
    <3>3. Candidates(w)'
      BY <2>1, <2>2 DEF Local, Candidates, At, Commands, Accepted, Private, Disturbed
    <3>4. Running(w)'
      <4>1. \A i : InForce(w, i) => InForce(w, i)'
        BY <2>2 DEF InForce, Disturbed
      <4>2. Together(w) => Together(w)'
        BY <2>2 DEF Together
      <4> QED
        BY <2>1, <2>2, <4>1, <4>2 DEF Local, Running, At, Commands, Private
    <3> QED
      BY <3>1, <3>2, <3>3, <3>4 DEF Local
  <2> QED
    BY <2>3, <2>4 DEF SessionInv, Local
<1> QED
  BY <1>1, <1>2 DEF Next

\* The invariant of the sessions: whatever the transport does to them.
THEOREM SessionInvariance == Spec => []SessionInv
<1> QED
  BY SessionInitially, SessionNext, PTL DEF Spec

\* The types and the bounds of the retry loop: no worker connects more often
\* than run_device_job lets it or leaves more sessions behind.
THEOREM SessionTypes == Spec => []TypeOK
<1>1. SessionInv => TypeOK
  <2> SUFFICES ASSUME SessionInv PROVE TypeOK
    OBVIOUS
  <2>1. Types /\ \A w \in Workers : Local(w)
    BY DEF SessionInv, Local
  <2>2. ASSUME NEW w \in Workers
        PROVE  /\ attempt[w] \in 1..Attempts(w) /\ abandoned[w] \in 0..attempt[w]
               /\ op[w] \in 1..(Len(task[w].ops) + 1) /\ sent[w] \in 0..N
               /\ results[w] \subseteq (DOMAIN task[w].ops) \X {"ok", "error"}
               /\ staged[w] \subseteq Commands(w) /\ applied[w] \subseteq Commands(w)
               /\ refused[w] \subseteq Commands(w) /\ unseen[w] \subseteq Commands(w)
    <3>1. abandoned[w] \in 0..attempt[w]
      BY <2>1 DEF Types, Local, Placed
    <3>2. results[w] \subseteq (DOMAIN task[w].ops) \X {"ok", "error"}
      BY <2>1 DEF Types, Local, Placed
    <3>3. staged[w] \subseteq Commands(w) /\ applied[w] \subseteq Commands(w)
          /\ refused[w] \subseteq Commands(w) /\ unseen[w] \subseteq Commands(w)
      BY <2>1 DEF Local, Candidates, Running, Sending, Overlooked
    <3>4. attempt[w] \in 1..Attempts(w) /\ op[w] \in 1..(Len(task[w].ops) + 1) /\ sent[w] \in 0..N
      BY <2>1 DEF Types, Local, Placed
    <3> QED
      BY <3>1, <3>2, <3>3, <3>4
  <2> QED
    BY <2>1, <2>2 DEF TypeOK, Types
<1> QED
  BY <1>1, SessionInvariance, PTL

\* No command reaches the device twice, whatever is lost or late: the retry
\* loop of run_device_job is around connect() and around nothing else.
THEOREM CommandsSentOnce == Spec => []SentOnce
<1>1. SessionInv => SentOnce
  BY DEF SessionInv, SentOnce
<1> QED
  BY <1>1, SessionInvariance, PTL

\* A candidate configuration is put in force whole or not at all, wherever the
\* session is lost (IosXrDriver, ViptelaDriver).
THEOREM AllOrNothing == Spec => []CommittedTogether
<1>1. SessionInv => CommittedTogether
  BY DEF SessionInv, Running, Together, CommittedTogether
<1> QED
  BY <1>1, SessionInvariance, PTL

\* A configuration operation in the results without an error is in force, but
\* for what CleanReportIsTrue names.
THEOREM ReportIsTrue == Spec => []CleanReportIsTrue
<1>1. SessionInv => CleanReportIsTrue
  BY DEF SessionInv, Running, InForce, Missed, CleanReportIsTrue
<1> QED
  BY <1>1, SessionInvariance, PTL

\* Only a lost session leaves staged commands on the device.
THEOREM LeftoverIsExplained == Spec => []LeftoverNeedsLostSession
<1>1. SessionInv => LeftoverNeedsLostSession
  BY DEF SessionInv, Candidates, Staging, LeftoverNeedsLostSession
<1> QED
  BY <1>1, SessionInvariance, PTL
=============================================================================
