--------------------------- MODULE JobStoreProofs ---------------------------
(***************************************************************************)
(* Theorems about JobStore, for any finite set of devices, any set of      *)
(* concurrent requests and any number of results, polls and failures: what *)
(* a request that reads by several queries may answer, what the script may *)
(* download, and that the store implements JobLifecycle query by query.    *)
(*                                                                         *)
(* A method of the store is known by the step it is at: every step occurs  *)
(* once in a method, and the methods share the export.                     *)
(***************************************************************************)
EXTENDS JobStore, SequenceTheorems, FiniteSetTheorems, TLAPS

\* The step the method called last does next.
At(s) == todo # <<>> /\ Head(todo) = s

\* What may be left of a method.
ExportLeft == {<<>>, <<"write">>, <<"open", "write">>, <<"cmds", "open", "write">>,
               <<"devices", "cmds", "open", "write">>, Export}
TodoOK ==
  \/ todo \in ExportLeft
  \/ op = "update" /\ todo \in {<<"upsert">> \o (<<"insertcmds">> \o Export),
                               <<"insertcmds">> \o Export}
  \/ op = "complete" /\ todo \in {<<"counts">> \o (<<"status">> \o Export), <<"status">> \o Export}
  \/ op \in {"create", "running", "failed", "cancelled"} /\ todo = <<"status">> \o Export

\* What may be left of a request.
StatusLeft == {<<>>, <<"counts">>, <<"job", "counts">>}
DetailLeft == {<<>>, <<"counts">>, <<"cmds", "counts">>, <<"devices", "cmds", "counts">>,
               <<"job", "devices", "cmds", "counts">>}

ReaderType == [op : {"idle", "status", "detail"}, left : StatusLeft \cup DetailLeft,
               data : Snapshot, unread : SUBSET Devices,
               counts : [success : Nat, failed : Nat]]
FileType   == [state : {"absent", "torn", "whole"}, data : Snapshot]
ClientType == [at : {"post", "poll", "download", "exit"}, seen : Statuses,
               polls : 0..MaxPolls, saved : FileType]

Types ==
  /\ status \in Statuses /\ rows \in Rows /\ commands \in [Devices -> 0..MaxUpdates]
  /\ snap \in Snapshot
  /\ op \in {"none", "create", "running", "update", "complete", "failed", "cancelled"}
  /\ target \in Statuses
  /\ result \in Results \cup {[n |-> 0]}
  /\ thread \in {"runs", "raised", "gone"}
  /\ file \in FileType /\ reader \in [Readers -> ReaderType] /\ client \in ClientType
  /\ failures \in 0..MaxFailures
  /\ TodoOK

\* Which status a method finds, and which one it is about to write.
Called ==
  /\ op = "none"      => status = "absent"
  /\ op = "create"    => status \in {"absent", "queued"} /\ target = "queued"
  /\ op = "running"   => status \in {"queued", "running"} /\ target = "running"
  /\ op = "update"    => status = "running" /\ result \in Results
  /\ op = "failed"    => target = "failed"
  /\ op = "cancelled" => target = "cancelled"
  /\ op = "complete" /\ (At("counts") \/ At("status")) => status = "running"
  /\ At("status") =>
       /\ op = "create"   => status = "absent"
       /\ op = "running"  => status = "queued"
       /\ op = "complete" => target = Verdict(Outcomes(rows), {})
       /\ op \in {"failed", "cancelled"} => status \in Active \/ failures > 0
  /\ thread = "raised" => failures > 0

\* Commands are stored after the row they belong to.
RowsFirst ==
  /\ \A d \in Devices : commands[d] # 0 => rows[d] # NoRow
  /\ At("insertcmds") => rows[result.host] # NoRow

\* The export shows the database once it has read it, and a file written to the
\* end shows it until the next result.
Exported ==
  /\ At("cmds") \/ At("open") \/ At("write") => snap.rows = rows
  /\ At("open") \/ At("write") => snap.commands = commands
  /\ Undisturbed /\ file.state = "whole" /\ (op = "update" => todo = <<>>)
       => file.data.rows = rows /\ file.data.commands = commands

\* A request that has read a terminal status has read nothing since that is not
\* final, and its job row comes first.
Final(r) ==
  LET me == reader[r] IN
  /\ me.op = "status" => me.left \in StatusLeft /\ me.unread = {}
  /\ me.op = "detail" => me.left \in DetailLeft
  /\ me.op = "idle" => me = Idle
  /\ me.op = "detail" /\ me.left \in {<<"job", "devices", "cmds", "counts">>,
                                       <<"devices", "cmds", "counts">>}
       => me.data.commands = Blank.commands
  /\ me.left \in {<<"job", "counts">>, <<"job", "devices", "cmds", "counts">>}
       => me.data.status = "absent"
  /\ me.data.status \in Terminal =>
       /\ status \in Terminal
       /\ me.left = <<>> => me.counts = Counts(rows)
       /\ me.op = "detail" /\ me.left \in {<<>>, <<"counts">>, <<"cmds", "counts">>} =>
            /\ me.data.rows = rows
            /\ \A d \in Devices \ me.unread : me.data.commands[d] = commands[d]
       /\ me.left \in {<<>>, <<"counts">>} => me.unread = {}

\* The script downloads after it has seen the end only.
Polled ==
  /\ client.at = "download" => client.seen \in Terminal
  /\ client.seen \in Terminal => status \in Terminal
  /\ client.saved.state # "absent" => client.at = "exit" /\ client.seen \in Terminal
  /\ Undisturbed /\ client.saved.state = "whole"
       => client.saved.data.rows = rows /\ client.saved.data.commands = commands

StoreInv ==
  Types /\ Called /\ RowsFirst /\ Exported /\ (\A r \in Readers : Final(r)) /\ Polled

-----------------------------------------------------------------------------
(* The steps of a method                                                   *)

\* A sequence with one step put before it starts with that step.
LEMMA FirstStep ==
  ASSUME NEW S, NEW x \in S, NEW s \in Seq(S)
  PROVE  <<x>> \o s # <<>> /\ Head(<<x>> \o s) = x /\ Tail(<<x>> \o s) = s
<1> DEFINE t == <<x>> \o s
<1>1. /\ <<x>> \in Seq(S) /\ Len(<<x>>) = 1 /\ Len(s) \in Nat
      /\ t \in Seq(S) /\ Len(t) = 1 + Len(s) /\ t[1] = x
      /\ \A i \in 2..Len(t) : t[i] = s[i - 1]
  BY ConcatProperties
<1>2. t # <<>> /\ Head(t) = x
  BY <1>1
<1> HIDE DEF t
<1>3. Tail(t) \in Seq(S) /\ Len(Tail(t)) = Len(s) /\ \A i \in 1..Len(s) : Tail(t)[i] = s[i]
  BY <1>1, <1>2, HeadTailProperties
<1>4. Tail(t) = s
  BY <1>3, SeqEqual
<1> QED BY <1>2, <1>4 DEF t

\* Two steps before a sequence are one before one before it.
LEMMA FirstOfTwo ==
  ASSUME NEW S, NEW x \in S, NEW y \in S, NEW s \in Seq(S)
  PROVE  <<x, y>> \o s = <<x>> \o (<<y>> \o s)
<1>1. <<x>> \in Seq(S) /\ <<y>> \in Seq(S) /\ <<x, y>> \in Seq(S)
      /\ Len(<<x>>) = 1 /\ Len(<<y>>) = 1 /\ Len(<<x, y>>) = 2
  OBVIOUS
<1>2. /\ <<x>> \o <<y>> \in Seq(S) /\ Len(<<x>> \o <<y>>) = 2
      /\ (<<x>> \o <<y>>)[1] = x /\ (<<x>> \o <<y>>)[2] = y
  BY <1>1, ConcatProperties
<1>3. \A i \in 1..2 : (<<x>> \o <<y>>)[i] = <<x, y>>[i]
  BY <1>2
<1>4. <<x>> \o <<y>> = <<x, y>>
  BY <1>1, <1>2, <1>3, SeqEqual
<1>5. (<<x>> \o <<y>>) \o s = <<x>> \o (<<y>> \o s)
  BY <1>1, ConcatAssociative
<1> QED BY <1>4, <1>5

StepNames == {"upsert", "insertcmds", "counts", "status", "job", "devices", "cmds", "open", "write"}

\* The export, and what comes before it, are sequences of steps.
LEMMA ExportSteps ==
  /\ Export \in Seq(StepNames) /\ <<"insertcmds">> \o Export \in Seq(StepNames)
  /\ <<"status">> \o Export \in Seq(StepNames)
<1>1. /\ Export \in Seq(StepNames)
      /\ <<"insertcmds">> \in Seq(StepNames) /\ <<"status">> \in Seq(StepNames)
  BY DEF Export, StepNames
<1> QED BY <1>1, ConcatProperties

\* What is left of the export starts with what comes next.
LEMMA ExportHeads ==
  /\ Export # <<>> /\ Head(Export) = "job"
  /\ <<"devices", "cmds", "open", "write">> # <<>> /\ Head(<<"devices", "cmds", "open", "write">>) = "devices"
  /\ <<"cmds", "open", "write">> # <<>> /\ Head(<<"cmds", "open", "write">>) = "cmds"
  /\ <<"open", "write">> # <<>> /\ Head(<<"open", "write">>) = "open"
  /\ <<"write">> # <<>> /\ Head(<<"write">>) = "write"
BY DEF Export

\* Every method starts where TodoOK says.
LEMMA Begun ==
  ASSUME NEW o \in {"create", "running", "update", "complete", "failed", "cancelled"},
         todo' = Plan(o), op' = o
  PROVE  /\ TodoOK' /\ todo' # <<>>
         /\ Head(todo') = IF o = "update" THEN "upsert" ELSE IF o = "complete" THEN "counts"
                         ELSE "status"
<1>1. CASE o = "update"
  <2>1. todo' = <<"upsert">> \o (<<"insertcmds">> \o Export)
    BY <1>1, ExportSteps, FirstOfTwo DEF StepNames, Plan
  <2>2. todo' # <<>> /\ Head(todo') = "upsert"
    BY <2>1, ExportSteps, FirstStep DEF StepNames
  <2> QED BY <1>1, <2>1, <2>2 DEF TodoOK
<1>2. CASE o = "complete"
  <2>1. todo' = <<"counts">> \o (<<"status">> \o Export)
    BY <1>2, ExportSteps, FirstOfTwo DEF StepNames, Plan
  <2>2. todo' # <<>> /\ Head(todo') = "counts"
    BY <2>1, ExportSteps, FirstStep DEF StepNames
  <2> QED BY <1>2, <2>1, <2>2 DEF TodoOK
<1>3. CASE o \notin {"update", "complete"}
  <2>1. todo' = <<"status">> \o Export
    BY <1>3 DEF Plan
  <2>2. todo' # <<>> /\ Head(todo') = "status"
    BY <2>1, ExportSteps, FirstStep DEF StepNames
  <2> QED BY <1>3, <2>1, <2>2 DEF TodoOK
<1> QED BY <1>1, <1>2, <1>3

\* What step s of a method leaves to be done, and which method it is one of.
Follows(s) ==
  /\ s \in StepNames
  /\ s = "upsert"     => op = "update" /\ At("insertcmds")'
  /\ s = "insertcmds" => op = "update" /\ At("job")'
  /\ s = "counts"     => op = "complete" /\ At("status")'
  /\ s = "status"     => /\ op \in {"create", "running", "complete", "failed", "cancelled"}
                         /\ At("job")'
  /\ s = "job"        => At("devices")'
  /\ s = "devices"    => At("cmds")'
  /\ s = "cmds"       => At("open")'
  /\ s = "open"       => At("write")'
  /\ s = "write"      => todo' = <<>>

\* The steps of a method come in their order.
LEMMA StepOrder ==
  ASSUME TodoOK, todo # <<>>, todo' = Tail(todo), UNCHANGED op
  PROVE  TodoOK' /\ Follows(Head(todo))
<1>1. CASE todo \in ExportLeft
  <2> USE DEF Follows, At, StepNames
  <2>1. CASE todo = Export
    <3>1. Head(todo) = "job" /\ todo' = <<"devices", "cmds", "open", "write">>
      BY <2>1 DEF Export
    <3>2. todo' \in ExportLeft
      BY <3>1 DEF ExportLeft
    <3>3. todo' # <<>> /\ Head(todo') = "devices"
      BY <3>1, ExportHeads
    <3> QED BY <3>1, <3>2, <3>3 DEF TodoOK
  <2>2. CASE todo = <<"devices", "cmds", "open", "write">>
    <3>1. Head(todo) = "devices" /\ todo' = <<"cmds", "open", "write">>
      BY <2>2
    <3>2. todo' \in ExportLeft
      BY <3>1 DEF ExportLeft
    <3>3. todo' # <<>> /\ Head(todo') = "cmds"
      BY <3>1, ExportHeads
    <3> QED BY <3>1, <3>2, <3>3 DEF TodoOK
  <2>3. CASE todo = <<"cmds", "open", "write">>
    <3>1. Head(todo) = "cmds" /\ todo' = <<"open", "write">>
      BY <2>3
    <3>2. todo' \in ExportLeft
      BY <3>1 DEF ExportLeft
    <3>3. todo' # <<>> /\ Head(todo') = "open"
      BY <3>1, ExportHeads
    <3> QED BY <3>1, <3>2, <3>3 DEF TodoOK
  <2>4. CASE todo = <<"open", "write">>
    <3>1. Head(todo) = "open" /\ todo' = <<"write">>
      BY <2>4
    <3>2. todo' \in ExportLeft
      BY <3>1 DEF ExportLeft
    <3>3. todo' # <<>> /\ Head(todo') = "write"
      BY <3>1, ExportHeads
    <3> QED BY <3>1, <3>2, <3>3 DEF TodoOK
  <2>5. CASE todo = <<"write">>
    <3>1. Head(todo) = "write" /\ todo' = <<>>
      BY <2>5
    <3>2. todo' \in ExportLeft
      BY <3>1 DEF ExportLeft
    <3> QED BY <3>1, <3>2 DEF TodoOK
  <2> QED BY <1>1, <2>1, <2>2, <2>3, <2>4, <2>5 DEF ExportLeft
<1>2. CASE op = "update" /\ todo = <<"upsert">> \o (<<"insertcmds">> \o Export)
  <2>1. Head(todo) = "upsert" /\ todo' = <<"insertcmds">> \o Export
    BY <1>2, ExportSteps, FirstStep DEF StepNames
  <2>2. todo' # <<>> /\ Head(todo') = "insertcmds"
    BY <2>1, ExportSteps, FirstStep DEF StepNames
  <2> QED BY <1>2, <2>1, <2>2 DEF TodoOK, Follows, At, StepNames
<1>3. CASE op = "update" /\ todo = <<"insertcmds">> \o Export
  <2>1. Head(todo) = "insertcmds" /\ todo' = Export
    BY <1>3, ExportSteps, FirstStep DEF StepNames
  <2>2. todo' # <<>> /\ Head(todo') = "job"
    BY <2>1, ExportHeads
  <2> QED BY <1>3, <2>1, <2>2 DEF TodoOK, ExportLeft, Follows, At, StepNames
<1>4. CASE op = "complete" /\ todo = <<"counts">> \o (<<"status">> \o Export)
  <2>1. Head(todo) = "counts" /\ todo' = <<"status">> \o Export
    BY <1>4, ExportSteps, FirstStep DEF StepNames
  <2>2. todo' # <<>> /\ Head(todo') = "status"
    BY <2>1, ExportSteps, FirstStep DEF StepNames
  <2> QED BY <1>4, <2>1, <2>2 DEF TodoOK, Follows, At, StepNames
<1>5. CASE /\ op \in {"create", "running", "complete", "failed", "cancelled"}
           /\ todo = <<"status">> \o Export
  <2>1. Head(todo) = "status" /\ todo' = Export
    BY <1>5, ExportSteps, FirstStep DEF StepNames
  <2>2. todo' # <<>> /\ Head(todo') = "job"
    BY <2>1, ExportHeads
  <2> QED BY <1>5, <2>1, <2>2 DEF TodoOK, ExportLeft, Follows, At, StepNames
<1> QED BY <1>1, <1>2, <1>3, <1>4, <1>5 DEF TodoOK

-----------------------------------------------------------------------------
(* Types                                                                   *)

\* mark_complete always decides on a terminal status.
LEMMA VerdictIsTerminal ==
  ASSUME NEW R, NEW codes PROVE Verdict(R, codes) \in Terminal
BY DEF Verdict, Terminal

\* Counts of devices are numbers.
LEMMA CountsAreNumbers ==
  ASSUME NEW R \in Rows PROVE Counts(R) \in [success : Nat, failed : Nat]
<1> DEFINE O == Outcomes(R)
<1>1. \A v : WithRow(O, v) \subseteq Devices
  BY DEF WithRow, Outcomes
<1>2. \A v : IsFiniteSet(WithRow(O, v))
  BY <1>1, StoreAssumption, FS_Subset DEF StoreAssumption
<1>3. \A v : Cardinality(WithRow(O, v)) \in Nat
  BY <1>2, FS_CardinalityType
<1> QED BY <1>3 DEF Counts

\* The empty snapshot is a snapshot, and a request that does nothing has the
\* shape of a request.
LEMMA BlankType ==
  Blank \in Snapshot /\ Blank.rows \in Rows /\ Blank.commands \in [Devices -> 0..MaxUpdates]
  /\ Blank.status = "absent" /\ Idle \in ReaderType
<1>1. MaxUpdates \in Nat
  BY StoreAssumption DEF StoreAssumption
<1>2. /\ Blank.rows \in Rows /\ Blank.commands \in [Devices -> 0..MaxUpdates]
      /\ Blank.status = "absent"
  BY <1>1 DEF Blank, Rows, NoRow, Row
<1>3. Blank = [status |-> Blank.status, rows |-> Blank.rows, commands |-> Blank.commands]
  BY DEF Blank
<1>4. Blank \in Snapshot
  BY <1>2, <1>3 DEF Snapshot, Statuses
<1>5. Counts(Blank.rows) \in [success : Nat, failed : Nat]
  BY <1>2, CountsAreNumbers
<1>6. Idle \in ReaderType
  BY <1>4, <1>5 DEF Idle, ReaderType, StatusLeft
<1> QED BY <1>2, <1>4, <1>6

\* A step of a method leaves requests and script alone, and the next step is
\* the one that follows.
LEMMA Doing ==
  ASSUME TodoOK, NEW s, Do(s), UNCHANGED op
  PROVE  TodoOK' /\ Follows(s) /\ At(s)
<1>1. todo # <<>> /\ Head(todo) = s /\ todo' = Tail(todo)
  BY DEF Do
<1> QED BY <1>1, StepOrder DEF At

\* What the job's thread may call.
LEMMA CallerTypes ==
  ASSUME Types, Caller PROVE Types'
<1> USE DEF Types, database, export, others
<1>1. ASSUME NEW o \in {"create", "running", "update", "complete", "failed", "cancelled"},
             NEW s \in Statuses, Begin(o, s)
      PROVE  /\ TodoOK' /\ op' = o /\ target' \in Statuses
             /\ UNCHANGED <<status, rows, commands, snap, file, reader, client, failures>>
  BY <1>1, Begun DEF Begin
<1>2. CASE Create \/ MarkRunning \/ MarkComplete \/ MarkCancelled
  BY <1>1, <1>2 DEF Create, MarkRunning, MarkComplete, MarkCancelled, Statuses, Active, Terminal
<1>3. CASE MarkFailed
  BY <1>1, <1>3 DEF MarkFailed, Statuses, Terminal
<1>4. CASE \E r \in Results : UpdateDevice(r)
  BY <1>1, <1>4 DEF UpdateDevice
<1> QED BY <1>2, <1>3, <1>4 DEF Caller

\* What it does then.
LEMMA WorkerTypes ==
  ASSUME Types, Called, Worker PROVE Types'
<1> USE DEF Types, database, calls, export, others
<1>1. CASE WriteStatus
  BY <1>1, Doing DEF WriteStatus, Do
<1>2. CASE Upsert
  <2>1. TodoOK' /\ result \in Results
    BY <1>2, Doing DEF Upsert, Follows, Called
  <2>2. rows' \in Rows
    BY <1>2, <2>1 DEF Upsert, Rows, Results, Row
  <2> QED BY <1>2, <2>1, <2>2 DEF Upsert, Do
<1>3. CASE InsertCommands
  <2>1. TodoOK' /\ result \in Results
    BY <1>3, Doing DEF InsertCommands, Follows, Called
  <2>2. commands' \in [Devices -> 0..MaxUpdates]
    BY <1>3, <2>1, StoreAssumption DEF InsertCommands, Results, StoreAssumption
  <2> QED BY <1>3, <2>1, <2>2 DEF InsertCommands, Do
<1>4. CASE ReadCounts
  BY <1>4, Doing, VerdictIsTerminal DEF ReadCounts, Do, Statuses
<1>5. ASSUME NEW s \in {"job", "devices", "cmds"}, Snap(s) PROVE Types'
  <2>1. snap' \in Snapshot
    BY <1>5 DEF Snap, Snapshot
  <2> QED BY <1>5, <2>1, Doing DEF Snap, Do
<1>6. CASE OpenFile
  BY <1>6, Doing, BlankType DEF OpenFile, Do, FileType
<1>7. CASE WriteFile
  BY <1>7, Doing, BlankType DEF WriteFile, Do, FileType
<1> QED BY <1>1, <1>2, <1>3, <1>4, <1>5, <1>6, <1>7 DEF Worker

\* What may fail.
LEMMA FaultTypes ==
  ASSUME Types, ReadBackFault \/ StepFault \/ Restart PROVE Types'
<1> USE DEF Types, database, calls, export, others
<1>1. ASSUME Fails PROVE failures' \in 0..MaxFailures /\ failures' > 0
  BY <1>1, StoreAssumption DEF Fails, StoreAssumption
<1>2. CASE ReadBackFault
  BY <1>1, <1>2 DEF ReadBackFault, TodoOK
<1>3. CASE StepFault
  BY <1>1, <1>3, BlankType DEF StepFault, TodoOK, ExportLeft
<1>4. CASE Restart
  BY <1>1, <1>4, BlankType DEF Restart, TodoOK, ExportLeft
<1> QED BY <1>2, <1>3, <1>4

\* What a request has still to read, by what it reads next.
LEMMA ReadOrder ==
  /\ <<"job", "counts">> # <<>> /\ Head(<<"job", "counts">>) = "job"
  /\ Tail(<<"job", "counts">>) = <<"counts">>
  /\ <<"counts">> # <<>> /\ Head(<<"counts">>) = "counts" /\ Tail(<<"counts">>) = <<>>
  /\ Head(<<"job", "devices", "cmds", "counts">>) = "job"
  /\ Tail(<<"job", "devices", "cmds", "counts">>) = <<"devices", "cmds", "counts">>
  /\ Head(<<"devices", "cmds", "counts">>) = "devices"
  /\ Tail(<<"devices", "cmds", "counts">>) = <<"cmds", "counts">>
  /\ Head(<<"cmds", "counts">>) = "cmds" /\ Tail(<<"cmds", "counts">>) = <<"counts">>
  /\ <<"cmds", "counts">> # <<>> /\ <<"devices", "cmds", "counts">> # <<>>
  /\ <<"job", "devices", "cmds", "counts">> # <<>>
OBVIOUS

\* The four things a request may be about to read.
LEMMA Leaves ==
  ASSUME NEW l \in StatusLeft \cup DetailLeft, l # <<>>
  PROVE  /\ \/ Head(l) = "job" /\ l = <<"job", "counts">> /\ Tail(l) = <<"counts">>
            \/ /\ Head(l) = "job" /\ l = <<"job", "devices", "cmds", "counts">>
               /\ Tail(l) = <<"devices", "cmds", "counts">>
            \/ /\ Head(l) = "devices" /\ l = <<"devices", "cmds", "counts">>
               /\ Tail(l) = <<"cmds", "counts">>
            \/ Head(l) = "cmds" /\ l = <<"cmds", "counts">> /\ Tail(l) = <<"counts">>
            \/ Head(l) = "counts" /\ l = <<"counts">> /\ Tail(l) = <<>>
         /\ Tail(l) \in StatusLeft \cup DetailLeft
         /\ l \in StatusLeft => Tail(l) \in StatusLeft
         /\ l \in DetailLeft => Tail(l) \in DetailLeft
<1>1. CASE l = <<"job", "counts">>
  BY <1>1, ReadOrder DEF StatusLeft, DetailLeft
<1>2. CASE l = <<"counts">>
  BY <1>2, ReadOrder DEF StatusLeft, DetailLeft
<1>3. CASE l = <<"job", "devices", "cmds", "counts">>
  BY <1>3, ReadOrder DEF StatusLeft, DetailLeft
<1>4. CASE l = <<"devices", "cmds", "counts">>
  BY <1>4, ReadOrder DEF StatusLeft, DetailLeft
<1>5. CASE l = <<"cmds", "counts">>
  BY <1>5, ReadOrder DEF StatusLeft, DetailLeft
<1> QED BY <1>1, <1>2, <1>3, <1>4, <1>5 DEF StatusLeft, DetailLeft

RequestFrame(r) ==
  /\ UNCHANGED <<database, calls, todo, export, client, failures>>
  /\ \A q \in Readers \ {r} : reader'[q] = reader[q]

\* What a request reads.
LEMMA RequestTypes ==
  ASSUME Types, NEW r \in Readers, Request(r)
  PROVE  Types' /\ RequestFrame(r)
<1> DEFINE me == reader[r]
<1>1. ASSUME NEW new \in ReaderType, reader' = [reader EXCEPT ![r] = new],
             UNCHANGED <<database, calls, todo, export, client, failures>>
      PROVE  Types' /\ RequestFrame(r)
  BY <1>1 DEF database, calls, export, TodoOK, Types, RequestFrame
<1>2. me \in ReaderType
  BY DEF Types
<1>3. ASSUME NEW new \in ReaderType, new.left # <<>>, Got(r, new)
      PROVE  Types' /\ RequestFrame(r)
  <2>1. Tail(new.left) \in StatusLeft \cup DetailLeft
    BY <1>3, Leaves DEF ReaderType
  <2>2. [new EXCEPT !.left = Tail(@)] \in ReaderType
    BY <1>3, <2>1 DEF ReaderType
  <2> QED BY <1>1, <1>3, <2>2 DEF Got
<1>4. CASE \E o \in {"status", "detail"} : Ask(r, o)
  <2>1. PICK o \in {"status", "detail"} : Ask(r, o)
    BY <1>4
  <2>2. [Idle EXCEPT !.op = o, !.left = Reads(o)] \in ReaderType
    BY BlankType DEF ReaderType, Reads, StatusLeft, DetailLeft
  <2> QED BY <1>1, <2>1, <2>2 DEF Ask
<1>5. CASE GetJob(r)
  <2>1. [me EXCEPT !.data.status = status] \in ReaderType
    BY <1>2 DEF Types, ReaderType, Snapshot
  <2>2. me.left # <<>>
    BY <1>5 DEF GetJob, Reading
  <2>3. [me EXCEPT !.data.status = status].left = me.left
    BY <1>2 DEF ReaderType
  <2> QED BY <1>1, <1>3, <1>5, <2>1, <2>2, <2>3, BlankType DEF GetJob
<1>6. CASE GetDevices(r)
  <2> DEFINE new == [me EXCEPT !.data.rows = rows, !.unread = {d \in Devices : rows[d] # NoRow}]
  <2>1. new \in ReaderType
    BY <1>2 DEF Types, ReaderType, Snapshot
  <2>2. new.left = me.left /\ me.left # <<>>
    BY <1>2, <1>6 DEF GetDevices, Reading, ReaderType
  <2> QED BY <1>3, <1>6, <2>1, <2>2 DEF GetDevices
<1>7. CASE GetCommands(r)
  <2>1. CASE Got(r, me)
    BY <1>2, <1>3, <1>7, <2>1 DEF GetCommands, Reading
  <2>2. ASSUME NEW d \in me.unread,
               reader' = [reader EXCEPT ![r].unread = @ \ {d},
                                        ![r].data.commands[d] = commands[d]],
               UNCHANGED <<database, calls, todo, export, client, failures>>
        PROVE  Types' /\ RequestFrame(r)
    <3> DEFINE new == [me EXCEPT !.unread = @ \ {d}, !.data.commands[d] = commands[d]]
    <3>1. new \in ReaderType
      BY <1>2 DEF Types, ReaderType, Snapshot
    <3>2. reader' = [reader EXCEPT ![r] = new]
      BY <1>2, <2>2 DEF Types
    <3> HIDE DEF new
    <3> QED BY <1>1, <2>2, <3>1, <3>2
  <2> QED BY <1>7, <2>1, <2>2 DEF GetCommands
<1>8. CASE GetCounts(r)
  <2>1. Counts(rows) \in [success : Nat, failed : Nat]
    BY CountsAreNumbers DEF Types
  <2>2. [me EXCEPT !.counts = Counts(rows)] \in ReaderType
    BY <1>2, <2>1 DEF ReaderType
  <2>3. [me EXCEPT !.counts = Counts(rows)].left = me.left /\ me.left # <<>>
    BY <1>2, <1>8 DEF GetCounts, Reading, ReaderType
  <2> QED BY <1>3, <1>8, <2>2, <2>3 DEF GetCounts
<1>9. CASE Close(r)
  BY <1>1, <1>9, BlankType DEF Close
<1> QED BY <1>4, <1>5, <1>6, <1>7, <1>8, <1>9 DEF Request

\* What the script does.
LEMMA ScriptTypes ==
  ASSUME Types, Script
  PROVE  Types' /\ UNCHANGED <<database, calls, todo, export, reader, failures>>
<1>1. ASSUME NEW from, NEW new \in ClientType, Move(from, new)
      PROVE  Types' /\ UNCHANGED <<database, calls, todo, export, reader, failures>>
  BY <1>1 DEF Move, Types, TodoOK, database, calls, export
<1>2. client \in ClientType /\ status \in Statuses /\ file \in FileType /\ MaxPolls \in Nat
  BY StoreAssumption DEF Types, StoreAssumption
<1>3. CASE Accepted
  BY <1>1, <1>2, <1>3 DEF Accepted, ClientType
<1>4. CASE Poll
  <2>1. PICK s \in {status, client.seen} :
          Move("poll", [client EXCEPT !.polls = @ + 1, !.seen = s])
    BY <1>4 DEF Poll
  <2>2. client.polls + 1 \in 0..MaxPolls /\ s \in Statuses
    BY <1>2, <1>4 DEF Poll, ClientType
  <2>3. [client EXCEPT !.polls = @ + 1, !.seen = s] \in ClientType
    BY <1>2, <2>2 DEF ClientType
  <2> QED BY <1>1, <2>1, <2>3
<1>5. CASE PollEnd
  BY <1>1, <1>2, <1>5 DEF PollEnd, ClientType
<1>6. CASE Download
  <2>1. PICK f \in {file, [state |-> "absent", data |-> Blank]} :
          Move("download", [client EXCEPT !.at = "exit", !.saved = f])
    BY <1>6 DEF Download
  <2>2. f \in FileType
    BY <1>2, BlankType DEF FileType
  <2>3. [client EXCEPT !.at = "exit", !.saved = f] \in ClientType
    BY <1>2, <2>2 DEF ClientType
  <2> QED BY <1>1, <2>1, <2>3
<1> QED BY <1>3, <1>4, <1>5, <1>6 DEF Script

-----------------------------------------------------------------------------
(* Methods                                                                 *)

\* A job that has ended stays ended, and its results no longer change.
LEMMA EndIsFinal ==
  ASSUME Types, Called, [Next]_vars, status \in Terminal
  PROVE  status' \in Terminal /\ rows' = rows /\ commands' = commands
<1> USE DEF database, calls, export, others
<1>1. status \notin Active /\ status # "absent" /\ "failed" \in Terminal /\ "cancelled" \in Terminal
  BY DEF Terminal, Active
<1>2. CASE Caller \/ ReadBackFault \/ StepFault \/ Restart
  BY <1>2 DEF Caller, Create, MarkRunning, MarkComplete, MarkCancelled, MarkFailed,
              UpdateDevice, Begin, ReadBackFault, StepFault, Restart
<1>3. CASE WriteStatus
  <2>1. At("status") /\ op \in {"create", "running", "complete", "failed", "cancelled"}
    BY <1>3, Doing DEF WriteStatus, Follows, Types
  <2>2. target \in Terminal
    BY <1>1, <2>1, VerdictIsTerminal DEF Called, Active
  <2> QED BY <1>3, <2>2 DEF WriteStatus
<1>4. CASE Upsert \/ InsertCommands
  <2>1. op = "update"
    BY <1>4, Doing DEF Upsert, InsertCommands, Follows, Types
  <2> QED BY <1>1, <2>1 DEF Called, Active
<1>5. CASE ReadCounts \/ OpenFile \/ WriteFile \/ \E s \in {"job", "devices", "cmds"} : Snap(s)
  BY <1>5 DEF ReadCounts, OpenFile, WriteFile, Snap
<1>6. CASE \E r \in Readers : Request(r)
  BY <1>6, RequestTypes DEF RequestFrame
<1>7. CASE Script
  BY <1>7, ScriptTypes
<1>8. CASE UNCHANGED vars
  BY <1>8 DEF vars
<1> QED BY <1>2, <1>3, <1>4, <1>5, <1>6, <1>7, <1>8 DEF Next, Worker

\* Nothing but the job's thread is at work on a method.
LEMMA CalledByOthers ==
  ASSUME Types, Called, UNCHANGED <<database, calls, todo, failures>>
  PROVE  Called'
BY DEF Called, At, database, calls

\* What the thread calls, it calls on the status it is meant for.
LEMMA CallerCalled ==
  ASSUME Types, Called, Caller PROVE Called'
<1> USE DEF database, export, others, Active, Terminal
<1>1. ASSUME NEW o \in {"create", "running", "update", "complete", "failed", "cancelled"},
             NEW s, Begin(o, s)
      PROVE  /\ op' = o /\ target' = s /\ todo = <<>>
             /\ Head(todo') = IF o = "update" THEN "upsert" ELSE IF o = "complete" THEN "counts"
                              ELSE "status"
             /\ UNCHANGED <<status, rows, failures>>
  BY <1>1, Begun DEF Begin
<1>2. CASE Create
  BY <1>1, <1>2 DEF Create, Called, At
<1>3. CASE MarkRunning
  BY <1>1, <1>3 DEF MarkRunning, Called, At
<1>4. CASE MarkComplete
  BY <1>1, <1>4 DEF MarkComplete, Called, At
<1>5. CASE MarkCancelled
  BY <1>1, <1>5 DEF MarkCancelled, Called, At
<1>6. CASE MarkFailed
  BY <1>1, <1>6 DEF MarkFailed, Called, At, Types
<1>7. CASE \E r \in Results : UpdateDevice(r)
  BY <1>1, <1>7 DEF UpdateDevice, Called, At
<1> QED BY <1>2, <1>3, <1>4, <1>5, <1>6, <1>7 DEF Caller

\* Between its steps a method finds what it found before.
LEMMA WorkerCalled ==
  ASSUME Types, Called, Worker PROVE Called'
<1> USE DEF database, calls, export, others
<1>1. TodoOK
  BY DEF Types
<1>2. CASE WriteStatus
  <2>1. At("status") /\ op \in {"create", "running", "complete", "failed", "cancelled"}
        /\ At("job")'
    BY <1>1, <1>2, Doing DEF WriteStatus, Follows
  <2>2. Head(todo') = "job" /\ UNCHANGED <<op, target, result, thread, failures>> /\ status' = target
    BY <1>2, <2>1 DEF WriteStatus, Do, At
  <2> QED BY <2>1, <2>2 DEF Called, At
<1>3. CASE Upsert \/ InsertCommands
  <2>1. op = "update" /\ (At("insertcmds")' \/ At("job")')
    BY <1>1, <1>3, Doing DEF Upsert, InsertCommands, Follows
  <2>2. UNCHANGED <<status, calls, failures>>
    BY <1>3 DEF Upsert, InsertCommands, Do
  <2> QED BY <2>1, <2>2 DEF Called, At
<1>4. CASE ReadCounts
  <2>1. At("counts") /\ op = "complete" /\ At("status")'
    BY <1>1, <1>4, Doing DEF ReadCounts, Follows
  <2>2. /\ UNCHANGED <<status, rows, op, result, thread, failures>>
        /\ target' = Verdict(Outcomes(rows), {}) /\ Outcomes(rows)' = Outcomes(rows)
    BY <1>4 DEF ReadCounts, Do, Outcomes
  <2> QED BY <2>1, <2>2 DEF Called, At
<1>5. CASE OpenFile \/ WriteFile \/ \E s \in {"job", "devices", "cmds"} : Snap(s)
  <2>1. todo' = <<>> \/ Head(todo') \in {"devices", "cmds", "open", "write"}
    BY <1>1, <1>5, Doing DEF OpenFile, WriteFile, Snap, Follows, At
  <2>2. UNCHANGED <<status, rows, calls, failures>>
    BY <1>5 DEF OpenFile, WriteFile, Snap, Do
  <2> QED BY <2>1, <2>2 DEF Called, At
<1> QED BY <1>2, <1>3, <1>4, <1>5 DEF Worker

\* A method that fails has not begun anything it would have to finish.
LEMMA FaultCalled ==
  ASSUME Types, Called, ReadBackFault \/ StepFault \/ Restart PROVE Called'
<1>1. /\ todo' = <<>> /\ UNCHANGED <<database, op, target, result>>
      /\ failures' > 0
  BY StoreAssumption DEF ReadBackFault, StepFault, Restart, Fails, Types, StoreAssumption
<1> QED BY <1>1 DEF Called, At, database

-----------------------------------------------------------------------------
(* Rows, commands and the export                                           *)

\* A result's row is there before its commands are.
LEMMA RowsFirstKept ==
  ASSUME Types, Called, RowsFirst, Worker PROVE RowsFirst'
<1> USE DEF database, calls, export, others
<1>1. TodoOK
  BY DEF Types
<1>2. CASE Upsert
  <2>1. op = "update" /\ result \in Results
    BY <1>1, <1>2, Doing DEF Upsert, Follows, Called
  <2>2. result.n \in 1..MaxUpdates /\ result.host \in Devices /\ MaxUpdates \in Nat
    BY <2>1, StoreAssumption DEF Results, StoreAssumption
  <2>3. [outcome |-> result.outcome, n |-> result.n] # NoRow
    BY <2>2 DEF NoRow
  <2>4. \A d \in Devices : rows[d] # NoRow => rows'[d] # NoRow
    BY <1>2, <2>3 DEF Upsert, Types, Rows
  <2>5. rows'[result.host] # NoRow
    BY <1>2, <2>2, <2>3 DEF Upsert, Types, Rows
  <2> QED BY <1>2, <2>4, <2>5 DEF Upsert, RowsFirst
<1>3. CASE InsertCommands
  <2>1. At("insertcmds") /\ At("job")' /\ result \in Results
    BY <1>1, <1>3, Doing DEF InsertCommands, Follows, Called
  <2>2. \A d \in Devices : d # result.host => commands'[d] = commands[d]
    BY <1>3 DEF InsertCommands, Types
  <2> QED BY <1>3, <2>1, <2>2 DEF InsertCommands, RowsFirst, At
<1>4. CASE \/ WriteStatus \/ ReadCounts \/ OpenFile \/ WriteFile
           \/ \E s \in {"job", "devices", "cmds"} : Snap(s)
  <2>1. UNCHANGED <<rows, commands, result>>
    BY <1>4 DEF WriteStatus, ReadCounts, OpenFile, WriteFile, Snap
  <2>2. ~At("insertcmds")'
    BY <1>1, <1>4, Doing DEF WriteStatus, ReadCounts, OpenFile, WriteFile, Snap, Follows, At
  <2> QED BY <2>1, <2>2 DEF RowsFirst
<1> QED BY <1>2, <1>3, <1>4 DEF Worker

\* The export reads rows and commands that are not changed before it is written.
LEMMA ExportedKept ==
  ASSUME Types, Called, Exported, Worker PROVE Exported'
<1> USE DEF database, calls, export, others, Undisturbed
<1>1. TodoOK /\ snap \in Snapshot /\ snap' \in Snapshot
  BY WorkerTypes DEF Types
<1>2. CASE Upsert \/ InsertCommands
  <2>1. op' = "update" /\ todo' # <<>> /\ Head(todo') \in {"insertcmds", "job"}
    BY <1>1, <1>2, Doing DEF Upsert, InsertCommands, Follows, At
  <2> QED BY <1>2, <2>1 DEF Upsert, InsertCommands, Exported, At
<1>3. CASE WriteStatus \/ ReadCounts
  <2>1. op # "update" /\ Head(todo') \in {"job", "status"}
    BY <1>1, <1>3, Doing DEF WriteStatus, ReadCounts, Follows, At
  <2>2. UNCHANGED <<rows, commands, op, file, snap, failures>>
    BY <1>3 DEF WriteStatus, ReadCounts, Do
  <2> QED BY <2>1, <2>2 DEF Exported, At
<1>4. ASSUME NEW s \in {"job", "devices", "cmds"}, Snap(s) PROVE Exported'
  <2>1. UNCHANGED <<rows, commands, op, file, failures>> /\ todo # <<>> /\ Head(todo) = s
    BY <1>4 DEF Snap, Do
  <2>2. CASE s = "job"
    <3>1. At("devices")'
      BY <1>1, <1>4, <2>2, Doing DEF Snap, Follows
    <3> QED BY <2>1, <3>1 DEF Exported, At
  <2>3. CASE s = "devices"
    <3>1. At("cmds")'
      BY <1>1, <1>4, <2>3, Doing DEF Snap, Follows
    <3>2. snap'.rows = rows
      BY <1>1, <1>4, <2>3 DEF Snap, Snapshot
    <3> QED BY <2>1, <3>1, <3>2 DEF Exported, At
  <2>4. CASE s = "cmds"
    <3>1. At("open")' /\ At("cmds")
      BY <1>1, <1>4, <2>4, Doing DEF Snap, Follows
    <3>2. snap'.rows = snap.rows /\ snap'.commands = commands
      BY <1>1, <1>4, <2>4 DEF Snap, Snapshot
    <3> QED BY <2>1, <3>1, <3>2 DEF Exported, At
  <2> QED BY <1>4, <2>2, <2>3, <2>4
<1>5. CASE OpenFile
  <2>1. At("write")' /\ At("open")
    BY <1>1, <1>5, Doing DEF OpenFile, Follows
  <2>2. UNCHANGED <<rows, commands, snap>> /\ file'.state = "torn"
    BY <1>5 DEF OpenFile
  <2> QED BY <2>1, <2>2 DEF Exported, At
<1>6. CASE WriteFile
  <2>1. todo' = <<>> /\ At("write")
    BY <1>1, <1>6, Doing DEF WriteFile, Follows
  <2>2. UNCHANGED <<rows, commands>> /\ file'.data = snap
    BY <1>6 DEF WriteFile
  <2> QED BY <2>1, <2>2 DEF Exported, At
<1> QED BY <1>2, <1>3, <1>4, <1>5, <1>6 DEF Worker

\* Calls and failures change neither rows nor commands.
LEMMA CallsKeepRows ==
  ASSUME Types, RowsFirst, Exported, Caller \/ ReadBackFault \/ StepFault \/ Restart
  PROVE  RowsFirst' /\ Exported'
<1> USE DEF database, export, others, Undisturbed
<1>1. ASSUME NEW o \in {"create", "running", "update", "complete", "failed", "cancelled"},
             NEW s, Begin(o, s)
      PROVE  RowsFirst' /\ Exported'
  <2>1. UNCHANGED <<rows, commands, file, failures>> /\ todo = <<>>
        /\ todo' # <<>> /\ Head(todo') \in {"upsert", "counts", "status"}
    BY <1>1, Begun DEF Begin
  <2> QED BY <2>1 DEF RowsFirst, Exported, At
<1>2. CASE Caller
  BY <1>1, <1>2 DEF Caller, Create, MarkRunning, MarkComplete, MarkCancelled, MarkFailed,
                    UpdateDevice
<1>3. CASE ReadBackFault \/ StepFault \/ Restart
  <2>1. todo' = <<>> /\ UNCHANGED <<rows, commands>> /\ failures' > 0
    BY <1>3, StoreAssumption DEF ReadBackFault, StepFault, Restart, Fails, Types, StoreAssumption
  <2> QED BY <2>1 DEF RowsFirst, Exported, At
<1> QED BY <1>2, <1>3

-----------------------------------------------------------------------------
(* Requests and the script                                                 *)

\* What a request has read stays final whatever the job does.
LEMMA FinalKept ==
  ASSUME Types, Called, [Next]_vars, NEW r \in Readers, Final(r), reader'[r] = reader[r]
  PROVE  Final(r)'
<1>1. status \in Terminal => status' \in Terminal /\ rows' = rows /\ commands' = commands
  BY EndIsFinal
<1> QED BY <1>1 DEF Final

\* What is left of a request tells where it is.
LEMMA LeftDiffer ==
  /\ <<"counts">> # <<>> /\ <<"cmds", "counts">> # <<>> /\ <<"devices", "cmds", "counts">> # <<>>
  /\ <<"counts">> \notin {<<"cmds", "counts">>, <<"devices", "cmds", "counts">>, <<"job", "counts">>,
                          <<"job", "devices", "cmds", "counts">>}
  /\ <<"cmds", "counts">> \notin {<<"devices", "cmds", "counts">>, <<"job", "counts">>,
                                  <<"job", "devices", "cmds", "counts">>}
  /\ <<"devices", "cmds", "counts">> \notin {<<"job", "counts">>,
                                             <<"job", "devices", "cmds", "counts">>}
  /\ <<"cmds", "counts">> \notin StatusLeft /\ <<"devices", "cmds", "counts">> \notin StatusLeft
  /\ <<"counts">> \in StatusLeft /\ <<"counts">> \in DetailLeft
  /\ <<"cmds", "counts">> \in DetailLeft /\ <<"devices", "cmds", "counts">> \in DetailLeft
  /\ <<"job", "devices", "cmds", "counts">> \notin StatusLeft /\ <<"job", "counts">> \notin DetailLeft
  /\ <<>> \notin {<<"job", "counts">>, <<"job", "devices", "cmds", "counts">>}
BY ReadOrder DEF StatusLeft, DetailLeft

\* A request reads the job row first.
LEMMA FinalRead ==
  ASSUME Types, RowsFirst, NEW r \in Readers, Final(r), Request(r)
  PROVE  Final(r)'
<1> DEFINE me == reader[r]
<1>1. /\ UNCHANGED <<status, rows, commands>> /\ me \in ReaderType
      /\ Counts(rows)' = Counts(rows) /\ reader \in [Readers -> ReaderType] /\ reader'[r] \in ReaderType
      /\ status \in Statuses
  BY RequestTypes DEF Types, RequestFrame, database, Counts, Outcomes
<1>2. Idle.data.status \notin Terminal /\ Idle.op = "idle" /\ Idle.data = Blank
      /\ Idle.left = <<>>
  BY BlankType DEF Idle, Terminal
<1>3. CASE reader' = [reader EXCEPT ![r] = Idle]
  BY <1>1, <1>2, <1>3, ReadOrder DEF Final
<1>4. CASE \E o \in {"status", "detail"} : Ask(r, o)
  <2>1. PICK o \in {"status", "detail"} : Ask(r, o)
    BY <1>4
  <2>2. /\ reader'[r].op = o /\ reader'[r].left = Reads(o) /\ reader'[r].data = Blank
        /\ reader'[r].unread = {}
    BY <1>1, <1>2, <2>1 DEF Ask, Idle
  <2> QED BY <2>1, <2>2, BlankType DEF Final, Reads, StatusLeft, DetailLeft, Terminal
<1>5. CASE GetJob(r) /\ status # "absent"
  <2> DEFINE new == [me EXCEPT !.data.status = status]
  <2>1. /\ new.op = me.op /\ new.left = me.left /\ new.unread = me.unread
        /\ new.data.commands = me.data.commands /\ new.data.status = status
        /\ new \in ReaderType
    BY <1>1 DEF ReaderType, Snapshot
  <2>2. reader' = [reader EXCEPT ![r] = [new EXCEPT !.left = Tail(@)]]
        /\ me.left # <<>> /\ Head(me.left) = "job"
    BY <1>5 DEF GetJob, Got, Reading
  <2> HIDE DEF new
  <2>3. /\ reader'[r].op = me.op /\ reader'[r].left = Tail(me.left)
        /\ reader'[r].unread = me.unread
        /\ reader'[r].data.commands = me.data.commands /\ reader'[r].data.status = status
    BY <1>1, <2>1, <2>2 DEF ReaderType
  <2>4. \/ me.left = <<"job", "counts">> /\ reader'[r].left = <<"counts">>
        \/ /\ me.left = <<"job", "devices", "cmds", "counts">>
           /\ reader'[r].left = <<"devices", "cmds", "counts">>
    BY <1>1, <2>2, <2>3, Leaves DEF ReaderType
  <2>5. me.op # "idle"
    BY <1>2, <2>2 DEF Final
  <2>6. CASE me.left = <<"job", "counts">>
    <3>1. me.op = "status" /\ reader'[r].left = <<"counts">>
      BY <1>1, <2>4, <2>5, <2>6, LeftDiffer DEF Final, ReaderType
    <3> QED BY <1>1, <2>3, <3>1, LeftDiffer DEF Final
  <2>7. CASE me.left = <<"job", "devices", "cmds", "counts">>
    <3>1. me.op = "detail" /\ reader'[r].left = <<"devices", "cmds", "counts">>
      BY <1>1, <2>4, <2>5, <2>7, LeftDiffer DEF Final, ReaderType
    <3> QED BY <1>1, <2>3, <2>7, <3>1, LeftDiffer DEF Final
  <2> QED BY <2>4, <2>6, <2>7
<1>6. CASE GetDevices(r)
  <2>1. /\ reader'[r].op = me.op /\ reader'[r].left = Tail(me.left)
        /\ reader'[r].data.commands = me.data.commands
        /\ reader'[r].data.status = me.data.status
        /\ reader'[r].data.rows = rows
        /\ reader'[r].unread = {d \in Devices : rows[d] # NoRow}
    BY <1>1, <1>6 DEF GetDevices, Got, ReaderType, Snapshot
  <2>2. /\ me.left = <<"devices", "cmds", "counts">>
        /\ reader'[r].left = <<"cmds", "counts">>
    BY <1>1, <1>6, <2>1, Leaves DEF GetDevices, Reading, ReaderType
  <2>3. me.op = "detail"
    BY <1>1, <1>2, <2>2, LeftDiffer DEF Final, ReaderType
  <2>4. \A d \in Devices : rows[d] = NoRow => me.data.commands[d] = commands[d]
    BY <2>2, <2>3, BlankType DEF Final, RowsFirst, Blank
  <2> QED BY <1>1, <2>1, <2>2, <2>3, <2>4, LeftDiffer DEF Final
<1>7. CASE GetCommands(r) /\ me.unread = {}
  <2>1. CASE Got(r, me)
    <3>1. /\ reader'[r].op = me.op /\ reader'[r].left = Tail(me.left)
          /\ reader'[r].data = me.data /\ reader'[r].unread = me.unread
      BY <1>1, <2>1 DEF Got, ReaderType
    <3>2. me.left = <<"cmds", "counts">> /\ reader'[r].left = <<"counts">>
      BY <1>1, <1>7, <3>1, Leaves DEF GetCommands, Reading, ReaderType
    <3>3. me.op = "detail"
      BY <1>1, <1>2, <3>2, LeftDiffer DEF Final, ReaderType
    <3> QED BY <1>1, <1>7, <3>1, <3>2, <3>3, LeftDiffer DEF Final
  <2> QED BY <1>7, <2>1 DEF GetCommands
<1>8. ASSUME NEW d \in me.unread, Reading(r, "cmds"),
             reader' = [reader EXCEPT ![r].unread = @ \ {d}, ![r].data.commands[d] = commands[d]]
      PROVE  Final(r)'
  <2>1. /\ reader'[r].op = me.op /\ reader'[r].left = me.left
        /\ reader'[r].data.rows = me.data.rows /\ reader'[r].data.status = me.data.status
        /\ reader'[r].unread = me.unread \ {d}
        /\ reader'[r].data.commands = [me.data.commands EXCEPT ![d] = commands[d]]
    BY <1>1, <1>8 DEF ReaderType, Snapshot
  <2>2. me.left = <<"cmds", "counts">>
    BY <1>1, <1>8, Leaves DEF Reading, ReaderType
  <2>3. me.op = "detail"
    BY <1>1, <1>2, <2>2, LeftDiffer DEF Final, ReaderType
  <2>4. \A e \in Devices : reader'[r].data.commands[e] =
                             IF e = d THEN commands[d] ELSE me.data.commands[e]
    BY <1>1, <2>1 DEF ReaderType, Snapshot
  <2> QED BY <1>1, <2>1, <2>2, <2>3, <2>4, LeftDiffer DEF Final
<1>9. CASE GetCounts(r)
  <2>1. /\ reader'[r].op = me.op /\ reader'[r].left = Tail(me.left)
        /\ reader'[r].data = me.data /\ reader'[r].unread = me.unread
        /\ reader'[r].counts = Counts(rows)
    BY <1>1, <1>9 DEF GetCounts, Got, ReaderType
  <2>2. me.left = <<"counts">> /\ reader'[r].left = <<>>
    BY <1>1, <1>9, <2>1, Leaves DEF GetCounts, Reading, ReaderType
  <2>3. me.op # "idle"
    BY <1>1, <1>2, <2>2, LeftDiffer DEF Final
  <2>4. Counts(rows)' = Counts(rows)
    BY <1>1 DEF Counts, Outcomes
  <2>5. /\ me.op = "status" => reader'[r].left \in StatusLeft
        /\ me.op = "detail" => reader'[r].left \in DetailLeft
    BY <2>2 DEF StatusLeft, DetailLeft
  <2> QED BY <1>1, <2>1, <2>2, <2>3, <2>4, <2>5, LeftDiffer DEF Final
<1> QED BY <1>1, <1>3, <1>4, <1>5, <1>6, <1>7, <1>8, <1>9 DEF Request, GetJob, GetCommands, Close

\* The script polls until it has seen the end, and what it downloads then no
\* longer changes.
LEMMA PolledKept ==
  ASSUME Types, Called, Exported, Polled, [Next]_vars
  PROVE  Polled'
<1> USE DEF Undisturbed
<1>1. status \in Terminal => status' \in Terminal /\ rows' = rows /\ commands' = commands
  BY EndIsFinal
<1>2. ASSUME UNCHANGED client, failures' >= failures PROVE Polled'
  BY <1>1, <1>2, StoreAssumption DEF Polled, Types, StoreAssumption
<1>3. CASE Caller
  BY <1>2, <1>3 DEF Caller, Create, MarkRunning, MarkComplete, MarkCancelled, MarkFailed,
                    UpdateDevice, Begin, others, Types
<1>4. CASE Worker
  BY <1>2, <1>4 DEF Worker, WriteStatus, Upsert, InsertCommands, ReadCounts, Snap, OpenFile,
                    WriteFile, Do, others, Types
<1>5. CASE ReadBackFault \/ StepFault \/ Restart
  BY <1>2, <1>5 DEF ReadBackFault, StepFault, Restart, Fails, others, Types
<1>6. CASE \E r \in Readers : Request(r)
  BY <1>2, <1>6, RequestTypes DEF RequestFrame, Types
<1>7. CASE UNCHANGED vars
  BY <1>2, <1>7 DEF vars, others, Types
<1>8. CASE Script
  <2>1. UNCHANGED <<status, rows, commands, failures>> /\ client \in ClientType
    BY <1>8, ScriptTypes DEF database, Types
  <2>2. CASE Accepted
    BY <2>1, <2>2 DEF Accepted, Move, Polled, ClientType
  <2>3. CASE Poll
    <3>1. PICK s \in {status, client.seen} :
            Move("poll", [client EXCEPT !.polls = @ + 1, !.seen = s])
      BY <2>3 DEF Poll
    <3>2. /\ client'.at = client.at /\ client.at = "poll" /\ client'.seen = s
          /\ client'.saved = client.saved
      BY <2>1, <3>1 DEF Move, ClientType
    <3> QED BY <2>1, <3>1, <3>2 DEF Polled
  <2>4. CASE PollEnd
    BY <2>1, <2>4 DEF PollEnd, Move, Polled, ClientType
  <2>5. CASE Download
    <3>1. PICK f \in {file, [state |-> "absent", data |-> Blank]} :
            Move("download", [client EXCEPT !.at = "exit", !.saved = f])
      BY <2>5 DEF Download
    <3>2. /\ client'.at = "exit" /\ client.at = "download" /\ client'.seen = client.seen
          /\ client'.saved = f
      BY <2>1, <3>1 DEF Move, ClientType
    <3>3. client.seen \in Terminal /\ status \in Terminal
      BY <3>2 DEF Polled
    <3>4. op # "update"
      BY <3>3 DEF Called, Terminal
    <3>5. Undisturbed /\ f.state = "whole" => f.data.rows = rows /\ f.data.commands = commands
      BY <3>1, <3>4 DEF Exported
    <3> QED BY <2>1, <3>2, <3>3, <3>5 DEF Polled
  <2> QED BY <1>8, <2>2, <2>3, <2>4, <2>5 DEF Script
<1> QED BY <1>3, <1>4, <1>5, <1>6, <1>7, <1>8 DEF Next

-----------------------------------------------------------------------------
(* The invariant                                                           *)

LEMMA StoreInit == Init => StoreInv
<1> SUFFICES ASSUME Init PROVE StoreInv
  OBVIOUS
<1>1. Types
  <2>1. MaxUpdates \in Nat /\ MaxPolls \in Nat /\ MaxFailures \in Nat
    BY StoreAssumption DEF StoreAssumption
  <2>2. TodoOK
    BY DEF Init, TodoOK, ExportLeft
  <2>3. file \in FileType
    BY BlankType DEF Init, FileType
  <2>4. client \in ClientType
    BY <2>1, BlankType DEF Init, ClientType, FileType, Statuses, Active
  <2>5. reader \in [Readers -> ReaderType]
    BY BlankType DEF Init
  <2> QED BY <2>1, <2>2, <2>3, <2>4, <2>5, BlankType DEF Init, Types, Statuses
<1>2. Called
  BY DEF Init, Called, At
<1>3. RowsFirst
  BY DEF Init, RowsFirst, At, Blank
<1>4. Exported
  BY DEF Init, Exported, At
<1>5. \A r \in Readers : Final(r)
  BY BlankType, ReadOrder DEF Init, Final, Idle, Terminal
<1>6. Polled
  BY DEF Init, Polled, Terminal
<1> QED BY <1>1, <1>2, <1>3, <1>4, <1>5, <1>6 DEF StoreInv

LEMMA StoreStep == StoreInv /\ [Next]_vars => StoreInv'
<1> SUFFICES ASSUME StoreInv, [Next]_vars PROVE StoreInv'
  OBVIOUS
<1>1. Types /\ Called /\ RowsFirst /\ Exported /\ (\A r \in Readers : Final(r)) /\ Polled
  BY DEF StoreInv
<1>2. Polled'
  BY <1>1, PolledKept
<1>3. ASSUME UNCHANGED <<database, calls, todo, export, failures>>
      PROVE  Called' /\ RowsFirst' /\ Exported'
  BY <1>1, <1>3, CalledByOthers DEF database, calls, export, RowsFirst, Exported, At, Undisturbed
<1>4. ASSUME UNCHANGED reader PROVE \A r \in Readers : Final(r)'
  BY <1>1, <1>4, FinalKept
<1>5. CASE Caller
  <2>1. UNCHANGED reader
    BY <1>5 DEF Caller, Create, MarkRunning, MarkComplete, MarkCancelled, MarkFailed,
                UpdateDevice, Begin, others
  <2> QED BY <1>1, <1>2, <1>4, <1>5, <2>1, CallerTypes, CallerCalled, CallsKeepRows DEF StoreInv
<1>6. CASE Worker
  <2>1. UNCHANGED reader
    BY <1>6 DEF Worker, WriteStatus, Upsert, InsertCommands, ReadCounts, Snap, OpenFile,
                WriteFile, Do, others
  <2> QED BY <1>1, <1>2, <1>4, <1>6, <2>1, WorkerTypes, WorkerCalled, RowsFirstKept, ExportedKept
          DEF StoreInv
<1>7. CASE ReadBackFault \/ StepFault
  <2>1. UNCHANGED reader
    BY <1>7 DEF ReadBackFault, StepFault, others
  <2> QED BY <1>1, <1>2, <1>4, <1>7, <2>1, FaultTypes, FaultCalled, CallsKeepRows DEF StoreInv
<1>8. CASE Restart
  <2>1. \A r \in Readers : Final(r)'
    BY <1>8, BlankType, ReadOrder DEF Restart, Final, Idle, Terminal
  <2> QED BY <1>1, <1>2, <1>8, <2>1, FaultTypes, FaultCalled, CallsKeepRows DEF StoreInv
<1>9. CASE \E r \in Readers : Request(r)
  <2>1. PICK r \in Readers : Request(r)
    BY <1>9
  <2>2. Types' /\ RequestFrame(r)
    BY <1>1, <2>1, RequestTypes
  <2>3. \A q \in Readers : Final(q)'
    BY <1>1, <2>1, <2>2, FinalKept, FinalRead DEF RequestFrame
  <2> QED BY <1>2, <1>3, <2>2, <2>3 DEF RequestFrame, StoreInv
<1>10. CASE Script
  BY <1>1, <1>2, <1>3, <1>4, <1>10, ScriptTypes DEF StoreInv
<1>11. CASE UNCHANGED vars
  <2>1. Types'
    BY <1>1, <1>11 DEF vars, database, calls, export, others, Types, TodoOK
  <2> QED BY <1>2, <1>3, <1>4, <1>11, <2>1 DEF vars, others, StoreInv
<1> QED BY <1>5, <1>6, <1>7, <1>8, <1>9, <1>10, <1>11 DEF Next

\* The store keeps its invariant whatever is called, read, polled or fails.
THEOREM StoreInvariance == Spec => []StoreInv
<1> QED BY StoreInit, StoreStep, PTL DEF Spec

-----------------------------------------------------------------------------
(* What follows from it                                                    *)

\* The variables keep their shapes and the script gives up in time.
THEOREM StoreTypes == Spec => []TypeOK
<1>1. StoreInv => TypeOK
  <2> SUFFICES ASSUME Types PROVE TypeOK
    BY DEF StoreInv
  <2>1. Current \in Snapshot
    BY DEF Types, Current, Snapshot, Rows
  <2>2. file.state \in {"absent", "torn", "whole"} /\ file.data \in Snapshot
    BY DEF Types, FileType
  <2>3. \A r \in Readers : reader[r].data \in Snapshot /\ reader[r].unread \subseteq Devices
    BY DEF Types, ReaderType
  <2>4. client.at \in {"post", "poll", "download", "exit"} /\ client.polls \in 0..MaxPolls
    BY DEF Types, ClientType
  <2> QED BY <2>1, <2>2, <2>3, <2>4 DEF Types, TypeOK
<1> QED BY <1>1, StoreInvariance, PTL

\* GET /jobs/{id} never pairs a terminal status with counts that may still grow,
\* although it reads them by separate queries.
THEOREM TerminalAnswer == Spec => []TerminalAnswerIsFinal
<1>1. StoreInv => TerminalAnswerIsFinal
  BY DEF StoreInv, Final, TerminalAnswerIsFinal, Answered
<1> QED BY <1>1, StoreInvariance, PTL

\* GET /jobs/{id}/detail never shows the end of a job without all of its devices
\* and their commands, although it takes a query for each.
THEOREM TerminalDetail == Spec => []TerminalDetailIsComplete
<1>1. StoreInv => TerminalDetailIsComplete
  <2> SUFFICES ASSUME StoreInv, NEW r \in Readers, Answered(r), reader[r].op = "detail",
                      reader[r].data.status \in Terminal
               PROVE  reader[r].data.rows = rows /\ reader[r].data.commands = commands
    BY DEF TerminalDetailIsComplete
  <2>1. Final(r) /\ reader[r] \in ReaderType /\ commands \in [Devices -> 0..MaxUpdates]
    BY DEF StoreInv, Types
  <2>2. reader[r].left = <<>> /\ reader[r].unread = {}
    BY <2>1 DEF Final, Answered
  <2>3. /\ reader[r].data.rows = rows
        /\ \A d \in Devices : reader[r].data.commands[d] = commands[d]
    BY <2>1, <2>2 DEF Final
  <2>4. reader[r].data.commands \in [Devices -> 0..MaxUpdates]
    BY <2>1 DEF ReaderType, Snapshot
  <2> QED BY <2>1, <2>3, <2>4
<1> QED BY <1>1, StoreInvariance, PTL

\* The script never saves a whole file that lacks a result of the job it saw end.
THEOREM ResultsPrecede == Spec => []ResultsPrecedeVerdict
<1>1. StoreInv => ResultsPrecedeVerdict
  BY DEF StoreInv, Polled, ResultsPrecedeVerdict
<1> QED BY <1>1, StoreInvariance, PTL

\* Once the store has written a terminal status, no call, failure or restart
\* makes the job active again or changes a result of it.
THEOREM EndedForGood ==
  Spec => [][(status \in Terminal) =>
               (status' \in Terminal /\ UNCHANGED <<rows, commands>>)]_vars
<1>1. StoreInv /\ [Next]_vars =>
        [(status \in Terminal) => (status' \in Terminal /\ UNCHANGED <<rows, commands>>)]_vars
  BY EndIsFinal DEF StoreInv
<1> QED BY <1>1, StoreInvariance, PTL DEF Spec

-----------------------------------------------------------------------------
(* The store implements the lifecycle                                      *)

\* The abstract job row, for the one job there is.
LEMMA OneJob ==
  ASSUME NEW s, NEW t
  PROVE  [[j \in {"job"} |-> s] EXCEPT !["job"] = t] = [j \in {"job"} |-> t]
OBVIOUS

\* Storing an outcome is reporting it.
LEMMA OutcomeStored ==
  ASSUME Types, Called, Upsert
  PROVE  /\ status = "running" /\ status' = status
         /\ result.host \in Devices /\ result.outcome \in Outcome
         /\ Outcomes(rows)' = [Outcomes(rows) EXCEPT ![result.host] = result.outcome]
<1>1. op = "update" /\ result \in Results /\ status = "running"
  BY Doing DEF Upsert, calls, Follows, Types, Called
<1>2. result.host \in Devices /\ result.outcome \in Outcome
  BY <1>1 DEF Results
<1>3. \A d \in Devices : rows'[d].outcome =
                           IF d = result.host THEN result.outcome ELSE rows[d].outcome
  BY <1>2 DEF Upsert, Types, Rows
<1> QED BY <1>1, <1>2, <1>3 DEF Upsert, Outcomes

\* Every step but a failing one's aftermath is a step of the lifecycle.
LEMMA LifecycleStep ==
  ASSUME StoreInv, [Next]_vars
  PROVE  [Lifecycle!LifecycleNext \/ ~Undisturbed]_<<status, Outcomes(rows)>>
<1> USE DEF database, calls, export, others
<1> DEFINE S == [j \in {"job"} |-> status]
           R == [j \in {"job"} |-> Outcomes(rows)]
<1>0. Types /\ Called
  BY DEF StoreInv
<1>1. ASSUME UNCHANGED <<status, rows>> PROVE UNCHANGED <<status, Outcomes(rows)>>
  BY <1>1 DEF Outcomes
<1>2. CASE Caller \/ ReadBackFault \/ StepFault \/ Restart
  BY <1>1, <1>2 DEF Caller, Create, MarkRunning, MarkComplete, MarkCancelled, MarkFailed,
              UpdateDevice, Begin, ReadBackFault, StepFault, Restart
<1>3. CASE \/ InsertCommands \/ ReadCounts \/ OpenFile \/ WriteFile
           \/ \E s \in {"job", "devices", "cmds"} : Snap(s)
  BY <1>1, <1>3 DEF InsertCommands, ReadCounts, OpenFile, WriteFile, Snap
<1>4. CASE Script \/ UNCHANGED vars \/ \E r \in Readers : Request(r)
  BY <1>0, <1>1, <1>4, ScriptTypes, RequestTypes DEF RequestFrame, vars
<1>5. CASE Upsert
  <2> DEFINE d == result.host
             o == result.outcome
  <2>1. /\ status = "running" /\ status' = status /\ d \in Devices /\ o \in Outcome
        /\ Outcomes(rows)' = [Outcomes(rows) EXCEPT ![d] = o]
    BY <1>0, <1>5, OutcomeStored
  <2>2. R' = [R EXCEPT !["job"][d] = o] /\ S' = S /\ S["job"] = "running"
    BY <2>1
  <2>3. Lifecycle!Report("job", d, o)
    BY <2>2 DEF Lifecycle!Report
  <2> QED BY <2>1, <2>3 DEF Lifecycle!LifecycleNext, Lifecycle!Outcome, Outcome
<1>6. CASE WriteStatus
  <2>1. /\ At("status") /\ op \in {"create", "running", "complete", "failed", "cancelled"}
        /\ status' = target /\ UNCHANGED rows
    BY <1>0, <1>6, Doing DEF WriteStatus, Follows, Types
  <2>2. S' = [S EXCEPT !["job"] = target] /\ R' = R /\ S["job"] = status
        /\ R["job"] = Outcomes(rows)
    BY <2>1 DEF Outcomes
  <2>3. CASE op = "create"
    <3>1. Lifecycle!Accept("job")
      BY <1>0, <2>1, <2>2, <2>3 DEF Called, Lifecycle!Accept
    <3> QED BY <3>1 DEF Lifecycle!LifecycleNext
  <2>4. CASE op = "running"
    <3>1. Lifecycle!Start("job")
      BY <1>0, <2>1, <2>2, <2>4 DEF Called, Lifecycle!Start
    <3> QED BY <3>1 DEF Lifecycle!LifecycleNext
  <2>5. CASE op = "complete"
    <3>1. status = "running" /\ target = Verdict(Outcomes(rows), {})
      BY <1>0, <2>1, <2>5 DEF Called
    <3>2. target = Lifecycle!Verdict(R["job"], {})
      BY <2>2, <3>1 DEF Verdict, Lifecycle!Verdict, WithRow, Lifecycle!WithRow
    <3>3. Lifecycle!Finish("job")
      BY <2>2, <3>1, <3>2 DEF Lifecycle!Finish
    <3> QED BY <3>3 DEF Lifecycle!LifecycleNext
  <2>6. CASE op \in {"failed", "cancelled"}
    <3>1. target = op /\ (status \in Active \/ failures > 0)
      BY <1>0, <2>1, <2>6 DEF Called
    <3>2. CASE status \in Active
      <4>1. Lifecycle!Abandon("job", target)
        BY <2>2, <3>2 DEF Lifecycle!Abandon, Lifecycle!Active, Active
      <4> QED BY <2>6, <3>1, <4>1 DEF Lifecycle!LifecycleNext
    <3> QED BY <3>1, <3>2 DEF Undisturbed
  <2> QED BY <2>1, <2>3, <2>4, <2>5, <2>6
<1> QED BY <1>2, <1>3, <1>4, <1>5, <1>6 DEF Next, Worker

\* Query by query the store does what clients are promised of a job, until
\* something fails.
THEOREM StoreImplementsLifecycle == Spec => ImplementsLifecycle
<1>1. Init => Lifecycle!LifecycleInit
  <2> SUFFICES ASSUME Init PROVE Lifecycle!LifecycleInit
    OBVIOUS
  <2>1. Outcomes(rows) = [d \in Devices |-> "none"]
    BY DEF Init, Outcomes, Blank, NoRow
  <2> QED BY <2>1 DEF Init, Lifecycle!LifecycleInit
<1>2. StoreInv /\ [Next]_vars =>
        [Lifecycle!LifecycleNext \/ ~Undisturbed]_<<status, Outcomes(rows)>>
  BY LifecycleStep
<1> QED BY <1>1, <1>2, StoreInvariance, PTL DEF Spec, ImplementsLifecycle
=============================================================================
