-------------------------- MODULE ScriptFilesProofs --------------------------
(***************************************************************************)
(* Theorems about ScriptFiles, for any requests about the file, whatever   *)
(* they ask for and it holds at first: what max_queue_depth still bounds   *)
(* although workflows are counted and registered in different steps, and   *)
(* what a run may have read of a file that is written in place.            *)
(***************************************************************************)
EXTENDS ScriptFiles, SequenceTheorems, FiniteSetTheorems, TLAPS

Places == {"start", "open", "fill", "delete", "run", "stat", "count", "name", "devices", "submit",
           "create", "register", "done"}

Types ==
  /\ script \in {"workflow", "runbook"}
  /\ asked \in Scenarios
  /\ pc \in [Requests -> Places]
  /\ got \in [Requests -> Seq(Lines)]
  /\ answer \in [Requests -> {"none", "ok", "refused", "error"}]
  /\ DOMAIN id = Requests
  /\ hand \in [Requests -> Requests \cup {"disk"}]
  /\ file \in Requests \cup {"disk", NoFile}
  /\ data \in [Requests \cup {"disk"} -> Seq(Lines)]
  /\ IsFiniteSet(active)
  /\ errors \in Nat /\ peak \in Nat
  /\ mixed \in BOOLEAN

\* Runbooks are not entered in _active_jobs.  The workflows that are, and those
\* that have been counted and not yet entered, are as many as the requests that
\* were once between the two, and one less than the limit.
Admitted ==
  /\ script = "runbook" => active = {}
  /\ script = "workflow" => Cardinality(active) + Cardinality(Between) <= Depth - 1 + peak

\* A text that a request answered with an error may have left.
Left(text) == \E q \in Requests : LeftBy(q, text)

\* Unless two had the file open, who has it open has just emptied it, and when
\* nobody has it is a text that was saved, or what a failing write left of one.
Written ==
  mixed \/
    /\ \A q, r \in Open : q = r
    /\ \A r \in Open : data[hand[r]] = <<>> /\ file \in {NoFile, hand[r]}
    /\ file # NoFile /\ Open = {} => data[file] \in saved \/ Left(data[file])

\* What a run has read and goes on with.
Sound(r) ==
  /\ script = "workflow" \/ got[r] # <<>>
  /\ \/ got[r] \in saved
     \/ mixed
     \/ got[r] = <<>> /\ r \in torn
     \/ Left(got[r])
Reads(r) ==
  /\ pc[r] # "done" => answer[r] = "none"
  /\ pc[r] \in {"open", "fill", "delete"} => asked[r].kind # "run"
  /\ pc[r] \in {"open", "fill"} => asked[r].kind # "delete"
  /\ asked[r].kind = "run" /\ script = "workflow" =>
       /\ pc[r] # "stat"
       /\ pc[r] \in {"create", "register"} \/ answer[r] = "ok" => Sound(r)
  /\ asked[r].kind = "run" /\ script = "runbook" =>
       /\ pc[r] \notin {"name", "submit", "create"}
       /\ pc[r] = "stat" => got[r] = <<>> \/ got[r] \in saved \/ mixed \/ Left(got[r])
       /\ pc[r] \in {"count", "devices", "register"} \/ answer[r] = "ok" => Sound(r)

ScriptInv == Types /\ Admitted /\ Written /\ \A r \in Requests : Reads(r)

-----------------------------------------------------------------------------
(* Texts                                                                   *)

\* What is written over nothing is what was to be written.
LEMMA OverNothing == ASSUME NEW t \in Seq(Lines) PROVE Overlay(t, <<>>) = t
<1>1. Len(t) \in Nat /\ SubSeq(<<>>, Len(t) + 1, 0) = <<>>
  BY SubSeqEmpty
<1>2. t \o <<>> = t
  BY ConcatEmptySeq
<1> QED BY <1>1, <1>2 DEF Overlay

\* Text written over text is a text.
LEMMA OverlayType == ASSUME NEW s \in Seq(Lines), NEW t \in Seq(Lines) PROVE Overlay(s, t) \in Seq(Lines)
<1>1. Len(s) \in Nat /\ Len(t) \in Nat /\ \A i \in DOMAIN t : t[i] \in Lines
  OBVIOUS
<1>2. SubSeq(t, Len(s) + 1, Len(t)) \in Seq(Lines)
  BY <1>1, SubSeqProperties
<1> QED BY <1>2, ConcatProperties DEF Overlay

\* What a request asks for.
LEMMA Asked ==
  ASSUME Types, NEW r \in Requests
  PROVE  asked[r].kind \in {"put", "post", "delete", "run"} /\ asked[r].text \in Seq(Lines)
BY ScriptAssumption DEF Types, ScriptAssumption

\* The beginnings of its text are texts.
LEMMA BegunTexts == ASSUME Types, NEW r \in Requests PROVE Begun(r) \subseteq Seq(Lines)
<1> SUFFICES ASSUME NEW n \in 0..(Len(asked[r].text) - 1)
             PROVE  SubSeq(asked[r].text, 1, n) \in Seq(Lines)
  BY DEF Begun
<1>1. asked[r].text \in Seq(Lines) /\ Len(asked[r].text) \in Nat
  BY Asked
<1>2. n \in Nat /\ n <= Len(asked[r].text)
  BY <1>1
<1> QED BY <1>1, <1>2, SubSeqProperties

\* The requests between counting and registering are finitely many.
LEMMA BetweenFinite == IsFiniteSet(Between) /\ Cardinality(Between) \in Nat
<1>1. Between \subseteq Requests /\ IsFiniteSet(Requests)
  BY ScriptAssumption DEF Between, ScriptAssumption
<1> QED BY <1>1, FS_Subset, FS_CardinalityType

-----------------------------------------------------------------------------
(* Types                                                                   *)

\* Every step keeps the shapes.
LEMMA TypesKept ==
  ASSUME Types, [Next]_vars PROVE Types'
<1> USE DEF request, disk, history
<1>1. ASSUME NEW r \in Requests, Handle(r) PROVE Types'
  <2> DEFINE Still == /\ pc' \in [Requests -> Places]
                      /\ answer' \in [Requests -> {"none", "ok", "refused", "error"}]
  <2>1. "done" \in Places /\ asked[r].kind \in {"put", "post", "delete", "run"}
    BY Asked DEF Places
  <2>2. CASE Arrive(r)
    <3>1. Still
      BY <2>1, <2>2 DEF Arrive, Types, Moves, Answers, Goto, Places
    <3> QED BY <2>2, <3>1 DEF Arrive, Types
  <2>3. CASE OpenFile(r)
    <3>1. Still
      BY <2>3 DEF OpenFile, Types, Moves, Goto, Places
    <3>2. /\ hand' \in [Requests -> Requests \cup {"disk"}] /\ file' \in Requests \cup {"disk"}
          /\ data' \in [Requests \cup {"disk"} -> Seq(Lines)]
      BY <2>3 DEF OpenFile, Types
    <3>3. mixed' \in BOOLEAN
      BY <2>3 DEF OpenFile, Types
    <3> QED BY <2>3, <3>1, <3>2, <3>3 DEF OpenFile, Types
  <2>4. CASE FillFile(r)
    <3>1. Still
      BY <2>4 DEF FillFile, Types, Answers, Goto, Places
    <3>2. hand[r] \in Requests \cup {"disk"} /\ data[hand[r]] \in Seq(Lines)
      BY DEF Types
    <3>3. Overlay(asked[r].text, data[hand[r]]) \in Seq(Lines)
      BY <3>2, Asked, OverlayType
    <3>4. data' \in [Requests \cup {"disk"} -> Seq(Lines)]
      BY <2>4, <3>3 DEF FillFile, Types
    <3> QED BY <2>4, <3>1, <3>4 DEF FillFile, Types
  <2>5. CASE WriteFails(r)
    <3>1. Still
      BY <2>5 DEF WriteFails, Types, Answers, Goto, Places
    <3>2. hand[r] \in Requests \cup {"disk"} /\ data[hand[r]] \in Seq(Lines)
      BY DEF Types
    <3>3. ASSUME NEW part \in Begun(r) PROVE Overlay(part, data[hand[r]]) \in Seq(Lines)
      BY <3>2, BegunTexts, OverlayType
    <3>4. data' \in [Requests \cup {"disk"} -> Seq(Lines)]
      <4>1. CASE data' = data
        BY <4>1 DEF Types
      <4>2. CASE \E part \in Begun(r) : data' = [data EXCEPT ![hand[r]] = Overlay(part, data[hand[r]])]
        BY <3>2, <3>3, <4>2 DEF Types
      <4> QED BY <2>5, <4>1, <4>2 DEF WriteFails
    <3> QED BY <2>5, <3>1, <3>4 DEF WriteFails, Types
  <2>6. CASE DeleteFile(r)
    <3>1. Still
      BY <2>6 DEF DeleteFile, Types, Answers, Goto, Places
    <3> QED BY <2>6, <3>1 DEF DeleteFile, Types
  <2>7. CASE Validate(r)
    <3>1. Still
      BY <2>7 DEF Validate, Types, Moves, Answers, Goto, Places
    <3> QED BY <2>7, <3>1 DEF Validate, Types
  <2>8. CASE Count(r)
    <3>1. Still
      BY <2>8 DEF Count, Types, Moves, Answers, Goto, Places
    <3>2. Cardinality(Between') \in Nat
      <4>1. Between' \subseteq Requests /\ IsFiniteSet(Requests)
        BY ScriptAssumption DEF Between, ScriptAssumption
      <4> QED BY <4>1, FS_Subset, FS_CardinalityType
    <3>3. peak' \in Nat
      BY <2>8, <3>2 DEF Count, Types
    <3> QED BY <2>8, <3>1, <3>3 DEF Count, Types
  <2>9. CASE CountJobs(r) \/ Expand(r)
    <3>1. Still
      BY <2>9 DEF CountJobs, Expand, Types, Moves, Answers, Goto, Places
    <3> QED BY <2>9, <3>1 DEF CountJobs, Expand, Types
  <2>10. CASE Submit(r)
    <3>1. Still
      BY <2>10 DEF Submit, Types, Moves, Answers, Goto, Places
    <3>2. got' \in [Requests -> Seq(Lines)]
      BY <2>10 DEF Submit, Types, Text, NoFile
    <3> QED BY <2>10, <3>1, <3>2 DEF Submit, Types
  <2>11. CASE Create(r)
    <3>1. Still
      BY <2>11 DEF Create, Types, Moves, Answers, Goto, Places
    <3> QED BY <2>11, <3>1 DEF Create, Types
  <2>12. CASE ReadRunbook(r)
    <3>1. Still
      BY <2>12 DEF ReadRunbook, Types, Moves, Answers, Goto, Places
    <3>2. got' \in [Requests -> Seq(Lines)]
      BY <2>12 DEF ReadRunbook, Types, Text, NoFile
    <3> QED BY <2>12, <3>1, <3>2 DEF ReadRunbook, Types
  <2>13. CASE StatRunbook(r)
    <3>1. Still
      BY <2>13 DEF StatRunbook, Types, Moves, Answers, Goto, Places
    <3> QED BY <2>13, <3>1 DEF StatRunbook, Types
  <2>14. CASE Register(r)
    <3>1. Still
      BY <2>14 DEF Register, Types, Answers, Goto, Places
    <3>2. IsFiniteSet(active')
      BY <2>14, FS_AddElement DEF Register, Types
    <3> QED BY <2>14, <3>1, <3>2 DEF Register, Types
  <2>15. CASE Name(r)
    <3>1. Still
      BY <2>15 DEF Name, Types, Moves, Goto, Places
    <3>2. DOMAIN id' = Requests
      BY <2>15 DEF Name, Types
    <3> QED BY <2>15, <3>1, <3>2 DEF Name, Types
  <2> QED BY <1>1, <2>2, <2>3, <2>4, <2>5, <2>6, <2>7, <2>8, <2>9, <2>10, <2>11, <2>12, <2>13,
             <2>14, <2>15 DEF Handle
<1>2. ASSUME NEW i \in active, End(i) PROVE Types'
  <2>1. IsFiniteSet(active')
    BY <1>2, FS_RemoveElement DEF End, Types
  <2> QED BY <1>2, <2>1 DEF End, Types
<1>3. CASE UNCHANGED vars
  BY <1>3 DEF vars, Types
<1> QED BY <1>1, <1>2, <1>3 DEF Next

-----------------------------------------------------------------------------
(* Admission                                                               *)

\* Every step but Count, CountJobs and Register leaves the requests between
\* counting and registering as many as they were, or fewer.
LEMMA AdmittedKept ==
  ASSUME Types, Types', Admitted, [Next]_vars PROVE Admitted'
<1> USE DEF request, disk, history
<1> DEFINE a == Cardinality(active)
           b == Cardinality(Between)
<1>1. /\ a \in Nat /\ b \in Nat /\ peak \in Nat /\ Depth \in Nat /\ Depth >= 1
      /\ IsFiniteSet(Between) /\ IsFiniteSet(active)
  BY BetweenFinite, FS_CardinalityType, ScriptAssumption DEF Types, ScriptAssumption
<1>2. IsFiniteSet(Between') /\ Cardinality(Between') \in Nat
  <2>1. Between' \subseteq Requests /\ IsFiniteSet(Requests)
    BY ScriptAssumption DEF Between, ScriptAssumption
  <2> QED BY <2>1, FS_Subset, FS_CardinalityType
<1>3. ASSUME Between' \subseteq Between, UNCHANGED <<script, active, peak>> PROVE Admitted'
  <2>1. Cardinality(Between') <= b
    BY <1>1, <1>3, FS_Subset
  <2> QED BY <1>1, <1>2, <1>3, <2>1 DEF Admitted
<1>4. ASSUME NEW r \in Requests, Handle(r) PROVE Admitted'
  <2>1. CASE \/ Arrive(r) \/ OpenFile(r) \/ FillFile(r) \/ WriteFails(r) \/ DeleteFile(r)
             \/ Validate(r)
    <3>1. asked[r].kind \in {"put", "post", "delete", "run"}
      BY Asked
    <3>2. \A q \in Requests : pc'[q] = pc[q] \/ pc'[q] \notin {"name", "devices", "submit", "create",
                                                               "register"}
      <4> USE DEF Types, Moves, Answers, Goto
      <4>1. CASE Arrive(r)
        BY <3>1, <4>1 DEF Arrive
      <4>2. CASE OpenFile(r) \/ FillFile(r) \/ WriteFails(r)
        BY <3>1, <4>2 DEF OpenFile, FillFile, WriteFails
      <4>3. CASE DeleteFile(r) \/ Validate(r)
        BY <3>1, <4>3 DEF DeleteFile, Validate
      <4> QED BY <2>1, <4>1, <4>2, <4>3
    <3>3. UNCHANGED <<script, active, peak>>
      BY <2>1 DEF Arrive, OpenFile, FillFile, WriteFails, DeleteFile, Validate
    <3> QED BY <1>3, <3>2, <3>3 DEF Between
  <2>2. CASE Name(r) \/ Expand(r) \/ Submit(r) \/ Create(r) \/ ReadRunbook(r) \/ StatRunbook(r)
    <3>1. \A q \in Requests : pc'[q] \in {"name", "devices", "submit", "create", "register"}
                                => pc[q] \in {"name", "devices", "submit", "create", "register"}
      BY <2>2 DEF Name, Expand, Submit, Create, ReadRunbook, StatRunbook, Types, Moves, Answers, Goto, At
    <3>2. UNCHANGED <<script, active, peak>>
      BY <2>2 DEF Name, Expand, Submit, Create, ReadRunbook, StatRunbook
    <3> QED BY <1>3, <3>1, <3>2 DEF Between
  <2>3. CASE Count(r)
    <3>1. script = "workflow" /\ UNCHANGED <<script, active>>
      BY <2>3 DEF Count
    <3>2. peak' \in Nat /\ peak' >= peak /\ peak' >= Cardinality(Between')
      BY <1>1, <1>2, <2>3 DEF Count
    <3>3. CASE Full
      <4>1. \A q \in Requests : pc'[q] = pc[q] \/ pc'[q] = "done"
        BY <2>3, <3>3 DEF Count, Types, Answers, Goto
      <4>2. Between' \subseteq Between
        BY <4>1 DEF Between
      <4>3. Cardinality(Between') <= b
        BY <1>1, <4>2, FS_Subset
      <4> QED BY <1>1, <1>2, <3>1, <3>2, <4>3 DEF Admitted
    <3>4. CASE ~Full
      BY <1>1, <1>2, <3>1, <3>2, <3>4 DEF Full, Admitted
    <3> QED BY <3>3, <3>4
  <2>4. CASE CountJobs(r)
    BY <2>4 DEF CountJobs, Admitted
  <2>5. CASE Register(r) /\ script = "workflow"
    <3>1. Between' = Between \ {r} /\ r \in Between
      BY <2>5 DEF Register, Types, Answers, Goto, At, Between
    <3>2. Cardinality(Between') = b - 1
      BY <1>1, <3>1, FS_RemoveElement
    <3>3. active' = active \cup {id[r]}
      BY <2>5 DEF Register
    <3>4. Cardinality(active \cup {id[r]}) \in {a, a + 1}
      BY <1>1, FS_AddElement
    <3> QED BY <1>1, <2>5, <3>2, <3>3, <3>4 DEF Register, Admitted
  <2>6. CASE Register(r) /\ script # "workflow"
    BY <2>6 DEF Register, Admitted
  <2> QED BY <1>4, <2>1, <2>2, <2>3, <2>4, <2>5, <2>6 DEF Handle
<1>5. ASSUME NEW i \in active, End(i) PROVE Admitted'
  <2>1. Cardinality(active') = a - 1
    BY <1>1, <1>5, FS_RemoveElement DEF End
  <2>2. Between' = Between
    BY <1>5 DEF End, Between
  <2> QED BY <1>1, <1>5, <2>1, <2>2 DEF End, Admitted
<1>6. CASE UNCHANGED vars
  <2>1. Between' = Between
    BY <1>6 DEF vars, Between
  <2> QED BY <1>3, <1>6, <2>1 DEF vars
<1> QED BY <1>4, <1>5, <1>6 DEF Next

-----------------------------------------------------------------------------
(* The file                                                                *)

\* What a failing write left stays so: its request has its answer.
LEMMA LeftStays ==
  ASSUME Types, \A r \in Requests : Reads(r), [Next]_vars, NEW text, Left(text)
  PROVE  Left(text)'
<1> USE DEF request, Types, Moves, Answers, Goto
<1>1. PICK q \in Requests : LeftBy(q, text)
  BY DEF Left
<1>2. pc[q] = "done" /\ answer[q] = "error"
  BY <1>1 DEF LeftBy, Reads
<1>3. asked' = asked /\ answer'[q] = answer[q]
  <2>1. ASSUME NEW r \in Requests, Handle(r) PROVE asked' = asked /\ answer'[q] = answer[q]
    <3>1. CASE Arrive(r) \/ OpenFile(r) \/ FillFile(r) \/ WriteFails(r) \/ DeleteFile(r)
      BY <1>2, <3>1 DEF Arrive, OpenFile, FillFile, WriteFails, DeleteFile, At
    <3>2. CASE Validate(r) \/ Count(r) \/ Name(r) \/ CountJobs(r) \/ Expand(r) \/ Create(r)
      BY <1>2, <3>2 DEF Validate, Count, Name, CountJobs, Expand, Create, At
    <3>3. CASE Submit(r) \/ ReadRunbook(r) \/ StatRunbook(r) \/ Register(r)
      BY <1>2, <3>3 DEF Submit, ReadRunbook, StatRunbook, Register, At
    <3> QED BY <2>1, <3>1, <3>2, <3>3 DEF Handle
  <2>2. CASE (\E i \in active : End(i)) \/ UNCHANGED vars
    BY <2>2 DEF End, vars
  <2> QED BY <2>1, <2>2 DEF Next
<1>4. LeftBy(q, text)'
  BY <1>1, <1>3 DEF LeftBy, Begun
<1> QED BY <1>4 DEF Left

\* A step that opens nothing and changes no text on disk.
LEMMA DiskKept ==
  ASSUME Types, \A r \in Requests : Reads(r), Written, [Next]_vars, mixed' = mixed,
         UNCHANGED <<hand, data, saved>>, file' \in {file, NoFile}, Open' = Open
  PROVE  Written'
<1> SUFFICES ASSUME ~mixed' PROVE Written'
  BY DEF Written
<1>1. /\ \A q, r \in Open : q = r
      /\ \A r \in Open : data[hand[r]] = <<>> /\ file \in {NoFile, hand[r]}
      /\ file # NoFile /\ Open = {} => data[file] \in saved \/ Left(data[file])
  BY DEF Written
<1>2. ASSUME file' # NoFile, Open' = {} PROVE data'[file'] \in saved' \/ Left(data[file])'
  <2>1. PICK text : text = data[file]
    OBVIOUS
  <2>2. Left(text) => Left(text)'
    BY LeftStays
  <2>3. data'[file'] = text /\ data'[file] = text /\ (text \in saved \/ Left(text))
    BY <1>1, <1>2, <2>1
  <2> QED BY <2>2, <2>3
<1>3. file' # NoFile => file' = file
  OBVIOUS
<1> QED BY <1>1, <1>2, <1>3 DEF Written

LEMMA WrittenKept ==
  ASSUME Types, Types', \A r \in Requests : Reads(r), Written, [Next]_vars PROVE Written'
<1> USE DEF request, disk, history
<1>1. ASSUME NEW r \in Requests, Handle(r) PROVE Written'
  <2>1. CASE OpenFile(r) /\ ~mixed'
    <3>1. ~mixed /\ Open = {} /\ UNCHANGED <<saved, errors>>
      BY <2>1 DEF OpenFile, Types
    <3>2. Open' = {r}
      <4>1. \A q \in Requests : pc'[q] = IF q = r THEN "fill" ELSE pc[q]
        BY <2>1 DEF OpenFile, Types, Moves, Goto
      <4> QED BY <3>1, <4>1 DEF Open
    <3>3. file' = hand'[r] /\ data'[hand'[r]] = <<>>
      BY <2>1 DEF OpenFile, Types
    <3> QED BY <3>2, <3>3 DEF Written
  <2>2. CASE FillFile(r) /\ ~mixed
    <3>1. /\ \A q \in Open : q = r
          /\ data[hand[r]] = <<>> /\ file \in {NoFile, hand[r]}
      BY <2>2 DEF FillFile, At, Open, Written
    <3>2. Open' = {}
      <4>1. \A q \in Requests : pc'[q] = IF q = r THEN "done" ELSE pc[q]
        BY <2>2 DEF FillFile, Types, Answers, Goto
      <4> QED BY <3>1, <4>1 DEF Open
    <3>3. asked[r].text \in saved' /\ UNCHANGED file
      BY <2>2 DEF FillFile
    <3>4. data'[hand[r]] = asked[r].text
      <4>1. data'[hand[r]] = Overlay(asked[r].text, data[hand[r]])
        BY <2>2 DEF FillFile, Types
      <4> QED BY <3>1, <4>1, Asked, OverNothing
    <3> QED BY <3>1, <3>2, <3>3, <3>4 DEF Written
  <2>3. CASE WriteFails(r) /\ pc[r] = "open"
    <3>1. Open' = Open
      BY <2>3 DEF WriteFails, Types, Answers, Goto, Open
    <3> QED BY <1>1, <2>3, <3>1, DiskKept DEF WriteFails, Next
  <2>6. CASE WriteFails(r) /\ pc[r] = "fill" /\ ~mixed
    <3>1. /\ \A q \in Open : q = r
          /\ data[hand[r]] = <<>> /\ file \in {NoFile, hand[r]}
      BY <2>6 DEF Open, Written
    <3>2. Open' = {}
      <4>1. \A q \in Requests : pc'[q] = IF q = r THEN "done" ELSE pc[q]
        BY <2>6 DEF WriteFails, Types, Answers, Goto
      <4> QED BY <3>1, <4>1 DEF Open
    <3>3. PICK part \in Begun(r) : data' = [data EXCEPT ![hand[r]] = Overlay(part, data[hand[r]])]
      BY <2>6 DEF WriteFails
    <3>4. data'[hand[r]] = part
      <4>1. data'[hand[r]] = Overlay(part, data[hand[r]])
        BY <3>3 DEF Types
      <4> QED BY <3>1, <4>1, BegunTexts, OverNothing
    <3>5. LeftBy(r, part)'
      <4>1. asked[r].kind \in {"put", "post"}
        BY <2>6, Asked DEF Reads
      <4>2. answer'[r] = "error" /\ asked' = asked
        BY <2>6 DEF WriteFails, Types, Answers, Goto
      <4> QED BY <4>1, <4>2 DEF LeftBy, Begun
    <3>6. file' # NoFile => file' = hand[r] /\ data'[file'] = part
      BY <2>6, <3>1, <3>4 DEF WriteFails
    <3>7. file' # NoFile => Left(data[file])'
      BY <3>5, <3>6 DEF Left
    <3> QED BY <3>2, <3>7 DEF Written
  <2>4. CASE \/ Arrive(r) \/ DeleteFile(r) \/ Validate(r) \/ Count(r) \/ Name(r) \/ CountJobs(r) \/ Expand(r)
             \/ Submit(r) \/ Create(r) \/ ReadRunbook(r) \/ StatRunbook(r) \/ Register(r)
    <3>1. asked[r].kind \in {"put", "post", "delete", "run"}
      BY Asked
    <3>2. pc[r] # "fill" /\ \A q \in Requests : pc'[q] # pc[q] => q = r /\ pc'[q] # "fill"
      BY <2>4, <3>1 DEF Arrive, DeleteFile, Validate, Count, Name, CountJobs, Expand, Submit, Create,
           ReadRunbook, StatRunbook, Register, Types, Moves, Answers, Goto, At
    <3>3. Open' = Open
      BY <3>2 DEF Open
    <3>4. /\ mixed' = mixed /\ UNCHANGED <<hand, data, saved>>
          /\ file' \in {file, NoFile}
      BY <2>4 DEF Arrive, DeleteFile, Validate, Count, Name, CountJobs, Expand, Submit, Create,
           ReadRunbook, StatRunbook, Register
    <3> QED BY <1>1, <3>3, <3>4, DiskKept DEF Next
  <2>5. CASE (OpenFile(r) /\ mixed') \/ (FillFile(r) /\ mixed) \/ (WriteFails(r) /\ mixed)
    <3>1. mixed'
      BY <2>5 DEF FillFile, WriteFails
    <3> QED BY <3>1 DEF Written
  <2>7. WriteFails(r) => pc[r] \in {"open", "fill"}
    BY DEF WriteFails
  <2> QED BY <1>1, <2>1, <2>2, <2>3, <2>4, <2>5, <2>6, <2>7 DEF Handle
<1>2. ASSUME NEW i \in active, End(i) PROVE Written'
  <2>1. Open' = Open
    BY <1>2 DEF End, Open
  <2>2. /\ mixed' = mixed /\ UNCHANGED <<hand, data, saved, file>>
    BY <1>2 DEF End
  <2> QED BY <1>2, <2>1, <2>2, DiskKept DEF Next
<1>3. CASE UNCHANGED vars
  <2>1. Open' = Open
    BY <1>3 DEF vars, Open
  <2>2. /\ mixed' = mixed /\ UNCHANGED <<hand, data, saved, file>>
    BY <1>3 DEF vars
  <2> QED BY <2>1, <2>2, DiskKept
<1> QED BY <1>1, <1>2, <1>3 DEF Next

-----------------------------------------------------------------------------
(* Runs                                                                    *)

\* The text on disk, if two never had the file open: it was saved, or a failing
\* write left it, or it is empty and a save is under way.
LEMMA TextIsSound ==
  ASSUME Types, Written, ~mixed, file # NoFile
  PROVE  Text \in saved \/ Left(Text) \/ (Text = <<>> /\ Open # {})
<1>1. CASE Open = {}
  BY <1>1 DEF Written, Text
<1>2. CASE Open # {}
  <2>1. PICK q \in Open : TRUE
    BY <1>2
  <2>2. file = hand[q] /\ data[hand[q]] = <<>>
    BY <2>1 DEF Written
  <2> QED BY <1>2, <2>2 DEF Text
<1> QED BY <1>1, <1>2

\* History only grows, so what has been read soundly stays sound.
LEMMA HistoryGrows ==
  ASSUME Types, [Next]_vars
  PROVE  /\ UNCHANGED <<script, asked>>
         /\ saved \subseteq saved' /\ torn \subseteq torn'
         /\ mixed => mixed'
<1> USE DEF request, disk, history, Types
<1>1. ASSUME NEW r \in Requests, Handle(r)
      PROVE  /\ UNCHANGED <<script, asked>>
             /\ saved \subseteq saved' /\ torn \subseteq torn'
             /\ mixed => mixed'
  BY <1>1 DEF Handle, Arrive, OpenFile, FillFile, WriteFails, DeleteFile, Validate, Count,
              Name, CountJobs, Expand, Submit, Create, ReadRunbook, StatRunbook, Register
<1>2. ASSUME NEW i \in active, End(i)
      PROVE  /\ UNCHANGED <<script, asked>>
             /\ saved \subseteq saved' /\ torn \subseteq torn'
             /\ mixed => mixed'
  BY <1>2 DEF End
<1>3. CASE UNCHANGED vars
  BY <1>3 DEF vars
<1> QED BY <1>1, <1>2, <1>3 DEF Next

\* What a request has read and keeps may still be what a failing write left, and
\* stays sound.
LEMMA GotStays ==
  ASSUME Types, \A q \in Requests : Reads(q), [Next]_vars, NEW r \in Requests, got'[r] = got[r],
         Left(got[r])
  PROVE  Left(got[r])'
<1>1. PICK text : text = got[r]
  OBVIOUS
<1>2. Left(text)'
  BY <1>1, LeftStays
<1>3. got'[r] = text
  BY <1>1
<1> QED BY <1>2, <1>3

LEMMA SoundStays ==
  ASSUME Types, \A q \in Requests : Reads(q), [Next]_vars, NEW r \in Requests, got'[r] = got[r],
         Sound(r)
  PROVE  Sound(r)'
BY GotStays, HistoryGrows DEF Sound

\* What a request reads now.
LEMMA ReadIsSound ==
  ASSUME Types, Written, \A q \in Requests : Reads(q), [Next]_vars, NEW r \in Requests,
         file # NoFile, got'[r] = Text
  PROVE  got'[r] \in saved' \/ Left(got[r])' \/ mixed' \/ (got'[r] = <<>> /\ Open # {})
<1>1. CASE mixed
  BY <1>1, HistoryGrows
<1>2. CASE ~mixed
  <2>1. PICK text : text = Text
    OBVIOUS
  <2>2. text \in saved \/ Left(text) \/ (text = <<>> /\ Open # {})
    BY <1>2, <2>1, TextIsSound
  <2>3. Left(text) => Left(text)'
    BY LeftStays
  <2>4. got'[r] = text
    BY <2>1
  <2>5. Left(text)' => Left(got[r])'
    BY <2>4
  <2> QED BY <2>2, <2>3, <2>4, <2>5, HistoryGrows
<1> QED BY <1>1, <1>2

\* A request keeps what it has read while others are handled.
LEMMA ReadsFrame ==
  ASSUME Types, \A q \in Requests : Reads(q), [Next]_vars, NEW r \in Requests,
         pc'[r] = pc[r], got'[r] = got[r], answer'[r] = answer[r]
  PROVE  Reads(r)'
<1>1. Sound(r) => Sound(r)'
  BY SoundStays
<1>2. got[r] \in saved => got'[r] \in saved'
  BY HistoryGrows
<1>3. Left(got[r]) => Left(got[r])'
  BY GotStays
<1> QED BY <1>1, <1>2, <1>3, HistoryGrows DEF Reads

\* A run goes on with what it has read, and that was on disk.
LEMMA ReadsStep ==
  ASSUME Types, Types', Written, \A q \in Requests : Reads(q), NEW r \in Requests, Handle(r)
  PROVE  Reads(r)'
<1> USE DEF request, disk, history
<1>1. [Next]_vars
  BY DEF Next
<1>2. /\ UNCHANGED <<script, asked>> /\ (Sound(r) /\ got'[r] = got[r] => Sound(r)')
      /\ script \in {"workflow", "runbook"} /\ answer[r] \in {"none", "ok", "refused", "error"}
  <2>1. script \in {"workflow", "runbook"} /\ answer[r] \in {"none", "ok", "refused", "error"}
    BY DEF Types
  <2>2. UNCHANGED <<script, asked>>
    BY <1>1, HistoryGrows
  <2>3. Sound(r) /\ got'[r] = got[r] => Sound(r)'
    BY <1>1, SoundStays
  <2> QED BY <2>1, <2>2, <2>3
<1>3. CASE Arrive(r)
  <2>1. asked[r].kind \in {"put", "post", "delete", "run"}
    BY Asked
  <2>2. /\ pc[r] = "start" /\ UNCHANGED got
        /\ \/ pc'[r] = "done" /\ answer'[r] = "refused"
           \/ /\ pc'[r] = IF asked[r].kind \in {"put", "post"} THEN "open" ELSE asked[r].kind
              /\ answer'[r] = answer[r]
    BY <1>3 DEF Arrive, Types, Moves, Answers, Goto, At
  <2>3. answer[r] = "none"
    BY <2>2 DEF Reads
  <2>4. CASE asked[r].kind = "run"
    BY <1>2, <2>2, <2>3, <2>4 DEF Reads
  <2>5. CASE asked[r].kind # "run"
    BY <1>2, <2>1, <2>2, <2>3, <2>5 DEF Reads
  <2> QED BY <2>4, <2>5
<1>4. CASE OpenFile(r) \/ FillFile(r) \/ DeleteFile(r)
  <2>1. /\ pc[r] \in {"open", "fill", "delete"}
        /\ pc'[r] = "done" \/ (pc[r] = "open" /\ pc'[r] = "fill" /\ answer'[r] = answer[r])
    BY <1>4 DEF OpenFile, FillFile, DeleteFile, Types, Moves, Answers, Goto, At
  <2> QED BY <1>2, <2>1 DEF Reads
<1>5. CASE WriteFails(r)
  <2>1. pc'[r] = "done" /\ answer'[r] = "error"
    BY <1>5 DEF WriteFails, Types, Answers, Goto
  <2> QED BY <1>2, <2>1 DEF Reads
<1>6. CASE Validate(r) \/ Count(r) \/ Name(r)
  <2>1. /\ script = "workflow" \/ pc[r] = "name"
        /\ UNCHANGED got /\ pc[r] \in {"run", "count", "name"}
        /\ \/ pc'[r] = "done" /\ answer'[r] \in {"refused", "error"}
           \/ pc'[r] \in {"count", "name", "devices"} /\ answer'[r] = answer[r]
    BY <1>6 DEF Validate, Count, Name, Types, Moves, Answers, Goto, At
  <2> QED BY <1>2, <2>1 DEF Reads
<1>7. CASE CountJobs(r) \/ Expand(r)
  <2>1. /\ UNCHANGED got /\ pc[r] \in {"count", "devices"} /\ answer'[r] \in {answer[r], "refused"}
        /\ \/ pc'[r] = "done" /\ answer'[r] = "refused"
           \/ pc'[r] = "devices" /\ answer'[r] = answer[r]
           \/ /\ pc'[r] = (IF script = "workflow" THEN "submit" ELSE "register")
              /\ answer'[r] = answer[r]
    BY <1>7 DEF CountJobs, Expand, Types, Moves, Answers, Goto, At
  <2> QED BY <1>2, <2>1 DEF Reads
<1>8. CASE Submit(r)
  <2>1. /\ pc[r] = "submit"
        /\ \/ pc'[r] = "done" /\ answer'[r] = "error"
           \/ /\ pc'[r] = "create" /\ answer'[r] = answer[r]
              /\ file # NoFile /\ got'[r] = Text /\ (Open # {} => r \in torn')
    BY <1>8 DEF Submit, Types, Moves, Answers, Goto, At
  <2>2. ASSUME script = "workflow", file # NoFile, got'[r] = Text, Open # {} => r \in torn'
        PROVE  Sound(r)'
    <3>1. got'[r] \in saved' \/ Left(got[r])' \/ mixed' \/ (got'[r] = <<>> /\ r \in torn')
      BY <1>1, <2>2, ReadIsSound
    <3> QED BY <1>2, <2>2, <3>1 DEF Sound
  <2> QED BY <1>2, <2>1, <2>2 DEF Reads
<1>9. CASE Create(r)
  <2>1. /\ pc[r] = "create" /\ UNCHANGED got
        /\ \/ pc'[r] = "done" /\ answer'[r] = "error"
           \/ pc'[r] = "register" /\ answer'[r] = answer[r]
    BY <1>9 DEF Create, Types, Moves, Answers, Goto, At
  <2> QED BY <1>2, <2>1 DEF Reads
<1>10. CASE ReadRunbook(r)
  <2>1. /\ script = "runbook"
        /\ \/ pc'[r] = "done" /\ answer'[r] = "error"
           \/ /\ pc'[r] = "stat" /\ answer'[r] = answer[r] /\ file # NoFile /\ got'[r] = Text
    BY <1>10 DEF ReadRunbook, Types, Moves, Answers, Goto
  <2>2. file # NoFile /\ got'[r] = Text => got'[r] = <<>> \/ got'[r] \in saved' \/ mixed' \/ Left(got[r])'
    BY <1>1, ReadIsSound
  <2>3. pc[r] = "run"
    BY <1>10 DEF ReadRunbook, At
  <2> QED BY <1>2, <2>1, <2>2, <2>3 DEF Reads
<1>11. CASE StatRunbook(r)
  <2>1. /\ pc[r] = "stat" /\ UNCHANGED got
        /\ \/ pc'[r] = "done" /\ answer'[r] \in {"error", "refused"}
           \/ pc'[r] = "count" /\ answer'[r] = answer[r] /\ got[r] # <<>>
    BY <1>11 DEF StatRunbook, HasCommands, Types, Moves, Answers, Goto, At
  <2>2. /\ asked[r].kind = "run" /\ script = "runbook" /\ got[r] # <<>> => Sound(r)
    BY <2>1 DEF Reads, Sound
  <2> QED BY <1>2, <2>1, <2>2 DEF Reads
<1>12. CASE Register(r)
  <2>1. pc[r] = "register" /\ UNCHANGED got /\ pc'[r] = "done" /\ answer'[r] = "ok"
    BY <1>12 DEF Register, Types, Answers, Goto, At
  <2> QED BY <1>2, <2>1 DEF Reads
<1> QED BY <1>3, <1>4, <1>5, <1>6, <1>7, <1>8, <1>9, <1>10, <1>11, <1>12 DEF Handle

\* A handler moves nobody else on.
LEMMA HandleFrame ==
  ASSUME Types, NEW r \in Requests, Handle(r), NEW q \in Requests, q # r
  PROVE  pc'[q] = pc[q] /\ got'[q] = got[q] /\ answer'[q] = answer[q]
<1> USE DEF request, Types, Moves, Answers, Goto
<1>1. CASE Arrive(r) \/ OpenFile(r) \/ FillFile(r) \/ WriteFails(r) \/ DeleteFile(r)
  BY <1>1 DEF Arrive, OpenFile, FillFile, WriteFails, DeleteFile
<1>2. CASE Validate(r) \/ Count(r) \/ Name(r) \/ CountJobs(r) \/ Expand(r) \/ Create(r)
  BY <1>2 DEF Validate, Count, Name, CountJobs, Expand, Create
<1>3. CASE Submit(r) \/ ReadRunbook(r) \/ StatRunbook(r) \/ Register(r)
  BY <1>3 DEF Submit, ReadRunbook, StatRunbook, Register
<1> QED BY <1>1, <1>2, <1>3 DEF Handle

-----------------------------------------------------------------------------
(* The invariant and what follows from it                                  *)

LEMMA ScriptInit == Init => ScriptInv
<1> SUFFICES ASSUME Init PROVE ScriptInv
  OBVIOUS
<1>1. PICK t \in First :
        /\ file = IF t = <<>> THEN NoFile ELSE "disk"
        /\ data = [i \in Requests \cup {"disk"} |-> IF i = "disk" THEN t ELSE <<>>]
        /\ saved = {t} \ {<<>>}
  BY DEF Init
<1>2. Types
  <2>1. script \in {"workflow", "runbook"} /\ asked \in Scenarios /\ t \in Seq(Lines)
    BY ScriptAssumption DEF Init, ScriptAssumption
  <2>2. <<>> \in Seq(Lines)
    OBVIOUS
  <2>3. data \in [Requests \cup {"disk"} -> Seq(Lines)] /\ file \in {"disk", NoFile}
    BY <1>1, <2>1, <2>2
  <2>4. IsFiniteSet({})
    BY FS_EmptySet
  <2> QED BY <2>1, <2>2, <2>3, <2>4 DEF Init, Types, Places
<1>3. Admitted
  <2>1. Between = {} /\ active = {} /\ peak = 0
    BY DEF Init, Between
  <2>2. Cardinality({}) = 0
    BY FS_EmptySet
  <2> QED BY <2>1, <2>2, ScriptAssumption DEF Admitted, ScriptAssumption
<1>4. Written
  <2>1. Open = {}
    BY DEF Init, Open
  <2>2. file # NoFile => data[file] \in saved
    BY <1>1 DEF NoFile
  <2> QED BY <2>1, <2>2 DEF Written
<1>5. \A r \in Requests : Reads(r)
  BY DEF Init, Reads
<1> QED BY <1>2, <1>3, <1>4, <1>5 DEF ScriptInv

LEMMA ScriptStep == ScriptInv /\ [Next]_vars => ScriptInv'
<1> SUFFICES ASSUME ScriptInv, [Next]_vars PROVE ScriptInv'
  OBVIOUS
<1>1. Types /\ Admitted /\ Written /\ \A r \in Requests : Reads(r)
  BY DEF ScriptInv
<1>2. Types' /\ Admitted' /\ Written'
  BY <1>1, TypesKept, AdmittedKept, WrittenKept
<1>3. ASSUME NEW q \in Requests PROVE Reads(q)'
  <2>1. CASE \E r \in Requests : Handle(r)
    <3>1. PICK r \in Requests : Handle(r)
      BY <2>1
    <3>2. CASE q = r
      BY <1>1, <1>2, <3>1, <3>2, ReadsStep
    <3>3. CASE q # r
      BY <1>1, <1>2, <3>1, <3>3, HandleFrame, ReadsFrame
    <3> QED BY <3>2, <3>3
  <2>2. CASE (\E i \in active : End(i)) \/ UNCHANGED vars
    <3>1. UNCHANGED <<pc, got, answer>>
      BY <2>2 DEF End, vars, request
    <3> QED BY <1>1, <1>2, <3>1, ReadsFrame
  <2> QED BY <2>1, <2>2 DEF Next
<1> QED BY <1>2, <1>3 DEF ScriptInv

\* The files of workflows and runbooks keep their invariant.
THEOREM ScriptInvariance == Spec => []ScriptInv
<1> QED BY ScriptInit, ScriptStep, PTL DEF Spec

\* More than max_queue_depth workflows may be active, but only by as many as
\* were between counting and registering at the same time, less one.
THEOREM Overshoot == Spec => []OvershootBounded
<1>1. ScriptInv => OvershootBounded
  <2> SUFFICES ASSUME ScriptInv PROVE OvershootBounded
    OBVIOUS
  <2>1. /\ Cardinality(active) \in Nat /\ peak \in Nat /\ Depth \in Nat /\ Depth >= 1
        /\ Cardinality(Between) \in Nat /\ Cardinality({}) = 0
    BY BetweenFinite, FS_CardinalityType, FS_EmptySet, ScriptAssumption
       DEF ScriptInv, Types, ScriptAssumption
  <2>2. CASE script = "workflow"
    BY <2>1, <2>2 DEF ScriptInv, Admitted, OvershootBounded
  <2>3. CASE script = "runbook"
    BY <2>1, <2>3 DEF ScriptInv, Admitted, OvershootBounded
  <2> QED BY <2>2, <2>3 DEF ScriptInv, Types
<1> QED BY <1>1, ScriptInvariance, PTL

\* What a successful run started was saved as it is, unless saves overlapped; or
\* it is what a save answered with an error has left of a text, or the empty
\* workflow of a save under way.
THEOREM RunsWereSaved == Spec => []SavedIsRun
<1>1. ScriptInv => SavedIsRun
  <2> SUFFICES ASSUME ScriptInv, NEW r \in Requests, asked[r].kind = "run", answer[r] = "ok"
               PROVE  Sound(r)
    BY DEF SavedIsRun, Sound, Left
  <2> QED BY DEF ScriptInv, Types, Reads
<1> QED BY <1>1, ScriptInvariance, PTL
=============================================================================
