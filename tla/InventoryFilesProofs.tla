------------------------ MODULE InventoryFilesProofs ------------------------
(***************************************************************************)
(* What the inventory directory and the client's cache keep to, whatever   *)
(* the requests, the files and the number of failing writes.               *)
(***************************************************************************)
EXTENDS InventoryFiles, FiniteSetTheorems, TLAPS

-----------------------------------------------------------------------------
(* The inductive invariant                                                 *)

Inodes == ({"disk"} \cup Requests) \X Names
Places == {"start", "open_tmp", "fill", "replace", "unlink", "scan", "read", "open", "reload",
           "load", "parse", "done"}

Types ==
  /\ asked \in Scenarios
  /\ pc \in [Requests -> Places] /\ todo \in [Requests -> Seq(Names)]
  /\ hand \in [Requests -> Inodes \cup {NoFile}] /\ DOMAIN read = Requests
  /\ marks \in [Requests -> SUBSET {"changed", "failed"}]
  /\ answer \in [Requests -> {"none", "ok", "refused", "error"}]
  /\ file \in [Names -> Inodes \cup {NoFile}] /\ tmp \in [Names -> Inodes \cup {NoFile}]
  /\ \A f \in Names : /\ file[f] # NoFile => file[f][2] = f
                      /\ tmp[f] # NoFile => tmp[f][2] = f
  /\ DOMAIN data = Inodes
  /\ missed \subseteq Requests /\ missing \subseteq Requests /\ overlapped \subseteq Requests

\* A request is somewhere in its own handler, and what it has open is the file
\* it is about.
Placed(r) ==
  /\ \/ asked[r].kind \in {"put", "post"}
        /\ pc[r] \in {"start", "open_tmp", "fill", "replace", "reload", "done"}
     \/ asked[r].kind = "delete" /\ pc[r] \in {"start", "unlink", "reload", "done"}
     \/ asked[r].kind = "delete_hosts" /\ pc[r] \in {"start", "scan", "open", "fill", "reload", "done"}
     \/ asked[r].kind = "add" /\ pc[r] \in {"start", "read", "open", "fill", "reload", "done"}
     \/ asked[r].kind = "reload" /\ pc[r] \in {"start", "reload", "done"}
     \/ asked[r].kind = "load" /\ pc[r] \in {"start", "load", "parse", "done"}
  /\ asked[r].kind = "delete_hosts" /\ pc[r] \in {"open", "fill"} => todo[r] # <<>>
  /\ pc[r] \in {"fill", "replace"} => hand[r] \in Inodes /\ hand[r][2] = File(r)

\* A request has its answer when it is done, and a failed file is in it.
Answered(r) ==
  /\ pc[r] # "done" => answer[r] = "none"
  /\ pc[r] \in {"start", "read"} => read[r] = <<>>
  /\ pc[r] = "start" \/ asked[r].kind # "delete_hosts" => marks[r] = {}
  /\ pc[r] = "done" /\ "failed" \in marks[r] => answer[r] = "error"

\* Who has written what the cache, or the parse going on, does not show is not
\* through with reload(), the one exception being a handler that has failed.
Late == missed \cup missing
Shown ==
  /\ lock = "free" => missing = {}
  /\ \A r \in Late : /\ asked[r].kind \in Writes /\ pc[r] # "start" /\ answer[r] # "ok"
                     /\ pc[r] = "scan" => marks[r] # {}

\* Requests that write together are overlapped; an inode carries the name of
\* the request that created it.
Overlaps == \A r, q \in Writing : r # q => r \in overlapped
Unused ==
  \A r \in Requests, f \in Names :
    <<r, f>> = file[f] \/ <<r, f>> = tmp[f] => pc[r] \notin {"start", "open_tmp"}

\* Some answer has, or will have, said that a file is not what was meant.
Excused ==
  \/ \E r \in Requests : answer[r] = "error" \/ "failed" \in marks[r]
  \/ \E r \in overlapped : asked[r].kind \in Rewrites

\* Who has the temporary file of f open, and who will find it gone.
Holders(f) ==
  {r \in Requests : /\ asked[r].kind \in {"put", "post"} /\ asked[r].file = f
                    /\ pc[r] \in {"fill", "replace"}}
Doomed(f) == \E r \in Holders(f) : tmp[f] = NoFile \/ \E q \in Holders(f) : q # r

\* A temporary file has one holder, and is empty or what its holder meant.
Held(f) ==
  tmp[f] # NoFile =>
    \E r \in Holders(f) : /\ hand[r] = tmp[f] /\ tmp[f] # file[f]
                          /\ pc[r] = "fill" => data[tmp[f]] = <<>>
                          /\ pc[r] = "replace" => data[tmp[f]] \in whole
Clean(f) == file[f] = NoFile \/ data[file[f]] \in whole
Editing(f) ==
  \E r \in Requests : asked[r].kind \in Rewrites /\ pc[r] = "fill" /\ File(r) = f
Settled(f) == Held(f) /\ (Clean(f) \/ Editing(f))

\* Who rewrites a file in place has read what is in it, and fills it next.
Edits(r) ==
  /\ pc[r] = "open" =>
       \/ file[File(r)] # NoFile /\ read[r] = data[file[File(r)]] /\ read[r] \in whole
       \/ file[File(r)] = NoFile /\ read[r] = <<>>
  /\ asked[r].kind \in Rewrites /\ pc[r] = "fill" =>
       /\ hand[r] = file[File(r)]
       /\ IF Extends(r)
          THEN data[hand[r]] \in whole
          ELSE data[hand[r]] = <<>> /\ read[r] \in whole \cup {<<>>}
Meant ==
  Excused \/ /\ \A f \in Names : Doomed(f) \/ Settled(f)
             /\ \A r \in Requests : Edits(r)

InventoryInv ==
  /\ Types /\ \A r \in Requests : Placed(r) /\ Answered(r)
  /\ Shown /\ Overlaps /\ Unused /\ Meant


-----------------------------------------------------------------------------
(* Requests, files and inodes                                              *)

\* What a request may ask for.
LEMMA Asked ==
  ASSUME asked \in Scenarios, NEW r \in Requests
  PROVE  asked[r].kind \in Kinds /\ asked[r].file \in Names /\ asked[r].target \in {"existing", "new"}
BY InventoryAssumption DEF InventoryAssumption

\* What sorted() makes of the names on disk.
LEMMA PublishedNames == Published \in Seq(Names)
BY InventoryAssumption DEF InventoryAssumption, Published

\* The file a request is about has a name.
LEMMA FileIsName ==
  ASSUME Types, NEW r \in Requests, Placed(r),
         pc[r] \in {"open_tmp", "fill", "replace", "unlink", "read", "open"}
  PROVE  File(r) \in Names
<1>1. CASE asked[r].kind = "delete_hosts"
  <2>1. todo[r] \in Seq(Names) /\ todo[r] # <<>>
    BY <1>1 DEF Types, Placed
  <2> QED BY <1>1, <2>1 DEF File
<1>2. CASE asked[r].kind # "delete_hosts"
  BY <1>2, Asked DEF File, Types
<1> QED BY <1>1, <1>2

\* Inodes are no NoFile, and are told apart by who created them.
LEMMA InodeIsFile ==
  /\ \A i \in Inodes : i # NoFile
  /\ \A r \in Requests, f \in Names : <<r, f>> \in Inodes /\ <<r, f>>[2] = f /\ <<r, f>> # <<"disk", f>>
BY InventoryAssumption DEF InventoryAssumption, Inodes, NoFile

\* Two members are enough for Marks.
LEMMA TwoAreMany ==
  ASSUME NEW S, IsFiniteSet(S), NEW a \in S, NEW b \in S, a # b
  PROVE  Cardinality(S) > 1
<1>1. Cardinality({a}) = 1 /\ IsFiniteSet({a}) /\ b \notin {a}
  BY FS_Singleton
<1>2. Cardinality({a} \cup {b}) = 2
  BY <1>1, FS_AddElement
<1>3. {a} \cup {b} \subseteq S
  OBVIOUS
<1> QED BY <1>2, <1>3, FS_Subset, FS_CardinalityType

\* A step is one request's; the others stay where they are.
LEMMA OthersStay ==
  ASSUME Types, NEW r \in Requests, Handle(r)
  PROVE  /\ asked' = asked
         /\ \A q \in Requests \ {r} :
              /\ pc'[q] = pc[q] /\ read'[q] = read[q] /\ todo'[q] = todo[q] /\ hand'[q] = hand[q]
              /\ marks'[q] = marks[q] /\ answer'[q] = answer[q]
<1> USE DEF Types, Set, Goto, Answers, request, disk, cache
<1>1. CASE Start(r) \/ Scan(r) \/ ReadFile(r) \/ ReadFails(r) \/ Reload(r) \/ Load(r) \/ ParseAll(r)
  BY <1>1 DEF Start, Scan, NextFile, ReadFile, ReadFails, Reload, Load, ParseAll
<1>2. CASE OpenTmp(r) \/ Replace(r) \/ Unlink(r) \/ Open(r)
  BY <1>2 DEF OpenTmp, Replace, Unlink, Open, Opens
<1>3. CASE Fill(r) \/ WriteFails(r)
  BY <1>3 DEF Fill, WriteFails, NextFile
<1> QED BY <1>1, <1>2, <1>3 DEF Handle

\* What a write that fails leaves behind.
LEMMA FailureLeaves ==
  ASSUME NEW r \in Requests, WriteFails(r)
  PROVE  /\ pc[r] \in {"open_tmp", "open", "fill"} /\ Marks
         /\ UNCHANGED <<asked, read, hand, file, whole>>
         /\ DOMAIN data' = DOMAIN data /\ (ChangesInode(r, hand[r]) \/ UNCHANGED cache)
         /\ asked[r].kind = "delete_hosts" =>
              /\ pc' = [pc EXCEPT ![r] = "scan"] /\ todo' = [todo EXCEPT ![r] = Tail(todo[r])]
              /\ marks' = [marks EXCEPT ![r] = marks[r] \cup {"failed"}] /\ answer' = answer
         /\ asked[r].kind # "delete_hosts" =>
              /\ pc' = [pc EXCEPT ![r] = "done"] /\ answer' = [answer EXCEPT ![r] = "error"]
              /\ UNCHANGED <<todo, marks>>
         /\ tmp' = tmp \/ tmp' = [tmp EXCEPT ![File(r)] = NoFile]
<1>1. /\ pc[r] \in {"open_tmp", "open", "fill"} /\ Marks
      /\ UNCHANGED <<asked, read, hand, file, whole>>
      /\ DOMAIN data' = DOMAIN data /\ (ChangesInode(r, hand[r]) \/ UNCHANGED cache)
  BY DEF WriteFails, Set
<1>2. ASSUME asked[r].kind = "delete_hosts"
      PROVE  /\ pc' = [pc EXCEPT ![r] = "scan"] /\ todo' = [todo EXCEPT ![r] = Tail(todo[r])]
             /\ marks' = [marks EXCEPT ![r] = marks[r] \cup {"failed"}] /\ answer' = answer
  <2>1. NextFile(r) /\ marks' = Set(marks, r, marks[r] \cup {"failed"}) /\ answer' = answer
    BY <1>2 DEF WriteFails
  <2> QED BY <1>2, <2>1 DEF NextFile, Goto, Set
<1>3. ASSUME asked[r].kind # "delete_hosts"
      PROVE  /\ pc' = [pc EXCEPT ![r] = "done"] /\ answer' = [answer EXCEPT ![r] = "error"]
             /\ UNCHANGED <<todo, marks>>
  <2>1. Answers(r, "error") /\ UNCHANGED <<todo, marks>>
    BY <1>3 DEF WriteFails
  <2> QED BY <1>3, <2>1 DEF Answers, Goto, Set
<1>4. tmp' = tmp \/ tmp' = [tmp EXCEPT ![File(r)] = NoFile]
  BY DEF WriteFails, Set
<1> QED BY <1>1, <1>2, <1>3, <1>4

\* What a read that fails leaves behind.
LEMMA UnreadLeaves ==
  ASSUME NEW r \in Requests, ReadFails(r), Placed(r)
  PROVE  /\ UNCHANGED <<asked, read, hand, marks, file, tmp, data, lock, cached, missed, missing, whole>>
         /\ Marks
         /\ asked[r].kind = "delete_hosts" =>
              /\ pc[r] = "scan" /\ todo[r] # <<>> /\ answer' = answer
              /\ pc' = [pc EXCEPT ![r] = "scan"] /\ todo' = [todo EXCEPT ![r] = Tail(todo[r])]
         /\ asked[r].kind # "delete_hosts" =>
              /\ pc[r] = "read" /\ todo' = todo
              /\ pc' = [pc EXCEPT ![r] = "done"] /\ answer' = [answer EXCEPT ![r] = "error"]
<1>1. /\ UNCHANGED <<asked, read, hand, marks, file, tmp, data, lock, cached, missed, missing, whole>>
      /\ Marks
  BY DEF ReadFails, disk, cache
<1>2. ASSUME asked[r].kind = "delete_hosts"
      PROVE  /\ pc[r] = "scan" /\ todo[r] # <<>> /\ answer' = answer
             /\ pc' = [pc EXCEPT ![r] = "scan"] /\ todo' = [todo EXCEPT ![r] = Tail(todo[r])]
  BY <1>2 DEF ReadFails, Placed, At, NextFile, Goto, Set
<1>3. ASSUME asked[r].kind # "delete_hosts"
      PROVE  /\ pc[r] = "read" /\ todo' = todo
             /\ pc' = [pc EXCEPT ![r] = "done"] /\ answer' = [answer EXCEPT ![r] = "error"]
  BY <1>3 DEF ReadFails, Placed, At, Answers, Goto, Set
<1> QED BY <1>1, <1>2, <1>3

\* Nobody is taken out of overlapped, and it holds requests.
LEMMA MarksKept ==
  ASSUME Types, Marks
  PROVE  overlapped \subseteq overlapped' /\ overlapped' \subseteq Requests
BY DEF Types, Marks, Writing


-----------------------------------------------------------------------------
(* Types                                                                   *)

\* Every step keeps them.
LEMMA TypesKept ==
  ASSUME Types, \A r \in Requests : Placed(r), [Next]_vars PROVE Types'
<1>1. CASE UNCHANGED vars
  BY <1>1 DEF Types, vars, request, disk, cache
<1>2. ASSUME NEW r \in Requests, Handle(r) PROVE Types'
  <2> USE DEF request, disk, cache, Set
  <2>1. overlapped' \subseteq Requests /\ asked' = asked
    <3>1. Marks
      BY <1>2 DEF Handle, Start, OpenTmp, Replace, Unlink, Scan, ReadFile, ReadFails, Open, Fill, WriteFails,
                  Reload, Load, ParseAll
    <3> QED BY <1>2, <3>1, MarksKept, OthersStay
  <2>2. pc' \in [Requests -> Places] /\ answer' \in [Requests -> {"none", "ok", "refused", "error"}]
    <3> USE DEF Types, Goto, Answers, Places
    <3> HIDE DEF Types
    <3>1. /\ \E p \in Places : pc' = [pc EXCEPT ![r] = p] \/ pc' = pc
          /\ \E a \in {"ok", "refused", "error"} : answer' = [answer EXCEPT ![r] = a] \/ answer' = answer
      <4>1. CASE Start(r)
        BY <4>1 DEF Start
      <4>2. CASE Scan(r) \/ ReadFile(r) \/ ReadFails(r)
        BY <4>2 DEF Scan, NextFile, ReadFile, ReadFails
      <4>3. CASE Reload(r) \/ Load(r)
        BY <4>3 DEF Reload, Verdict, Load
      <4>4. CASE ParseAll(r)
        BY <4>4 DEF ParseAll
      <4>5. CASE OpenTmp(r) \/ Open(r)
        BY <4>5 DEF OpenTmp, Open
      <4>6. CASE Replace(r) \/ Unlink(r)
        BY <4>6 DEF Replace, Unlink
      <4>7. CASE Fill(r)
        BY <4>7 DEF Fill, NextFile
      <4>8. CASE WriteFails(r)
        BY <4>8, FailureLeaves
      <4> QED BY <1>2, <4>1, <4>2, <4>3, <4>4, <4>5, <4>6, <4>7, <4>8 DEF Handle
    <3>2. pc \in [Requests -> Places] /\ answer \in [Requests -> {"none", "ok", "refused", "error"}]
      BY DEF Types
    <3> HIDE DEF Places
    <3> QED BY <3>1, <3>2
  <2>3. todo' \in [Requests -> Seq(Names)] /\ DOMAIN read' = Requests
    <3>1. todo[r] \in Seq(Names) /\ (todo[r] # <<>> => Tail(todo[r]) \in Seq(Names))
      BY DEF Types
    <3>2. /\ DOMAIN read' = DOMAIN read
          /\ \E t \in Seq(Names) : todo' = [todo EXCEPT ![r] = t] \/ todo' = todo
      <4>1. CASE Start(r) \/ ReadFile(r)
        BY <4>1, PublishedNames DEF Start, ReadFile
      <4>2. CASE Scan(r)
        BY <3>1, <4>2 DEF Scan, NextFile
      <4>3. CASE OpenTmp(r) \/ Replace(r) \/ Unlink(r) \/ Open(r) \/ Reload(r)
        BY <3>1, <4>3 DEF OpenTmp, Replace, Unlink, Open, Reload
      <4>4. CASE Fill(r)
        <5>1. asked[r].kind = "delete_hosts" => todo[r] # <<>>
          BY <4>4 DEF Fill, At, Placed
        <5> QED BY <3>1, <4>4, <5>1 DEF Fill, NextFile
      <4>5. CASE WriteFails(r)
        <5>1. asked[r].kind = "delete_hosts" => todo[r] # <<>>
          BY <4>5, FailureLeaves DEF Placed
        <5> QED BY <3>1, <4>5, <5>1, FailureLeaves
      <4>6. CASE Load(r) \/ ParseAll(r)
        BY <3>1, <4>6, PublishedNames DEF Load, ParseAll
      <4>7. CASE ReadFails(r)
        BY <3>1, <4>7, UnreadLeaves
      <4> QED BY <1>2, <4>1, <4>2, <4>3, <4>4, <4>5, <4>6, <4>7 DEF Handle
    <3>3. todo \in [Requests -> Seq(Names)] /\ DOMAIN read = Requests
      BY DEF Types
    <3> QED BY <3>2, <3>3
  <2>4. /\ hand' \in [Requests -> Inodes \cup {NoFile}] /\ DOMAIN data' = Inodes
        /\ marks' \in [Requests -> SUBSET {"changed", "failed"}]
    <3>1. CASE Start(r) \/ Scan(r) \/ ReadFile(r) \/ ReadFails(r) \/ Reload(r) \/ Load(r) \/ ParseAll(r)
      BY <3>1 DEF Start, Scan, ReadFile, ReadFails, Reload, Load, ParseAll, Types
    <3>2. CASE OpenTmp(r) \/ Open(r)
      <4>1. File(r) \in Names
        BY <3>2, FileIsName DEF OpenTmp, Open, At
      <4>2. <<r, File(r)>> \in Inodes /\ tmp[File(r)] \in Inodes \cup {NoFile}
            /\ file[File(r)] \in Inodes \cup {NoFile}
        BY <4>1, InodeIsFile DEF Types
      <4> QED BY <3>2, <4>2 DEF OpenTmp, Open, Opens, Types
    <3>3. CASE Replace(r) \/ Unlink(r)
      BY <3>3 DEF Replace, Unlink, Types
    <3>4. CASE Fill(r) \/ WriteFails(r)
      <4>1. hand' = hand /\ DOMAIN data' = DOMAIN data
        BY <3>4 DEF Fill, WriteFails
      <4>2. \/ marks' = marks \/ marks' = [marks EXCEPT ![r] = marks[r] \cup {"changed"}]
            \/ marks' = [marks EXCEPT ![r] = marks[r] \cup {"failed"}]
        BY <3>4 DEF Fill, WriteFails
      <4>3. /\ marks[r] \cup {"changed"} \in SUBSET {"changed", "failed"}
            /\ marks[r] \cup {"failed"} \in SUBSET {"changed", "failed"}
            /\ marks \in [Requests -> SUBSET {"changed", "failed"}]
        BY DEF Types
      <4>4. marks' \in [Requests -> SUBSET {"changed", "failed"}]
        BY <4>2, <4>3
      <4> QED BY <4>1, <4>4 DEF Types
    <3> QED BY <1>2, <3>1, <3>2, <3>3, <3>4 DEF Handle
  <2>5. /\ file' \in [Names -> Inodes \cup {NoFile}] /\ tmp' \in [Names -> Inodes \cup {NoFile}]
        /\ \A f \in Names : /\ file'[f] # NoFile => file'[f][2] = f
                            /\ tmp'[f] # NoFile => tmp'[f][2] = f
    <3>1. CASE Start(r) \/ Scan(r) \/ ReadFile(r) \/ ReadFails(r) \/ Reload(r) \/ Load(r) \/ ParseAll(r) \/ Fill(r)
      BY <3>1 DEF Start, Scan, ReadFile, ReadFails, Reload, Load, ParseAll, Fill, Types
    <3>2. CASE OpenTmp(r) \/ Open(r)
      <4>1. File(r) \in Names
        BY <3>2, FileIsName DEF OpenTmp, Open, At
      <4>2. PICK i : i = <<r, File(r)>> /\ i \in Inodes /\ i[2] = File(r)
        BY <4>1, InodeIsFile
      <4>3. \/ file' = file /\ (tmp' = tmp \/ tmp' = [tmp EXCEPT ![File(r)] = i])
            \/ tmp' = tmp /\ file' = [file EXCEPT ![File(r)] = i]
        BY <3>2, <4>2 DEF OpenTmp, Open
      <4>4. i \in Inodes /\ i[2] = File(r)
        BY <4>2
      <4>5. /\ file \in [Names -> Inodes \cup {NoFile}] /\ tmp \in [Names -> Inodes \cup {NoFile}]
            /\ \A f \in Names : /\ file[f] # NoFile => file[f][2] = f
                                /\ tmp[f] # NoFile => tmp[f][2] = f
        BY DEF Types
      <4>6. CASE file' = file /\ tmp' = tmp
        BY <4>5, <4>6
      <4>7. CASE file' = file /\ tmp' = [tmp EXCEPT ![File(r)] = i]
        BY <4>1, <4>4, <4>5, <4>7
      <4>8. CASE tmp' = tmp /\ file' = [file EXCEPT ![File(r)] = i]
        BY <4>1, <4>4, <4>5, <4>8
      <4> QED BY <4>3, <4>6, <4>7, <4>8
    <3>3. CASE Replace(r) \/ Unlink(r)
      <4>1. File(r) \in Names
        BY <3>3, FileIsName DEF Replace, Unlink, At
      <4> QED BY <3>3, <4>1 DEF Replace, Unlink, Types
    <3>4. CASE WriteFails(r)
      <4>1. File(r) \in Names
        BY <3>4, FailureLeaves, FileIsName
      <4>2. file' = file /\ (tmp' = tmp \/ tmp' = [tmp EXCEPT ![File(r)] = NoFile])
        BY <3>4, FailureLeaves
      <4> QED BY <4>1, <4>2 DEF Types
    <3> QED BY <1>2, <3>1, <3>2, <3>3, <3>4 DEF Handle
  <2>6. missed' \subseteq Requests /\ missing' \subseteq Requests
    <3> USE DEF Types, Changes, ChangesInode
    <3>1. CASE Start(r) \/ Scan(r) \/ ReadFile(r) \/ ReadFails(r) \/ Reload(r) \/ Load(r) \/ ParseAll(r)
      BY <3>1 DEF Start, Scan, ReadFile, ReadFails, Reload, Load, ParseAll
    <3>2. CASE OpenTmp(r) \/ Replace(r) \/ Unlink(r) \/ Open(r) \/ Fill(r) \/ WriteFails(r)
      BY <3>2 DEF OpenTmp, Replace, Unlink, Open, Fill, WriteFails
    <3> QED BY <1>2, <3>1, <3>2 DEF Handle
  <2> QED BY <2>1, <2>2, <2>3, <2>4, <2>5, <2>6 DEF Types
<1> QED BY <1>1, <1>2 DEF Next


-----------------------------------------------------------------------------
(* Handlers                                                                *)

\* Every step leaves each request in its own handler.
LEMMA PlacedKept ==
  ASSUME Types, \A r \in Requests : Placed(r), [Next]_vars
  PROVE  \A r \in Requests : Placed(r)'
<1>1. CASE UNCHANGED vars
  BY <1>1 DEF Placed, File, vars, request
<1>2. ASSUME NEW r \in Requests, Handle(r), NEW q \in Requests PROVE Placed(q)'
  <2>1. CASE q # r
    <3>1. /\ asked' = asked /\ pc'[q] = pc[q] /\ todo'[q] = todo[q] /\ hand'[q] = hand[q]
      BY <1>2, <2>1, OthersStay
    <3> QED BY <3>1 DEF Placed, File
  <2>2. ASSUME q = r PROVE Placed(r)'
    <3> USE DEF Set, Goto, Answers, At, disk, cache
    <3>0. asked' = asked /\ pc \in [Requests -> Places] /\ todo \in [Requests -> Seq(Names)]
          /\ hand \in [Requests -> Inodes \cup {NoFile}]
      BY <1>2, OthersStay DEF Types
    <3>1. CASE Start(r)
      <4>1. pc'[r] \notin {"fill", "replace"}
        BY <3>0, <3>1 DEF Start
      <4>2. \/ asked[r].kind \in {"put", "post"} /\ pc'[r] \in {"open_tmp", "done"}
            \/ asked[r].kind = "delete" /\ pc'[r] \in {"unlink", "done"}
            \/ asked[r].kind = "delete_hosts" /\ pc'[r] = "scan"
            \/ asked[r].kind = "add" /\ pc'[r] \in {"read", "open", "done"}
            \/ asked[r].kind = "reload" /\ pc'[r] = "reload"
            \/ asked[r].kind = "load" /\ pc'[r] = "load"
        BY <3>0, <3>1 DEF Start, Placed
      <4> QED BY <3>0, <4>1, <4>2 DEF Placed
    <3>2. CASE OpenTmp(r)
      <4>1. pc[r] = "open_tmp" /\ pc'[r] = "fill"
        BY <3>0, <3>2 DEF OpenTmp
      <4>2. asked[r].kind \in {"put", "post"} /\ File(r) \in Names
        BY <4>1, FileIsName DEF Placed
      <4>3. hand'[r] \in Inodes /\ hand'[r][2] = File(r)
        <5>1. CASE tmp[File(r)] = NoFile
          BY <3>0, <3>2, <4>2, <5>1, InodeIsFile DEF OpenTmp, Opens
        <5>2. CASE tmp[File(r)] # NoFile
          <6>1. hand'[r] = tmp[File(r)]
            BY <3>0, <3>2, <5>2 DEF OpenTmp, Opens
          <6> QED BY <4>2, <5>2, <6>1 DEF Types
        <5> QED BY <5>1, <5>2
      <4>4. File(r)' = File(r)
        BY <3>0, <4>2 DEF File
      <4> QED BY <3>0, <4>1, <4>2, <4>3, <4>4 DEF Placed
    <3>3. CASE Open(r)
      <4>1. pc[r] = "open" /\ pc'[r] = "fill" /\ todo' = todo
        BY <3>0, <3>3 DEF Open
      <4>2. asked[r].kind \in {"add", "delete_hosts"} /\ File(r) \in Names
        BY <4>1, FileIsName DEF Placed
      <4>3. hand'[r] \in Inodes /\ hand'[r][2] = File(r)
        <5>1. CASE file[File(r)] = NoFile
          BY <3>0, <3>3, <4>2, <5>1, InodeIsFile DEF Open, Opens
        <5>2. CASE file[File(r)] # NoFile
          <6>1. hand'[r] = file[File(r)]
            BY <3>0, <3>3, <5>2 DEF Open, Opens
          <6> QED BY <4>2, <5>2, <6>1 DEF Types
        <5> QED BY <5>1, <5>2
      <4>4. File(r)' = File(r)
        BY <3>0, <4>1 DEF File
      <4> QED BY <3>0, <4>1, <4>2, <4>3, <4>4 DEF Placed
    <3>4. CASE Fill(r)
      <4>1. CASE asked[r].kind = "delete_hosts"
        <5>1. pc'[r] = "scan"
          BY <3>0, <3>4, <4>1 DEF Fill, NextFile
        <5> QED BY <3>0, <4>1, <5>1 DEF Placed
      <4>2. CASE asked[r].kind # "delete_hosts"
        <5>1. /\ pc[r] = "fill" /\ pc'[r] = IF asked[r].kind = "add" THEN "reload" ELSE "replace"
              /\ todo' = todo /\ hand' = hand
          BY <3>0, <3>4, <4>2 DEF Fill
        <5>2. File(r)' = File(r)
          BY <3>0, <5>1 DEF File
        <5> QED BY <3>0, <4>2, <5>1, <5>2 DEF Placed
      <4> QED BY <4>1, <4>2
    <3>5. CASE WriteFails(r)
      <4>1. \/ asked[r].kind = "delete_hosts" /\ pc'[r] = "scan"
            \/ asked[r].kind # "delete_hosts" /\ pc'[r] = "done"
        BY <3>0, <3>5, FailureLeaves
      <4>2. pc[r] \in {"open_tmp", "open", "fill"}
        BY <3>5, FailureLeaves
      <4> QED BY <3>0, <4>1, <4>2 DEF Placed
    <3>6. CASE Replace(r) \/ Unlink(r)
      <4>1. pc[r] \in {"replace", "unlink"} /\ pc'[r] \in {"reload", "done"}
        BY <3>0, <3>6 DEF Replace, Unlink
      <4> QED BY <3>0, <4>1 DEF Placed
    <3>7. CASE Scan(r)
      <4>1. pc[r] = "scan" /\ pc'[r] \in {"reload", "done", "open", "scan"}
        BY <3>0, <3>7 DEF Scan, NextFile
      <4>2. pc'[r] = "open" => todo'[r] = todo[r] /\ todo[r] # <<>>
        BY <3>0, <3>7 DEF Scan, NextFile
      <4> QED BY <3>0, <4>1, <4>2 DEF Placed
    <3>8. CASE ReadFile(r)
      <4>1. pc[r] = "read" /\ pc'[r] \in {"open", "done"}
        BY <3>0, <3>8 DEF ReadFile
      <4> QED BY <3>0, <4>1 DEF Placed
    <3>9. CASE Reload(r)
      <4>1. pc[r] = "reload" /\ pc'[r] = "done"
        BY <3>0, <3>9 DEF Reload
      <4> QED BY <3>0, <4>1 DEF Placed
    <3>10. CASE Load(r) \/ ParseAll(r)
      <4>1. pc[r] \in {"load", "parse"} /\ pc'[r] \in {"parse", "done"}
        BY <3>0, <3>10 DEF Load, ParseAll
      <4> QED BY <3>0, <4>1 DEF Placed
    <3>11. CASE ReadFails(r)
      <4>1. \/ asked[r].kind = "delete_hosts" /\ pc'[r] = "scan"
            \/ asked[r].kind # "delete_hosts" /\ pc[r] = "read" /\ pc'[r] = "done"
        BY <3>0, <3>11, UnreadLeaves
      <4> QED BY <3>0, <4>1 DEF Placed
    <3> QED BY <1>2, <3>1, <3>2, <3>3, <3>4, <3>5, <3>6, <3>7, <3>8, <3>9, <3>10, <3>11 DEF Handle
  <2> QED BY <2>1, <2>2
<1> QED BY <1>1, <1>2 DEF Next


\* Every step keeps what is known of the answers.
LEMMA AnsweredKept ==
  ASSUME Types, \A r \in Requests : Placed(r) /\ Answered(r), [Next]_vars
  PROVE  \A r \in Requests : Answered(r)'
<1>1. CASE UNCHANGED vars
  BY <1>1 DEF Answered, vars, request
<1>2. ASSUME NEW r \in Requests, Handle(r), NEW q \in Requests PROVE Answered(q)'
  <2>1. CASE q # r
    <3>1. /\ asked' = asked /\ pc'[q] = pc[q] /\ read'[q] = read[q] /\ marks'[q] = marks[q] /\ answer'[q] = answer[q]
      BY <1>2, <2>1, OthersStay
    <3> QED BY <3>1 DEF Answered
  <2>2. ASSUME q = r PROVE Answered(r)'
    <3> USE DEF Set, Goto, Answers, At, disk, cache
    <3>0. /\ pc \in [Requests -> Places] /\ DOMAIN read = Requests
          /\ marks \in [Requests -> SUBSET {"changed", "failed"}]
          /\ answer \in [Requests -> {"none", "ok", "refused", "error"}] /\ asked' = asked
      BY <1>2, OthersStay DEF Types
    <3>1. CASE Start(r)
      <4>1. /\ pc[r] = "start" /\ UNCHANGED <<read, marks>> /\ pc'[r] # "start"
            /\ pc'[r] = "done" \/ answer'[r] = answer[r]
        BY <3>0, <3>1 DEF Start
      <4> QED BY <3>0, <4>1 DEF Answered
    <3>2. CASE \/ OpenTmp(r) \/ Open(r)
      <4>1. pc[r] # "done" /\ pc'[r] = "fill" /\ UNCHANGED <<marks, answer>>
        BY <3>0, <3>2 DEF OpenTmp, Open
      <4> QED BY <3>0, <4>1 DEF Answered
    <3>3. CASE Fill(r)
      <4>1. /\ pc[r] # "done" /\ pc'[r] \notin {"start", "read", "done"} /\ UNCHANGED answer
            /\ asked[r].kind # "delete_hosts" => marks' = marks
        BY <3>0, <3>3 DEF Fill, NextFile
      <4> QED BY <3>0, <4>1 DEF Answered
    <3>4. CASE WriteFails(r)
      <4>1. /\ pc[r] # "done" /\ pc'[r] \notin {"start", "read"}
            /\ \/ pc'[r] = "done" /\ answer'[r] = "error"
               \/ pc'[r] # "done" /\ answer' = answer
            /\ asked[r].kind # "delete_hosts" => marks' = marks
        BY <3>0, <3>4, FailureLeaves
      <4> QED BY <3>0, <4>1 DEF Answered
    <3>5. CASE Replace(r) \/ Unlink(r)
      <4>1. /\ pc[r] # "done" /\ pc'[r] \notin {"start", "read"}
            /\ UNCHANGED marks
            /\ \/ pc'[r] = "done" /\ answer'[r] = "error"
               \/ pc'[r] # "done" /\ answer' = answer
        BY <3>0, <3>5 DEF Replace, Unlink
      <4> QED BY <3>0, <4>1 DEF Answered
    <3>6. CASE Scan(r)
      <4>1. pc[r] # "done" /\ pc'[r] \notin {"start", "read"} /\ UNCHANGED marks
            /\ \/ pc'[r] = "done" /\ marks[r] = {}
               \/ pc'[r] # "done" /\ answer' = answer
        BY <3>0, <3>6 DEF Scan, NextFile
      <4> QED BY <3>0, <4>1 DEF Answered
    <3>7. CASE ReadFile(r) \/ ReadFails(r)
      <4>1. /\ pc[r] # "done" /\ pc'[r] \notin {"start", "read"}
            /\ UNCHANGED marks
            /\ \/ pc'[r] = "done" /\ answer'[r] = "error"
               \/ pc'[r] # "done" /\ answer' = answer
        <5>1. CASE ReadFile(r)
          BY <3>0, <5>1 DEF ReadFile
        <5>2. CASE ReadFails(r)
          BY <3>0, <5>2, UnreadLeaves
        <5> QED BY <3>7, <5>1, <5>2
      <4> QED BY <3>0, <4>1 DEF Answered
    <3>8. CASE Reload(r)
      <4>1. pc'[r] = "done" /\ answer'[r] = Verdict(r) /\ marks' = marks
        BY <3>0, <3>8 DEF Reload
      <4> QED BY <3>0, <4>1 DEF Answered, Verdict
    <3>9. CASE Load(r) \/ ParseAll(r)
      <4>1. /\ pc[r] \in {"load", "parse"} /\ pc'[r] \notin {"start", "read"} /\ UNCHANGED marks
            /\ pc'[r] # "done" => answer' = answer
        BY <3>0, <3>9 DEF Load, ParseAll
      <4>2. marks[r] = {}
        BY <4>1 DEF Answered, Placed
      <4> QED BY <3>0, <4>1, <4>2 DEF Answered
    <3> QED BY <1>2, <3>1, <3>2, <3>3, <3>4, <3>5, <3>6, <3>7, <3>8, <3>9 DEF Handle
  <2> QED BY <2>1, <2>2
<1> QED BY <1>1, <1>2 DEF Next


-----------------------------------------------------------------------------
(* What the cache shows                                                    *)

\* A change of a file makes nobody late but the request that made it.
LEMMA ChangesLate ==
  ASSUME NEW r \in Requests, NEW f, Changes(r, f)
  PROVE  /\ UNCHANGED <<lock, cached>> /\ Late' \subseteq Late \cup {r}
         /\ missing' = missing \/ lock # "free"
BY DEF Changes, Late

\* Every step keeps that.
LEMMA ShownKept ==
  ASSUME Types, \A r \in Requests : Placed(r) /\ Answered(r), Shown, [Next]_vars
  PROVE  Shown'
<1>1. CASE UNCHANGED vars
  BY <1>1 DEF Shown, Late, vars, request, cache
<1>2. ASSUME NEW r \in Requests, Handle(r) PROVE Shown'
  <2> USE DEF Set, Goto, Answers, At, disk, cache
  <2>0. /\ pc \in [Requests -> Places] /\ marks \in [Requests -> SUBSET {"changed", "failed"}]
        /\ answer \in [Requests -> {"none", "ok", "refused", "error"}] /\ Late \subseteq Requests
    BY DEF Types, Late
  <2>1. /\ asked' = asked
        /\ \A q \in Requests \ {r} : pc'[q] = pc[q] /\ marks'[q] = marks[q] /\ answer'[q] = answer[q]
    BY <1>2, OthersStay
  \* It is enough to look at the request itself.
  <2>2. ASSUME lock' = "free" => missing' = {}, Late' \subseteq Late \cup {r},
               r \in Late' => /\ asked[r].kind \in Writes /\ pc'[r] # "start" /\ answer'[r] # "ok"
                              /\ pc'[r] = "scan" => marks'[r] # {}
        PROVE  Shown'
    BY <2>0, <2>1, <2>2 DEF Shown
  <2>3. CASE Start(r) \/ ReadFile(r)
    <3>1. UNCHANGED <<lock, missed, missing, marks>> /\ pc[r] \in {"start", "read"}
      BY <2>3 DEF Start, ReadFile
    <3>2. answer'[r] = answer[r] \/ answer'[r] \in {"refused", "error"}
      BY <2>0, <2>3 DEF Start, ReadFile
    <3>3. r \in Late => pc'[r] \notin {"start", "scan"}
      BY <2>0, <2>3, <3>1 DEF Start, ReadFile, Shown
    <3> QED BY <2>2, <3>1, <3>2, <3>3 DEF Shown, Late
  <2>4. CASE Scan(r)
    <3>1. UNCHANGED <<lock, missed, missing, marks>> /\ pc[r] = "scan"
      BY <2>4 DEF Scan
    <3>2. (answer'[r] = answer[r] \/ marks[r] = {}) /\ pc'[r] # "start"
      BY <2>0, <2>4 DEF Scan, NextFile
    <3> QED BY <2>2, <3>1, <3>2 DEF Shown, Late
  <2>5. CASE OpenTmp(r) \/ Replace(r) \/ Unlink(r) \/ Open(r)
    <3>1. UNCHANGED cache \/ Changes(r, File(r))
      BY <2>5 DEF OpenTmp, Replace, Unlink, Open, ChangesInode
    <3>2. /\ (lock' = "free" => missing' = {}) /\ Late' \subseteq Late \cup {r}
      BY <3>1, ChangesLate DEF Shown, Late
    <3>3. /\ pc[r] \in {"open_tmp", "replace", "unlink", "open"} /\ answer[r] = "none"
          /\ pc'[r] \notin {"start", "scan"}
      BY <2>0, <2>5 DEF OpenTmp, Replace, Unlink, Open, Answered
    <3>4. answer'[r] = answer[r] \/ answer'[r] = "error"
      BY <2>0, <2>5 DEF OpenTmp, Replace, Unlink, Open
    <3>5. asked[r].kind \in Writes
      BY <3>3 DEF Placed, Writes, Rewrites
    <3> QED BY <2>2, <3>2, <3>3, <3>4, <3>5
  <2>6. CASE Fill(r)
    <3>1. UNCHANGED cache \/ Changes(r, File(r))
      BY <2>6 DEF Fill, ChangesInode
    <3>2. /\ (lock' = "free" => missing' = {}) /\ Late' \subseteq Late \cup {r}
      BY <3>1, ChangesLate DEF Shown, Late
    <3>3. pc[r] = "fill" /\ answer'[r] = answer[r] /\ answer[r] = "none"
      BY <2>6 DEF Fill, Answered
    <3>4. pc'[r] # "start" /\ (pc'[r] = "scan" => marks'[r] # {})
      BY <2>0, <2>6 DEF Fill, NextFile
    <3>5. asked[r].kind \in Writes
      BY <3>3 DEF Placed, Writes, Rewrites
    <3> QED BY <2>2, <3>2, <3>3, <3>4, <3>5
  <2>7. CASE WriteFails(r)
    <3>1. (UNCHANGED cache \/ Changes(r, File(r))) /\ pc[r] \in {"open_tmp", "open", "fill"}
      BY <2>7, FailureLeaves DEF ChangesInode
    <3>2. /\ (lock' = "free" => missing' = {}) /\ Late' \subseteq Late \cup {r}
      BY <3>1, ChangesLate DEF Shown, Late
    <3>3. answer[r] = "none" /\ asked[r].kind \in Writes
      BY <3>1 DEF Answered, Placed, Writes, Rewrites
    <3>4. /\ answer'[r] = answer[r] \/ answer'[r] = "error"
          /\ pc'[r] # "start" /\ (pc'[r] = "scan" => marks'[r] # {})
      BY <2>0, <2>7, FailureLeaves
    <3> QED BY <2>2, <3>2, <3>3, <3>4
  <2>8. CASE Reload(r)
    <3>1. lock' = "free" /\ missing' = {} /\ missed' = {}
      BY <2>8 DEF Reload, Shown
    <3> QED BY <2>2, <3>1 DEF Late
  <2>9. CASE Load(r)
    <3>1. asked[r].kind \notin Writes
      BY <2>9 DEF Load, Placed, Writes, Rewrites
    <3>2. UNCHANGED <<missed, missing>> /\ r \notin Late /\ missing = {}
      BY <2>9, <3>1 DEF Load, Shown
    <3> QED BY <2>2, <3>2 DEF Late
  <2>10. CASE ParseAll(r)
    <3>1. asked[r].kind \notin Writes
      BY <2>10 DEF ParseAll, Placed, Writes, Rewrites
    <3>2. /\ r \notin Late /\ Late' \subseteq Late /\ (lock' = "free" => missing' = {})
      BY <2>10, <3>1 DEF ParseAll, Shown, Late
    <3> QED BY <2>2, <3>2
  <2>11. CASE ReadFails(r)
    <3>1. UNCHANGED <<lock, missed, missing, marks>> /\ pc'[r] # "start"
      BY <2>0, <2>11, UnreadLeaves
    <3>2. answer'[r] = answer[r] \/ answer'[r] = "error"
      BY <2>0, <2>11, UnreadLeaves
    <3>3. pc'[r] = "scan" => pc[r] = "scan"
      BY <2>0, <2>11, UnreadLeaves
    <3> QED BY <2>2, <3>1, <3>2, <3>3 DEF Shown, Late
  <2> QED BY <1>2, <2>3, <2>4, <2>5, <2>6, <2>7, <2>8, <2>9, <2>10, <2>11 DEF Handle
<1> QED BY <1>1, <1>2 DEF Next


-----------------------------------------------------------------------------
(* Requests that overlap, and inodes                                       *)

\* Every step looks at who is writing.
LEMMA StepMarks == ASSUME NEW r \in Requests, Handle(r) PROVE Marks
BY DEF Handle, Start, OpenTmp, Replace, Unlink, Scan, ReadFile, ReadFails, Open, Fill, WriteFails, Reload,
       Load, ParseAll

\* Two that write together are both noted.
LEMMA OverlapsKept ==
  ASSUME Overlaps, [Next]_vars PROVE Overlaps'
<1>1. CASE UNCHANGED vars
  BY <1>1 DEF Overlaps, Writing, vars, request
<1>2. ASSUME NEW r \in Requests, Handle(r) PROVE Overlaps'
  <2>1. SUFFICES ASSUME NEW p \in Writing', NEW q \in Writing', p # q PROVE p \in overlapped'
    BY DEF Overlaps
  <2>2. IsFiniteSet(Writing')
    <3>1. Writing' \subseteq Requests
      BY DEF Writing
    <3> QED BY <3>1, FS_Subset, InventoryAssumption DEF InventoryAssumption
  <2>3. Cardinality(Writing') > 1
    BY <2>1, <2>2, TwoAreMany
  <2>4. overlapped' = overlapped \cup Writing'
    BY <1>2, <2>3, StepMarks DEF Marks
  <2> QED BY <2>1, <2>4
<1> QED BY <1>1, <1>2 DEF Next

\* Where the names point to after a step.
LEMMA NamesMove ==
  ASSUME Types, \A q \in Requests : Placed(q), NEW r \in Requests, Handle(r)
  PROVE  /\ \A f \in Names : /\ file'[f] \in {file[f], tmp[f], NoFile} \/ file'[f] = <<r, f>>
                             /\ tmp'[f] \in {tmp[f], NoFile} \/ tmp'[f] = <<r, f>>
         /\ UNCHANGED <<file, tmp>> \/ pc'[r] \notin {"start", "open_tmp"}
<1> USE DEF disk, Set, Goto, Answers, At
<1>0. /\ pc \in [Requests -> Places]
      /\ file \in [Names -> Inodes \cup {NoFile}] /\ tmp \in [Names -> Inodes \cup {NoFile}]
  BY DEF Types
<1>1. CASE \/ Start(r) \/ Scan(r) \/ ReadFile(r) \/ ReadFails(r) \/ Reload(r) \/ Load(r) \/ ParseAll(r) \/ Fill(r)
  <2>1. UNCHANGED <<file, tmp>>
    BY <1>1 DEF Start, Scan, ReadFile, ReadFails, Reload, Load, ParseAll, Fill
  <2> QED BY <2>1
<1>2. CASE OpenTmp(r) \/ Open(r)
  <2>1. File(r) \in Names /\ pc'[r] = "fill"
    BY <1>0, <1>2, FileIsName DEF OpenTmp, Open
  <2>2. \/ file' = file /\ (tmp' = tmp \/ tmp' = [tmp EXCEPT ![File(r)] = <<r, File(r)>>])
        \/ tmp' = tmp /\ file' = [file EXCEPT ![File(r)] = <<r, File(r)>>]
    BY <1>2 DEF OpenTmp, Open
  <2> QED BY <1>0, <2>1, <2>2
<1>3. CASE Replace(r) \/ Unlink(r)
  <2>1. File(r) \in Names /\ pc'[r] \in {"reload", "done"}
    BY <1>0, <1>3, FileIsName DEF Replace, Unlink
  <2>2. \/ UNCHANGED <<file, tmp>>
        \/ tmp' = tmp /\ file' = [file EXCEPT ![File(r)] = NoFile]
        \/ /\ tmp' = [tmp EXCEPT ![File(r)] = NoFile]
           /\ file' = [file EXCEPT ![File(r)] = tmp[File(r)]]
    BY <1>3 DEF Replace, Unlink
  <2> QED BY <1>0, <2>1, <2>2
<1>4. CASE WriteFails(r)
  <2>1. File(r) \in Names /\ pc'[r] \in {"scan", "done"}
    BY <1>0, <1>4, FileIsName, FailureLeaves
  <2>2. file' = file /\ (tmp' = tmp \/ tmp' = [tmp EXCEPT ![File(r)] = NoFile])
    BY <1>4, FailureLeaves
  <2> QED BY <1>0, <2>1, <2>2
<1> QED BY <1>1, <1>2, <1>3, <1>4 DEF Handle

\* Nobody goes back to where it has created no inode yet.
LEMMA UnusedKept ==
  ASSUME Types, \A r \in Requests : Placed(r), Unused, [Next]_vars PROVE Unused'
<1>1. CASE UNCHANGED vars
  BY <1>1 DEF Unused, vars, request, disk
<1>2. ASSUME NEW r \in Requests, Handle(r) PROVE Unused'
  <2>1. SUFFICES ASSUME NEW q \in Requests, NEW f \in Names,
                        <<q, f>> = file'[f] \/ <<q, f>> = tmp'[f],
                        pc'[q] \in {"start", "open_tmp"}
                 PROVE  FALSE
    BY DEF Unused
  <2>2. PICK i : i = <<q, f>> /\ i # NoFile
    BY InodeIsFile
  <2>3. CASE q = r
    <3>1. UNCHANGED <<file, tmp>>
      BY <1>2, <2>1, <2>3, NamesMove
    <3>2. pc[r] \in {"start", "open_tmp"}
      <4>1. pc \in [Requests -> Places]
        BY DEF Types
      <4>2. Start(r) => pc[r] = "start"
        BY DEF Start, At
      <4>3. OpenTmp(r) \/ Replace(r) \/ Unlink(r) \/ Open(r) => pc'[r] \in {"fill", "reload", "done"}
        BY <4>1 DEF OpenTmp, Replace, Unlink, Open, Goto, Answers, Set
      <4>4. Scan(r) \/ ReadFile(r) \/ ReadFails(r) => pc'[r] \in {"scan", "open", "reload", "done"}
        BY <4>1 DEF Scan, ReadFile, ReadFails, NextFile, Goto, Answers, Set
      <4>5. Fill(r) => pc'[r] \in {"scan", "reload", "replace"}
        BY <4>1 DEF Fill, NextFile, Goto, Set
      <4>6. WriteFails(r) => pc'[r] \in {"scan", "done"}
        BY <4>1, FailureLeaves
      <4>7. Reload(r) \/ Load(r) => pc'[r] \in {"parse", "done"}
        BY <4>1 DEF Reload, Load, Goto, Answers, Set
      <4>8. ParseAll(r) => pc[r] = "parse" /\ pc'[r] \in {"parse", "done"}
        BY <4>1 DEF ParseAll, At, Goto, Answers, Set
      <4> QED BY <1>2, <2>1, <2>3, <4>2, <4>3, <4>4, <4>5, <4>6, <4>7, <4>8 DEF Handle
    <3> QED BY <2>1, <2>3, <3>1, <3>2 DEF Unused
  <2>4. CASE q # r
    <3>1. pc[q] \in {"start", "open_tmp"}
      BY <1>2, <2>1, <2>4, OthersStay
    <3>2. <<r, f>> # <<q, f>>
      BY <2>4
    <3>3. i # file[f] /\ i # tmp[f]
      BY <2>2, <3>1 DEF Unused
    <3> QED BY <1>2, <2>1, <2>2, <3>2, <3>3, NamesMove
  <2> QED BY <2>3, <2>4
<1> QED BY <1>1, <1>2 DEF Next


-----------------------------------------------------------------------------
(* What the files hold                                                     *)

\* An answer is not taken back.
LEMMA ExcusedStays ==
  ASSUME Types, \A r \in Requests : Placed(r) /\ Answered(r), Excused, [Next]_vars
  PROVE  Excused'
<1>1. CASE UNCHANGED vars
  BY <1>1 DEF Excused, vars, request
<1>2. ASSUME NEW r \in Requests, Handle(r) PROVE Excused'
  <2>1. asked' = asked /\ overlapped \subseteq overlapped'
    BY <1>2, OthersStay, StepMarks, MarksKept
  <2>2. pc[r] # "done"
    BY <1>2 DEF Handle, Start, OpenTmp, Replace, Unlink, Scan, ReadFile, ReadFails, Open, Fill, WriteFails,
                Reload, Load, ParseAll, At
  <2>3. marks[r] \subseteq marks'[r]
    <3>1. marks \in [Requests -> SUBSET {"changed", "failed"}]
      BY DEF Types
    <3>2. CASE WriteFails(r)
      BY <3>1, <3>2, FailureLeaves
    <3>3. CASE Fill(r)
      BY <3>1, <3>3 DEF Fill, Set
    <3>4. CASE ~WriteFails(r) /\ ~Fill(r)
      <4>1. marks' = marks
        BY <1>2, <3>4 DEF Handle, Start, OpenTmp, Replace, Unlink, Scan, ReadFile, ReadFails, Open, Reload,
                          Load, ParseAll
      <4> QED BY <4>1
    <3> QED BY <3>2, <3>3, <3>4
  <2>4. CASE \E q \in overlapped : asked[q].kind \in Rewrites
    BY <2>1, <2>4 DEF Excused
  <2>5. ASSUME NEW q \in Requests, answer[q] = "error" \/ "failed" \in marks[q] PROVE Excused'
    <3>1. answer'[q] = "error" \/ "failed" \in marks'[q]
      BY <1>2, <2>2, <2>3, <2>5, OthersStay DEF Answered
    <3> QED BY <3>1 DEF Excused
  <2> QED BY <2>4, <2>5 DEF Excused
<1> QED BY <1>1, <1>2 DEF Next

\* A request that rewrites a file in place writes alone, unless excused.
LEMMA Alone ==
  ASSUME Overlaps, ~Excused, NEW r \in Writing, NEW q \in Writing,
         asked[r].kind \in Rewrites \/ asked[q].kind \in Rewrites
  PROVE  r = q
BY DEF Overlaps, Excused

\* Then nobody has a temporary file open, no file is being filled but its own,
\* and what it does not have open is as someone meant it.
LEMMA AloneMeans ==
  ASSUME Overlaps, ~Excused, Meant, NEW r \in Writing, asked[r].kind \in Rewrites, pc[r] # "fill",
         NEW f \in Names
  PROVE  Holders(f) = {} /\ ~Doomed(f) /\ ~Editing(f) /\ tmp[f] = NoFile /\ Clean(f)
<1>1. Holders(f) = {}
  BY Alone DEF Holders, Writing, Writes, Rewrites
<1>2. ~Editing(f)
  BY Alone DEF Editing, Writing, Writes
<1>3. ~Doomed(f)
  BY <1>1 DEF Doomed
<1>4. Settled(f)
  BY <1>3 DEF Meant
<1> QED BY <1>1, <1>2, <1>3, <1>4 DEF Settled, Held

\* A file nobody touches is as it was.
LEMMA ElsewhereKept ==
  ASSUME Types, Types', NEW f \in Names, Doomed(f) \/ Settled(f), asked' = asked,
         tmp'[f] = tmp[f], file'[f] = file[f], whole \subseteq whole',
         \A i \in Inodes : i[2] = f => data'[i] = data[i],
         \A r \in Requests : asked[r].kind \in {"put", "post"} /\ asked[r].file = f =>
           /\ r \in Holders(f)' <=> r \in Holders(f)
           /\ r \in Holders(f) => pc'[r] = pc[r] /\ hand'[r] = hand[r],
         Editing(f) => Editing(f)'
  PROVE  Doomed(f)' \/ Settled(f)'
<1>1. Holders(f)' = Holders(f)
  BY DEF Holders
<1>2. \A r \in Holders(f) : pc'[r] = pc[r] /\ hand'[r] = hand[r]
  BY DEF Holders
<1>3. CASE Doomed(f)
  BY <1>1, <1>3 DEF Doomed
<1>4. CASE Settled(f)
  <2>1. /\ file[f] # NoFile => data'[file[f]] = data[file[f]]
        /\ tmp[f] # NoFile => data'[tmp[f]] = data[tmp[f]]
    BY DEF Types
  <2>2. Held(f)'
    <3>1. SUFFICES ASSUME tmp[f] # NoFile
                   PROVE  \E r \in Holders(f) : /\ hand'[r] = tmp[f] /\ tmp[f] # file[f]
                                                /\ pc'[r] = "fill" => data'[tmp[f]] = <<>>
                                                /\ pc'[r] = "replace" => data'[tmp[f]] \in whole'
      BY <1>1 DEF Held
    <3>2. PICK r \in Holders(f) : /\ hand[r] = tmp[f] /\ tmp[f] # file[f]
                                  /\ pc[r] = "fill" => data[tmp[f]] = <<>>
                                  /\ pc[r] = "replace" => data[tmp[f]] \in whole
      BY <1>4, <3>1 DEF Settled, Held
    <3> QED BY <1>2, <2>1, <3>1, <3>2
  <2>3. Clean(f) => Clean(f)'
    BY <2>1 DEF Clean
  <2> QED BY <1>4, <2>2, <2>3 DEF Settled
<1> QED BY <1>3, <1>4


\* A step that leaves the disk alone and neither begins nor ends with a file
\* open needs a look at the request itself only.
LEMMA DiskStays ==
  ASSUME Types, Types', ~Excused, Meant, NEW r \in Requests, Handle(r),
         UNCHANGED <<file, tmp, data, whole>>,
         pc[r] \notin {"fill", "replace"}, pc'[r] \notin {"fill", "replace"},
         pc'[r] = "open" => Edits(r)'
  PROVE  Meant'
<1>1. /\ asked' = asked
      /\ \A q \in Requests \ {r} :
           /\ pc'[q] = pc[q] /\ read'[q] = read[q] /\ todo'[q] = todo[q] /\ hand'[q] = hand[q]
  BY OthersStay
<1>2. \A f \in Names : Doomed(f)' \/ Settled(f)'
  <2>1. SUFFICES ASSUME NEW f \in Names PROVE Doomed(f)' \/ Settled(f)'
    OBVIOUS
  <2>2. \A q \in Requests : /\ q \in Holders(f)' <=> q \in Holders(f)
                            /\ q \in Holders(f) => pc'[q] = pc[q] /\ hand'[q] = hand[q]
    BY <1>1 DEF Holders
  <2>3. Editing(f) => Editing(f)'
    <3>1. ASSUME NEW q \in Requests, asked[q].kind \in Rewrites /\ pc[q] = "fill" /\ File(q) = f
          PROVE  asked'[q].kind \in Rewrites /\ pc'[q] = "fill" /\ File(q)' = f
      BY <1>1, <3>1 DEF File
    <3> QED BY <3>1 DEF Editing
  <2> QED BY <1>1, <2>2, <2>3, ElsewhereKept DEF Meant
<1>3. \A q \in Requests : Edits(q)'
  <2>1. Edits(r)'
    <3>1. CASE pc'[r] = "open"
      BY <3>1
    <3>2. CASE pc'[r] # "open"
      BY <3>2 DEF Edits
    <3> QED BY <3>1, <3>2
  <2>2. ASSUME NEW q \in Requests \ {r} PROVE Edits(q)'
    <3>1. Edits(q)
      BY DEF Meant
    <3>2. File(q)' = File(q) /\ (Extends(q)' <=> Extends(q))
      BY <1>1 DEF File, Extends, Appends, SectionExists, HeaderOf
    <3> QED BY <1>1, <3>1, <3>2 DEF Edits
  <2> QED BY <2>1, <2>2
<1> QED BY <1>2, <1>3 DEF Meant

\* Who begins, looks for its files or reads one.
LEMMA ReadersMean ==
  ASSUME Types, Types', \A q \in Requests : Placed(q) /\ Answered(q), Overlaps, ~Excused, Meant,
         NEW r \in Requests,
         \/ Start(r) \/ Scan(r) \/ ReadFile(r) \/ ReadFails(r) \/ Reload(r) \/ Load(r) \/ ParseAll(r)
  PROVE  Meant'
<1> USE DEF disk, cache, Set, Goto, Answers, At
<1>1. Handle(r) /\ pc \in [Requests -> Places] /\ DOMAIN read = Requests
  BY DEF Handle, Types
<1>2. asked' = asked /\ UNCHANGED <<file, tmp, data, whole>>
  BY DEF Start, Scan, ReadFile, ReadFails, Reload, Load, ParseAll
<1>3. CASE Start(r)
  <2>1. pc[r] = "start" /\ pc'[r] \notin {"fill", "replace"} /\ read' = read
    BY <1>1, <1>3 DEF Start
  <2>2. ASSUME pc'[r] = "open" PROVE Edits(r)'
    <3>1. asked[r].kind = "add" /\ file[asked[r].file] = NoFile /\ read[r] = <<>>
      BY <1>1, <1>3, <2>1, <2>2 DEF Start, Answered
    <3>2. File(r)' = asked[r].file
      BY <1>2, <3>1 DEF File
    <3> QED BY <1>2, <2>1, <2>2, <3>1, <3>2 DEF Edits
  <2> QED BY <1>1, <1>2, <2>1, <2>2, DiskStays
<1>4. CASE Scan(r) \/ ReadFile(r)
  <2>1. /\ pc[r] \in {"scan", "read"} /\ pc'[r] \notin {"fill", "replace"}
        /\ pc'[r] = "open" =>
             /\ todo' = todo
             /\ \/ file[File(r)] # NoFile /\ read'[r] = data[file[File(r)]]
                \/ file[File(r)] = NoFile /\ read'[r] = <<>>
    <3>1. CASE Scan(r)
      <4>1. asked[r].kind = "delete_hosts"
        BY <3>1 DEF Scan, Placed
      <4> QED BY <1>1, <3>1, <4>1 DEF Scan, NextFile, File
    <3>2. CASE ReadFile(r)
      <4>1. pc[r] = "read" /\ read[r] = <<>>
        BY <3>2 DEF ReadFile, Answered
      <4> QED BY <1>1, <3>2, <4>1 DEF ReadFile
    <3> QED BY <1>4, <3>1, <3>2
  <2>2. ASSUME pc'[r] = "open" PROVE Edits(r)'
    <3>1. File(r)' = File(r) /\ File(r) \in Names
      <4>1. asked[r].kind = "delete_hosts" => todo[r] # <<>>
        BY <1>1, <1>4, <2>2 DEF Scan, NextFile, ReadFile, Placed
      <4>2. todo[r] \in Seq(Names)
        BY DEF Types
      <4>3. File(r) \in Names
        BY <4>1, <4>2, Asked DEF File, Types
      <4> QED BY <1>2, <2>1, <2>2, <4>3 DEF File
    <3>2. r \in Writing /\ asked[r].kind \in Rewrites
      BY <2>1 DEF Writing, Writes, Rewrites, Placed
    <3>3. Clean(File(r))
      BY <2>1, <3>1, <3>2, AloneMeans
    <3>4. CASE file[File(r)] = NoFile
      BY <1>2, <2>1, <2>2, <3>1, <3>4 DEF Edits
    <3>5. CASE file[File(r)] # NoFile
      <4>1. read'[r] = data[file[File(r)]] /\ read'[r] \in whole
        BY <2>1, <2>2, <3>3, <3>5 DEF Clean
      <4> QED BY <1>2, <2>2, <3>1, <3>5, <4>1 DEF Edits
    <3> QED BY <3>4, <3>5
  <2> QED BY <1>1, <1>2, <2>1, <2>2, DiskStays
<1>5. CASE Reload(r) \/ Load(r) \/ ParseAll(r)
  <2>1. pc[r] \in {"reload", "load", "parse"} /\ pc'[r] \in {"parse", "done"}
    BY <1>1, <1>5 DEF Reload, Load, ParseAll
  <2> QED BY <1>1, <1>2, <2>1, DiskStays
<1>6. CASE ReadFails(r)
  <2>1. pc[r] \in {"scan", "read"} /\ pc'[r] \in {"scan", "done"}
    BY <1>1, <1>6, UnreadLeaves
  <2> QED BY <1>1, <1>2, <2>1, DiskStays
<1> QED BY <1>3, <1>4, <1>5, <1>6


\* While a request that puts, posts or deletes a file is at work, nobody is
\* rewriting one in place, and the other files are as they were.
LEMMA PutMeans ==
  ASSUME Types, Types', \A q \in Requests : Placed(q), Overlaps, ~Excused, Meant,
         NEW r \in Requests, Handle(r), r \in Writing, asked[r].kind \notin Rewrites,
         pc'[r] # "open", whole \subseteq whole',
         \A g \in Names \ {File(r)} :
           /\ file'[g] = file[g] /\ tmp'[g] = tmp[g]
           /\ \A i \in Inodes : i[2] = g => data'[i] = data[i]
  PROVE  /\ \A f \in Names : ~Editing(f)
         /\ \A q \in Requests : Edits(q)'
         /\ \A g \in Names \ {File(r)} : Doomed(g)' \/ Settled(g)'
         /\ (Doomed(File(r)) \/ Settled(File(r)))' => Meant'
<1>1. /\ asked' = asked
      /\ \A q \in Requests \ {r} :
           /\ pc'[q] = pc[q] /\ read'[q] = read[q] /\ todo'[q] = todo[q] /\ hand'[q] = hand[q]
  BY OthersStay
<1>2. \A q \in Requests : asked[q].kind \in Rewrites => pc[q] \in {"start", "done"}
  BY Alone DEF Writing, Writes
<1>3. \A f \in Names : ~Editing(f)
  BY <1>2 DEF Editing
<1>4. ASSUME NEW q \in Requests PROVE Edits(q)'
  <2>1. CASE asked[q].kind \in Rewrites
    BY <1>1, <1>2, <2>1 DEF Edits
  <2>2. CASE asked[q].kind \notin Rewrites
    <3>1. q # r => pc'[q] # "open"
      BY <1>1, <2>2 DEF Placed, Rewrites
    <3> QED BY <1>1, <2>2, <3>1 DEF Edits
  <2> QED BY <2>1, <2>2
<1>5. ASSUME NEW g \in Names \ {File(r)} PROVE Doomed(g)' \/ Settled(g)'
  <2>1. \A q \in Requests :
          asked[q].kind \in {"put", "post"} /\ asked[q].file = g =>
            /\ q \in Holders(g)' <=> q \in Holders(g)
            /\ q \in Holders(g) => pc'[q] = pc[q] /\ hand'[q] = hand[q]
    <3>1. asked[r].kind \in {"put", "post"} => asked[r].file # g
      BY DEF File
    <3> QED BY <1>1, <3>1 DEF Holders
  <2> QED BY <1>1, <1>3, <2>1, ElsewhereKept DEF Meant
<1>6. (Doomed(File(r)) \/ Settled(File(r)))' => Meant'
  <2>1. File(r)' = File(r)
    BY <1>1 DEF File, Rewrites
  <2> QED BY <1>4, <1>5, <2>1 DEF Meant
<1> QED BY <1>3, <1>4, <1>5, <1>6

\* The temporary file is opened: by one, or by one more.
LEMMA OpenTmpMeans ==
  ASSUME Types, Types', \A q \in Requests : Placed(q), Overlaps, Unused, ~Excused, Meant,
         NEW r \in Requests, OpenTmp(r)
  PROVE  Meant'
<1> USE DEF Set, Goto, Opens, At
<1> DEFINE f == File(r)
<1>1. Handle(r) /\ pc \in [Requests -> Places] /\ hand \in [Requests -> Inodes \cup {NoFile}]
      /\ tmp \in [Names -> Inodes \cup {NoFile}] /\ DOMAIN data = Inodes /\ f \in Names
      /\ \A g \in Names : file[g] # NoFile => file[g] \in Inodes
  BY FileIsName DEF Handle, Types, OpenTmp
<1>2. /\ pc[r] = "open_tmp" /\ pc'[r] = "fill" /\ asked[r].kind \in {"put", "post"}
      /\ f = asked[r].file /\ UNCHANGED <<asked, file, whole>>
  <2>1. asked[r].kind \in {"put", "post"}
    BY DEF OpenTmp, Placed
  <2> QED BY <1>1, <2>1 DEF OpenTmp, File
<1>3. PICK i \in Inodes : /\ i[2] = f /\ data' = [data EXCEPT ![i] = <<>>] /\ hand'[r] = i
                          /\ tmp' = [tmp EXCEPT ![f] = i] /\ (tmp[f] = NoFile => i = <<r, f>>)
  <2>1. CASE tmp[f] = NoFile
    BY <1>1, <2>1, InodeIsFile DEF OpenTmp
  <2>2. CASE tmp[f] # NoFile
    <3>1. tmp[f] \in Inodes /\ tmp[f][2] = f /\ tmp = [tmp EXCEPT ![f] = tmp[f]]
      BY <1>1, <2>2 DEF Types
    <3>2. hand'[r] = tmp[f] /\ data' = [data EXCEPT ![tmp[f]] = <<>>] /\ tmp' = tmp
      BY <1>1, <2>2 DEF OpenTmp
    <3> QED BY <2>2, <3>1, <3>2
  <2> QED BY <2>1, <2>2
<1>4. /\ \A g \in Names : ~Editing(g)
      /\ (Doomed(f) \/ Settled(f))' => Meant'
  <2>1. r \in Writing /\ asked[r].kind \notin Rewrites
    BY <1>2 DEF Writing, Writes, Rewrites
  <2>2. \A g \in Names \ {f} : /\ file'[g] = file[g] /\ tmp'[g] = tmp[g]
                               /\ \A j \in Inodes : j[2] = g => data'[j] = data[j]
    BY <1>1, <1>2, <1>3
  <2> QED BY <1>1, <1>2, <2>1, <2>2, PutMeans
<1>5. /\ tmp'[f] = i /\ i # NoFile /\ r \in Holders(f)' /\ File(r)' = f
      /\ \A q \in Holders(f) : q # r /\ q \in Holders(f)'
  <2>1. \A q \in Requests \ {r} : pc'[q] = pc[q]
    BY <1>1, OthersStay
  <2> QED BY <1>1, <1>2, <1>3, <2>1, InodeIsFile DEF Holders, File
<1> HIDE DEF f
<1>6. f' = f
  BY <1>5 DEF f
<1>7. CASE Holders(f) # {}
  <2>1. Doomed(f)'
    BY <1>5, <1>6, <1>7 DEF Doomed
  <2> QED BY <1>4, <2>1
<1>8. CASE Holders(f) = {}
  <2>1. Settled(f) /\ tmp[f] = NoFile
    BY <1>1, <1>8 DEF Meant, Doomed, Settled, Held
  <2>2. i # file[f]
    BY <1>1, <1>2, <1>3, <2>1 DEF Unused, f
  <2>3. data'[i] = <<>> /\ (file[f] # NoFile => data'[file[f]] = data[file[f]])
    BY <1>1, <1>3, <2>2
  <2>4. Held(f)'
    <3>1. /\ hand'[r] = tmp'[f] /\ tmp'[f] # file'[f] /\ pc'[r] = "fill"
          /\ data'[tmp'[f]] = <<>>
      BY <1>2, <1>3, <1>5, <2>2, <2>3
    <3> QED BY <1>5, <1>6, <3>1 DEF Held
  <2>5. Clean(f)'
    BY <1>1, <1>2, <1>4, <1>6, <2>1, <2>3 DEF Settled, Clean
  <2> QED BY <1>4, <2>4, <2>5 DEF Settled
<1> QED BY <1>7, <1>8


\* The temporary file is filled, and is what its one holder meant.
LEMMA FillTmpMeans ==
  ASSUME Types, Types', \A q \in Requests : Placed(q), Overlaps, ~Excused, Meant,
         NEW r \in Requests, Fill(r), asked[r].kind \notin Rewrites
  PROVE  Meant'
<1> USE DEF Set, Goto, At
<1> DEFINE f == File(r)
           t == hand[r]
<1>1. /\ Handle(r) /\ pc \in [Requests -> Places] /\ DOMAIN data = Inodes /\ f \in Names
      /\ \A g \in Names : file[g] # NoFile => file[g] \in Inodes /\ file[g][2] = g
      /\ \A g \in Names : tmp[g] # NoFile => tmp[g] \in Inodes /\ tmp[g][2] = g
  BY FileIsName DEF Handle, Types, Fill
<1>2. /\ pc[r] = "fill" /\ asked[r].kind \in {"put", "post"} /\ t \in Inodes /\ t[2] = f
      /\ f = asked[r].file /\ r \in Holders(f)
  <2>1. pc[r] = "fill"
    BY DEF Fill
  <2> QED BY <2>1 DEF Placed, Rewrites, Holders, File
<1>3. /\ pc'[r] = "replace" /\ UNCHANGED <<asked, file, tmp, hand>>
      /\ data' = [data EXCEPT ![t] = Overlay(asked[r].lines, data[t])]
      /\ whole' = whole \cup {asked[r].lines}
  <2>1. ~Appends(r) /\ ~Extends(r) /\ asked[r].kind # "delete_hosts" /\ asked[r].kind # "add"
    BY <1>2 DEF Extends, Appends
  <2>2. Text(r) = asked[r].lines
    BY <2>1 DEF Text
  <2>3. pc'[r] = "replace" /\ UNCHANGED <<asked, file, tmp, hand>>
    BY <1>1, <2>1 DEF Fill
  <2>4. data' = [data EXCEPT ![t] = Overlay(asked[r].lines, data[t])]
    BY <2>1, <2>2 DEF Fill, Filled
  <2>5. whole' = whole \cup {asked[r].lines}
    BY <2>1, <2>2 DEF Fill
  <2> QED BY <2>3, <2>4, <2>5
<1>4. /\ \A g \in Names : ~Editing(g)
      /\ (Doomed(f) \/ Settled(f))' => Meant'
  <2>1. r \in Writing
    BY <1>2 DEF Writing, Writes
  <2>2. \A g \in Names \ {f} : /\ file'[g] = file[g] /\ tmp'[g] = tmp[g]
                               /\ \A j \in Inodes : j[2] = g => data'[j] = data[j]
    BY <1>1, <1>2, <1>3
  <2> QED BY <1>1, <1>2, <1>3, <2>1, <2>2, PutMeans
<1>5. File(r)' = f /\ Holders(f)' = Holders(f)
  <2>1. File(r)' = f
    BY <1>2, <1>3 DEF File
  <2>2. \A q \in Requests : pc'[q] = pc[q] \/ q = r
    BY <1>1, OthersStay
  <2>3. \A q \in Requests : q \in Holders(f)' <=> q \in Holders(f)
    BY <1>2, <1>3, <2>1, <2>2 DEF Holders
  <2> QED BY <2>1, <2>3 DEF Holders
<1> HIDE DEF f, t
<1>6. f' = f
  BY <1>5 DEF f
<1>7. CASE Doomed(f)
  BY <1>3, <1>4, <1>5, <1>6, <1>7 DEF Doomed
<1>8. CASE ~Doomed(f)
  <2>1. Settled(f) /\ tmp[f] # NoFile /\ Holders(f) = {r}
    BY <1>1, <1>2, <1>8 DEF Meant, Doomed
  <2>2. hand[r] = tmp[f] /\ tmp[f] # file[f] /\ data[tmp[f]] = <<>>
    BY <1>2, <2>1 DEF Settled, Held
  <2>3. t = tmp[f]
    BY <2>2 DEF t
  <2>4. /\ data'[t] = asked[r].lines
        /\ file[f] # NoFile => data'[file[f]] = data[file[f]]
    BY <1>1, <1>2, <1>3, <2>2, <2>3 DEF Overlay
  <2>5. Held(f)'
    <3>1. /\ hand'[r] = tmp'[f] /\ tmp'[f] # file'[f] /\ pc'[r] = "replace"
          /\ data'[tmp'[f]] \in whole'
      BY <1>3, <1>6, <2>2, <2>3, <2>4
    <3> QED BY <1>2, <1>5, <1>6, <3>1 DEF Held
  <2>6. Clean(f)'
    BY <1>1, <1>3, <1>4, <1>6, <2>1, <2>4 DEF Settled, Clean
  <2> QED BY <1>4, <1>6, <2>5, <2>6 DEF Settled
<1> QED BY <1>7, <1>8

\* The temporary file becomes the inventory, or its holder finds it gone.
LEMMA ReplaceMeans ==
  ASSUME Types, Types', \A q \in Requests : Placed(q), Overlaps, ~Excused, Meant,
         NEW r \in Requests, Replace(r)
  PROVE  Meant'
<1> USE DEF Set, Goto, Answers, At, disk
<1> DEFINE f == File(r)
<1>1. /\ Handle(r) /\ pc \in [Requests -> Places] /\ f \in Names
      /\ answer \in [Requests -> {"none", "ok", "refused", "error"}]
      /\ file \in [Names -> Inodes \cup {NoFile}] /\ tmp \in [Names -> Inodes \cup {NoFile}]
  BY FileIsName DEF Handle, Types, Replace
<1>2. /\ pc[r] = "replace" /\ asked[r].kind \in {"put", "post"} /\ f = asked[r].file
      /\ r \in Holders(f) /\ UNCHANGED <<asked, data, whole, hand>>
  <2>1. pc[r] = "replace" /\ UNCHANGED <<asked, data, whole, hand>>
    BY DEF Replace
  <2> QED BY <2>1 DEF Placed, Holders, File
<1>3. CASE tmp[f] = NoFile
  <2>1. answer'[r] = "error"
    BY <1>1, <1>3 DEF Replace
  <2> QED BY <2>1 DEF Meant, Excused
<1>4. CASE tmp[f] # NoFile
  <2>1. /\ pc'[r] = "reload" /\ file' = [file EXCEPT ![f] = tmp[f]]
        /\ tmp' = [tmp EXCEPT ![f] = NoFile]
    BY <1>1, <1>4 DEF Replace
  <2>2. (Doomed(f) \/ Settled(f))' => Meant'
    <3>1. r \in Writing /\ asked[r].kind \notin Rewrites
      BY <1>2 DEF Writing, Writes, Rewrites
    <3>2. \A g \in Names \ {f} : /\ file'[g] = file[g] /\ tmp'[g] = tmp[g]
                                 /\ \A j \in Inodes : j[2] = g => data'[j] = data[j]
      BY <1>1, <1>2, <2>1
    <3> QED BY <1>1, <1>2, <2>1, <3>1, <3>2, PutMeans
  <2>3. File(r)' = f /\ \A q \in Holders(f) \ {r} : q \in Holders(f)'
    <3>1. File(r)' = f
      BY <1>2 DEF File
    <3>2. \A q \in Requests : pc'[q] = pc[q] \/ q = r
      BY <1>1, OthersStay
    <3> QED BY <1>2, <3>1, <3>2 DEF Holders
  <2> HIDE DEF f
  <2>4. f' = f /\ tmp'[f] = NoFile /\ file'[f] = tmp[f]
    BY <1>1, <2>1, <2>3 DEF f
  <2>5. CASE Doomed(f)
    <3>1. PICK q \in Holders(f) : q # r
      BY <1>4, <2>5 DEF Doomed
    <3>2. Doomed(f)'
      BY <2>3, <2>4, <3>1 DEF Doomed
    <3> QED BY <2>2, <3>2
  <2>6. CASE ~Doomed(f)
    <3>1. Settled(f) /\ Holders(f) = {r}
      BY <1>1, <1>2, <2>6 DEF Meant, Doomed
    <3>2. data[tmp[f]] \in whole
      BY <1>2, <1>4, <3>1 DEF Settled, Held
    <3>3. Held(f)' /\ Clean(f)'
      BY <1>2, <2>4, <3>2 DEF Held, Clean
    <3> QED BY <2>2, <3>3 DEF Settled
  <2> QED BY <2>5, <2>6
<1> QED BY <1>3, <1>4


\* A file that is deleted needs no meaning.
LEMMA UnlinkMeans ==
  ASSUME Types, Types', \A q \in Requests : Placed(q), Overlaps, ~Excused, Meant,
         NEW r \in Requests, Unlink(r)
  PROVE  Meant'
<1> USE DEF Set, Goto, Answers, At, disk
<1> DEFINE f == File(r)
<1>1. /\ Handle(r) /\ pc \in [Requests -> Places] /\ f \in Names
      /\ answer \in [Requests -> {"none", "ok", "refused", "error"}]
      /\ file \in [Names -> Inodes \cup {NoFile}] /\ tmp \in [Names -> Inodes \cup {NoFile}]
  BY FileIsName DEF Handle, Types, Unlink
<1>2. /\ pc[r] = "unlink" /\ asked[r].kind = "delete" /\ f = asked[r].file
      /\ UNCHANGED <<asked, data, whole, hand, tmp>>
  <2>1. pc[r] = "unlink" /\ UNCHANGED <<asked, data, whole, hand, tmp>>
    BY DEF Unlink
  <2> QED BY <2>1 DEF Placed, File
<1>3. CASE file[f] = NoFile
  <2>1. answer'[r] = "error"
    BY <1>1, <1>3 DEF Unlink
  <2> QED BY <2>1 DEF Meant, Excused
<1>4. CASE file[f] # NoFile
  <2>1. pc'[r] = "reload" /\ file' = [file EXCEPT ![f] = NoFile]
    BY <1>1, <1>4 DEF Unlink
  <2>2. /\ \A g \in Names : ~Editing(g)
        /\ (Doomed(f) \/ Settled(f))' => Meant'
    <3>1. r \in Writing /\ asked[r].kind \notin Rewrites
      BY <1>2 DEF Writing, Writes, Rewrites
    <3>2. \A g \in Names \ {f} : /\ file'[g] = file[g] /\ tmp'[g] = tmp[g]
                                 /\ \A j \in Inodes : j[2] = g => data'[j] = data[j]
      BY <1>1, <1>2, <2>1
    <3> QED BY <1>1, <1>2, <2>1, <3>1, <3>2, PutMeans
  <2>3. File(r)' = f /\ \A q \in Requests : q \in Holders(f)' <=> q \in Holders(f)
    <3>1. File(r)' = f
      BY <1>2 DEF File
    <3>2. \A q \in Requests : pc'[q] = pc[q] \/ q = r
      BY <1>1, OthersStay
    <3> QED BY <1>2, <3>1, <3>2 DEF Holders
  <2> HIDE DEF f
  <2>4. f' = f /\ tmp' = tmp /\ file'[f] = NoFile
    BY <1>1, <1>2, <2>1, <2>3 DEF f
  <2>5. Holders(f)' = Holders(f)
    BY <2>3, <2>4 DEF Holders
  <2>6. CASE Doomed(f)
    <3>1. Doomed(f)'
      BY <2>4, <2>5, <2>6 DEF Doomed
    <3> QED BY <2>2, <3>1
  <2>7. CASE ~Doomed(f)
    <3>1. Held(f)
      BY <1>1, <2>7 DEF Meant, Settled
    <3>2. \A q \in Holders(f) : pc'[q] = pc[q] /\ hand' = hand
      BY <1>1, <1>2, OthersStay DEF Holders
    <3>3. Held(f)'
      BY <1>2, <2>4, <2>5, <3>1, <3>2 DEF Held
    <3>4. Clean(f)'
      BY <2>4 DEF Clean
    <3> QED BY <2>2, <3>3, <3>4 DEF Settled
  <2> QED BY <2>6, <2>7
<1> QED BY <1>3, <1>4

\* While a file is being rewritten in place nothing else happens to the files.
LEMMA RewriteMeans ==
  ASSUME Types, Types', \A q \in Requests : Placed(q), Overlaps, ~Excused, Meant,
         NEW r \in Requests, Handle(r), r \in Writing, asked[r].kind \in Rewrites,
         UNCHANGED tmp, whole \subseteq whole', File(r) \in Names,
         \A g \in Names \ {File(r)} :
           /\ file'[g] = file[g]
           /\ \A i \in Inodes : i[2] = g => data'[i] = data[i],
         Edits(r)',
         \/ File(r)' = File(r) /\ pc'[r] = "fill"
         \/ file'[File(r)] = NoFile
         \/ data'[file'[File(r)]] \in whole'
  PROVE  Meant'
<1>1. /\ asked' = asked
      /\ \A q \in Requests \ {r} :
           /\ pc'[q] = pc[q] /\ read'[q] = read[q] /\ todo'[q] = todo[q] /\ hand'[q] = hand[q]
  BY OthersStay
<1>2. \A q \in Requests \ {r} : q \notin Writing
  BY Alone
<1>3. ASSUME NEW q \in Requests PROVE Edits(q)'
  <2>1. CASE q = r
    BY <2>1
  <2>2. CASE q # r
    <3>1. asked[q].kind \in Writes => pc'[q] \in {"start", "done"}
      BY <1>1, <1>2, <2>2 DEF Writing
    <3>2. asked[q].kind \notin Writes => pc'[q] \notin {"open", "fill"}
      BY <1>1, <2>2 DEF Placed, Writes, Rewrites
    <3> QED BY <3>1, <3>2 DEF Edits
  <2> QED BY <2>1, <2>2
<1>4. ASSUME NEW g \in Names PROVE Settled(g)'
  <2>1. Holders(g) = {}
    BY <1>2 DEF Holders, Writing, Writes, Rewrites
  <2>2. Settled(g)
    BY <2>1 DEF Meant, Doomed
  <2>3. tmp'[g] = NoFile
    BY <2>1, <2>2 DEF Settled, Held
  <2>4. Held(g)'
    BY <2>3 DEF Held
  <2>5. CASE g = File(r)
    <3>1. CASE File(r)' = File(r) /\ pc'[r] = "fill"
      <4>1. Editing(g)'
        BY <1>1, <2>5, <3>1 DEF Editing
      <4> QED BY <2>4, <4>1 DEF Settled
    <3>2. CASE file'[File(r)] = NoFile \/ data'[file'[File(r)]] \in whole'
      <4>1. Clean(g)'
        BY <2>5, <3>2 DEF Clean
      <4> QED BY <2>4, <4>1 DEF Settled
    <3> QED BY <3>1, <3>2
  <2>6. CASE g # File(r)
    <3>1. ~Editing(g)
      BY <1>2, <2>6 DEF Editing, Writing, Writes
    <3>2. file[g] # NoFile => data'[file[g]] = data[file[g]]
      BY <2>6 DEF Types
    <3>3. Clean(g)'
      BY <2>2, <2>6, <3>1, <3>2 DEF Settled, Clean
    <3> QED BY <2>4, <3>3 DEF Settled
  <2> QED BY <2>5, <2>6
<1> QED BY <1>3, <1>4 DEF Meant

\* A file is opened to be rewritten in place.
LEMMA OpenMeans ==
  ASSUME Types, Types', \A q \in Requests : Placed(q), Overlaps, ~Excused, Meant,
         NEW r \in Requests, Open(r)
  PROVE  Meant'
<1> USE DEF Set, Goto, At, Opens
<1> DEFINE f == File(r)
<1>1. /\ Handle(r) /\ pc \in [Requests -> Places] /\ f \in Names /\ DOMAIN data = Inodes
      /\ hand \in [Requests -> Inodes \cup {NoFile}] /\ file \in [Names -> Inodes \cup {NoFile}]
      /\ \A g \in Names : file[g] # NoFile => file[g] \in Inodes /\ file[g][2] = g
  BY FileIsName DEF Handle, Types, Open
<1>2. /\ pc[r] = "open" /\ pc'[r] = "fill" /\ UNCHANGED <<asked, read, todo, tmp, whole>>
  BY <1>1 DEF Open
<1>3. r \in Writing /\ asked[r].kind \in Rewrites /\ Edits(r)
  BY <1>2 DEF Placed, Writing, Writes, Rewrites, Meant
<1>4. File(r)' = f /\ (Extends(r)' <=> Extends(r))
  BY <1>2 DEF File, Extends, Appends, SectionExists, HeaderOf
<1>5. CASE file[f] = NoFile
  <2>1. PICK i \in Inodes : i = <<r, f>> /\ i[2] = f
    BY <1>1, InodeIsFile
  <2>2. /\ hand'[r] = i /\ data' = [data EXCEPT ![i] = <<>>] /\ file' = [file EXCEPT ![f] = i]
    BY <1>1, <1>5, <2>1 DEF Open
  <2>3. read[r] = <<>> /\ ~Extends(r)
    BY <1>2, <1>3, <1>5 DEF Edits, Extends
  <2>4. file'[f] = i /\ data'[i] = <<>>
    BY <1>1, <2>1, <2>2
  <2>5. Edits(r)'
    BY <1>2, <1>4, <2>2, <2>3, <2>4 DEF Edits
  <2>6. \A g \in Names \ {f} : /\ file'[g] = file[g]
                               /\ \A j \in Inodes : j[2] = g => data'[j] = data[j]
    BY <1>1, <2>1, <2>2
  <2> QED BY <1>1, <1>2, <1>3, <1>4, <2>5, <2>6, RewriteMeans
<1>6. CASE file[f] # NoFile
  <2>1. file' = file /\ hand'[r] = file[f]
    BY <1>1, <1>6 DEF Open
  <2>2. read[r] = data[file[f]] /\ read[r] \in whole
    BY <1>2, <1>3, <1>6 DEF Edits
  <2>3. \/ Extends(r) /\ data' = data
        \/ ~(Extends(r)) /\ data' = [data EXCEPT ![file[f]] = <<>>]
    BY <1>1, <1>6 DEF Open
  <2>4. Edits(r)'
    BY <1>1, <1>2, <1>4, <1>6, <2>1, <2>2, <2>3 DEF Edits
  <2>5. \A g \in Names \ {f} : /\ file'[g] = file[g]
                               /\ \A j \in Inodes : j[2] = g => data'[j] = data[j]
    BY <1>1, <1>6, <2>1, <2>3
  <2> QED BY <1>1, <1>2, <1>3, <1>4, <2>4, <2>5, RewriteMeans
<1> QED BY <1>5, <1>6

\* A file has been rewritten in place.
LEMMA FillMeans ==
  ASSUME Types, Types', \A q \in Requests : Placed(q), Overlaps, ~Excused, Meant,
         NEW r \in Requests, Fill(r), asked[r].kind \in Rewrites
  PROVE  Meant'
<1> USE DEF Set, Goto, At
<1> DEFINE f == File(r)
           t == hand[r]
           extends == Extends(r)
           new == IF extends THEN data[t] \o Text(r) ELSE Overlay(Text(r), data[t])
<1>1. /\ Handle(r) /\ pc \in [Requests -> Places] /\ f \in Names /\ DOMAIN data = Inodes
      /\ \A g \in Names : file[g] # NoFile => file[g] \in Inodes /\ file[g][2] = g
  BY FileIsName DEF Handle, Types, Fill
<1>2. pc[r] = "fill" /\ pc'[r] \in {"reload", "scan"} /\ UNCHANGED <<asked, file, tmp>>
  <2>1. pc[r] = "fill" /\ UNCHANGED <<asked, file, tmp>>
    BY DEF Fill
  <2>2. pc'[r] \in {"reload", "scan"}
    BY <1>1 DEF Fill, NextFile, Rewrites
  <2> QED BY <2>1, <2>2
<1>3. r \in Writing /\ Edits(r) /\ t \in Inodes /\ t[2] = f
  BY <1>2 DEF Placed, Writing, Writes, Meant
<1>4. /\ t = file[f]
      /\ extends => data[t] \in whole
      /\ ~extends => data[t] = <<>> /\ read[r] \in whole \cup {<<>>}
  BY <1>2, <1>3 DEF Edits
<1>5. data' = [data EXCEPT ![t] = new]
  BY DEF Fill, Filled
<1>6. whole \subseteq whole' /\ new \in whole'
  <2>1. CASE extends
    <3>1. whole' = whole \cup {new}
      BY <1>4, <2>1 DEF Fill
    <3> QED BY <3>1
  <2>2. CASE ~extends
    <3>1. new = Text(r)
      BY <1>4, <2>2 DEF Overlay
    <3>2. whole' = whole \cup {Text(r)}
      BY <1>4, <2>2 DEF Fill
    <3> QED BY <3>1, <3>2
  <2> QED BY <2>1, <2>2
<1> HIDE DEF new, extends
<1>7. data'[file'[f]] \in whole'
  BY <1>1, <1>2, <1>3, <1>4, <1>5, <1>6
<1>8. \A g \in Names \ {f} : /\ file'[g] = file[g]
                             /\ \A j \in Inodes : j[2] = g => data'[j] = data[j]
  BY <1>1, <1>2, <1>3, <1>5
<1>9. Edits(r)'
  BY <1>2 DEF Edits
<1> QED BY <1>1, <1>2, <1>3, <1>6, <1>7, <1>8, <1>9, RewriteMeans


\* Every step keeps what the files hold, or gives an answer that says otherwise.
LEMMA MeantKept ==
  ASSUME Types, Types', \A r \in Requests : Placed(r) /\ Answered(r), Overlaps, Unused, Meant,
         [Next]_vars
  PROVE  Meant'
<1>1. CASE Excused
  <2>1. Excused'
    BY <1>1, ExcusedStays
  <2> QED BY <2>1 DEF Meant
<1>2. CASE ~Excused /\ UNCHANGED vars
  <2>1. /\ UNCHANGED <<asked, pc, read, todo, hand, file, tmp, data, whole>>
    BY <1>2 DEF vars, request, disk
  <2>2. ASSUME NEW r \in Requests PROVE Edits(r)'
    <3>1. Edits(r) /\ File(r)' = File(r) /\ (Extends(r)' <=> Extends(r))
      BY <1>2, <2>1 DEF Meant, File, Extends, Appends, SectionExists, HeaderOf
    <3> QED BY <2>1, <3>1 DEF Edits
  <2>3. ASSUME NEW f \in Names PROVE Doomed(f)' \/ Settled(f)'
    <3>1. Editing(f) => Editing(f)'
      BY <2>1 DEF Editing, File
    <3>2. Holders(f)' = Holders(f)
      BY <2>1 DEF Holders
    <3> QED BY <1>2, <2>1, <3>1, <3>2, ElsewhereKept DEF Meant
  <2> QED BY <2>2, <2>3 DEF Meant
<1>3. ASSUME ~Excused, NEW r \in Requests, Handle(r) PROVE Meant'
  <2>1. CASE \/ Start(r) \/ Scan(r) \/ ReadFile(r) \/ ReadFails(r) \/ Reload(r) \/ Load(r) \/ ParseAll(r)
    BY <1>3, <2>1, ReadersMean
  <2>2. CASE OpenTmp(r)
    BY <1>3, <2>2, OpenTmpMeans
  <2>3. CASE Replace(r)
    BY <1>3, <2>3, ReplaceMeans
  <2>4. CASE Unlink(r)
    BY <1>3, <2>4, UnlinkMeans
  <2>5. CASE Open(r)
    BY <1>3, <2>5, OpenMeans
  <2>6. CASE Fill(r)
    BY <1>3, <2>6, FillMeans, FillTmpMeans
  <2>7. CASE WriteFails(r)
    <3>1. /\ answer \in [Requests -> {"none", "ok", "refused", "error"}]
          /\ marks \in [Requests -> SUBSET {"changed", "failed"}]
      BY DEF Types
    <3>2. answer'[r] = "error" \/ "failed" \in marks'[r]
      BY <2>7, <3>1, FailureLeaves
    <3> QED BY <3>2 DEF Meant, Excused
  <2> QED BY <1>3, <2>1, <2>2, <2>3, <2>4, <2>5, <2>6, <2>7 DEF Handle
<1> QED BY <1>1, <1>2, <1>3 DEF Next

-----------------------------------------------------------------------------
(* Theorems                                                                *)

\* It holds at first.
LEMMA InventoryInit == Init => InventoryInv
<1> SUFFICES ASSUME Init PROVE InventoryInv
  OBVIOUS
<1> USE DEF Init
<1>1. PICK c \in Contents :
        /\ file = [f \in Names |-> IF f \in DOMAIN c THEN <<"disk", f>> ELSE NoFile]
        /\ data = [i \in ({"disk"} \cup Requests) \X Names |->
                     IF i[1] = "disk" /\ i[2] \in DOMAIN c THEN c[i[2]] ELSE <<>>]
        /\ whole = Range(c)
  OBVIOUS
<1>2. \A f \in Names : <<"disk", f>> \in Inodes /\ <<"disk", f>>[1] = "disk" /\ <<"disk", f>>[2] = f
  BY DEF Inodes
<1>3. \A f \in Names : /\ file[f] \in Inodes \cup {NoFile}
                       /\ file[f] # NoFile => /\ f \in DOMAIN c /\ file[f] = <<"disk", f>>
                                              /\ file[f][2] = f /\ data[file[f]] = c[f]
  BY <1>1, <1>2 DEF Inodes
<1>4. Types
  <2>1. file \in [Names -> Inodes \cup {NoFile}] /\ tmp \in [Names -> Inodes \cup {NoFile}]
    BY <1>1, <1>3
  <2>2. DOMAIN data = Inodes
    BY <1>1 DEF Inodes
  <2>3. /\ pc \in [Requests -> Places] /\ todo \in [Requests -> Seq(Names)]
        /\ hand \in [Requests -> Inodes \cup {NoFile}]
    BY DEF Places
  <2> QED BY <1>3, <2>1, <2>2, <2>3 DEF Types
<1>5. ASSUME NEW r \in Requests PROVE Placed(r) /\ Answered(r)
  <2>1. asked[r].kind \in Kinds
    BY Asked
  <2> QED BY <2>1 DEF Placed, Answered, Kinds
<1>6. Shown /\ Overlaps
  BY DEF Shown, Late, Overlaps, Writing
<1>7. Unused
  <2>1. SUFFICES ASSUME NEW r \in Requests, NEW f \in Names PROVE <<r, f>> # file[f] /\ <<r, f>> # tmp[f]
    BY DEF Unused
  <2>2. <<r, f>> # NoFile /\ <<r, f>> # <<"disk", f>>
    BY InodeIsFile
  <2> QED BY <1>1, <2>2
<1>8. Meant
  <2>1. ASSUME NEW f \in Names PROVE Held(f) /\ Clean(f)
    <3>1. tmp[f] = NoFile
      OBVIOUS
    <3>2. \A x \in DOMAIN c : c[x] \in whole
      BY <1>1 DEF Range
    <3> HIDE DEF Init
    <3>3. file[f] # NoFile => data[file[f]] \in whole
      BY <1>3, <3>2
    <3> QED BY <3>1, <3>3 DEF Held, Clean
  <2> QED BY <2>1 DEF Meant, Settled, Edits
<1> QED BY <1>4, <1>5, <1>6, <1>7, <1>8 DEF InventoryInv

\* The state of requests, cache and files that all of the following rests on.
THEOREM InventoryInvariance == Spec => []InventoryInv
<1>1. InventoryInv /\ [Next]_vars => InventoryInv'
  <2> SUFFICES ASSUME InventoryInv, [Next]_vars PROVE InventoryInv'
    OBVIOUS
  <2>1. Types' /\ \A r \in Requests : Placed(r)' /\ Answered(r)'
    BY TypesKept, PlacedKept, AnsweredKept DEF InventoryInv
  <2>2. Shown' /\ Overlaps' /\ Unused' /\ Meant'
    BY <2>1, ShownKept, OverlapsKept, UnusedKept, MeantKept DEF InventoryInv
  <2> QED BY <2>1, <2>2 DEF InventoryInv
<1> QED BY <1>1, InventoryInit, PTL DEF Spec

\* A request that has been answered with success has its change seen by every
\* lookup that follows (InventoryClient.reload and _load).
THEOREM FreshAnswers == Spec => []FreshAfterAnswer
<1>1. InventoryInv => FreshAfterAnswer
  BY DEF InventoryInv, Shown, Late, FreshAfterAnswer
<1> QED BY <1>1, InventoryInvariance, PTL

\* Whatever PUT and POST requests share a temporary file, and whichever writes
\* fail, no file is left with a text nobody meant while all answers are good
\* (put_source, post_source, delete_hosts, add_to_inventory).
THEOREM NoSilentMix == Spec => []MixedNeedsError
<1>1. InventoryInv => MixedNeedsError
  <2> SUFFICES ASSUME InventoryInv, \A r \in Requests : pc[r] \in {"start", "done"}
               PROVE  \/ \A f \in Names : file[f] = NoFile \/ data[file[f]] \in whole
                      \/ \E r \in Requests : answer[r] = "error"
                      \/ \E r \in overlapped : asked[r].kind \in Rewrites
    BY DEF MixedNeedsError
  <2>1. CASE Excused
    BY <2>1 DEF Excused, InventoryInv, Answered
  <2>2. CASE ~Excused
    <3>1. ASSUME NEW f \in Names PROVE Clean(f)
      <4>1. ~Doomed(f) /\ ~Editing(f)
        BY DEF Doomed, Holders, Editing
      <4> QED BY <2>2, <4>1 DEF InventoryInv, Meant, Settled
    <3> QED BY <3>1 DEF Clean
  <2> QED BY <2>1, <2>2
<1> QED BY <1>1, InventoryInvariance, PTL
=============================================================================
