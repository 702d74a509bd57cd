--------------------------- MODULE InventoryFiles ---------------------------
(***************************************************************************)
(* The inventory directory and its cache: the handlers that change files   *)
(* (api/routes/inventory.py, add_to_inventory of api/routes/discovery.py)  *)
(* and InventoryClient (secrets/inventory.py), each handler on a thread of *)
(* its own and none of them under a lock but the client's.                 *)
(*                                                                         *)
(* A file is a sequence of lines, a section header or a host.  write_text  *)
(* empties the file and then writes at its start; what another writer put  *)
(* behind stays.  An open file is an inode and keeps being one when its    *)
(* name is given to another.  Of the cache only its age matters here.      *)
(***************************************************************************)
EXTENDS Naturals, Sequences, FiniteSets, SequencesExt

CONSTANTS
  Requests,   \* requests being handled
  Names,      \* names of .ini files
  Sorted,     \* what sorted() makes of a set of names
  Contents,   \* what may be in a file at first: functions from names to lines
  Scenarios,  \* what the requests ask for
  Lower,      \* lower(): functions on the names of groups
  MaxErrors   \* bound on reads and writes the system refuses (full disk,
              \* permissions)

Kinds   == {"put", "post", "delete", "delete_hosts", "add", "reload", "load"}
Rewrites == {"delete_hosts", "add"}   \* in place
Writes  == {"put", "post", "delete"} \cup Rewrites
NoFile  == <<>>

ASSUME InventoryAssumption ==
  /\ IsFiniteSet(Requests) /\ "disk" \notin Requests /\ MaxErrors \in Nat
  /\ \A S \in SUBSET Names : Sorted[S] \in Seq(Names) /\ Range(Sorted[S]) = S
  /\ \A c \in Contents : DOMAIN c \subseteq Names
  /\ \A s \in Scenarios : \A r \in Requests :
       s[r].kind \in Kinds /\ s[r].file \in Names /\ s[r].target \in {"existing", "new"}

VARIABLES
  asked,     \* the requests
  pc, read,  \* place in the handler, text it has read
  todo,      \* files a loop has still to deal with
  hand,      \* inode it has open
  marks,     \* of delete_hosts: "changed" if removed, "failed" if errors
  answer,    \* "none", "ok", "refused" (4xx) or "error" (5xx, or in errors)
  file, tmp, \* inode of the .ini file and of its .tmp
  data,      \* lines of an inode
  lock,      \* who has InventoryClient._lock
  cached,    \* _cache is not None
  missed,    \* requests whose last write the cache does not show
  missing,   \* the same for the parse going on
  errors, whole, overlapped, unread  \* history, see below

request == <<pc, read, todo, hand, marks, answer>>
disk    == <<file, tmp, data>>
cache   == <<lock, cached, missed, missing>>
vars    == <<asked, request, disk, cache, errors, whole, overlapped, unread>>

-----------------------------------------------------------------------------
(* Lines, and the strict parser.                                           *)

Sec(g)  == <<"section", g>>
Host(h) == <<"host", h>>

HostsIn(text) ==
  LET Under(i) == {j \in 1..i : text[j][1] = "section"}
  IN  {<<IF Under(i) = {} THEN <<>> ELSE text[CHOOSE j \in Under(i) : \A k \in Under(i) : k <= j],
         text[i][2]>> : i \in {i \in DOMAIN text : text[i][1] = "host"}}

\* A header or a host of a group twice, or a host before any header, is a
\* configparser.Error: _parse_file passes over the whole file.
Parses(text) ==
  /\ \A i, j \in DOMAIN text : text[i][1] = "section" /\ text[i] = text[j] => i = j
  /\ Cardinality(HostsIn(text)) = Cardinality({i \in DOMAIN text : text[i][1] = "host"})
  /\ text # <<>> => text[1][1] = "section"

Resolved(text) == IF Parses(text) THEN HostsIn(text) ELSE {}

-----------------------------------------------------------------------------
(* What a handler writes.                                                  *)

\* Headers are compared without regard to case, which the parser does not do.
HeaderOf(r, l) == l[1] = "section" /\ Lower[l[2]] = Lower[asked[r].group]
SectionExists(r) == \E i \in DOMAIN read[r] : HeaderOf(r, read[r][i])

\* Slip: hosts always come with a header.
AddedAtEnd(r) == read[r] \o <<Sec(asked[r].group)>> \o asked[r].lines

\* New hosts go below the first header of their group.
Added(r) ==
  LET at == CHOOSE i \in DOMAIN read[r] :
              HeaderOf(r, read[r][i]) /\ \A j \in 1..(i - 1) : ~HeaderOf(r, read[r][j])
  IN  SubSeq(read[r], 1, at) \o asked[r].lines \o SubSeq(read[r], at + 1, Len(read[r]))


Without(r, text) == SelectSeq(text, LAMBDA l : l \notin Range(asked[r].lines))

Appends(r) == asked[r].kind = "add" /\ ~SectionExists(r)

Text(r) ==
  CASE asked[r].kind = "delete_hosts" -> Without(r, read[r])
    [] Appends(r) -> <<Sec(asked[r].group)>> \o asked[r].lines
    [] asked[r].kind = "add" -> Added(r)
    [] OTHER -> asked[r].lines

Overlay(new, old) == IF old = <<>> THEN new ELSE new \o SubSeq(old, Len(new) + 1, Len(old))

\* The text it leaves in its open file when it writes text there.
Extends(r) == Appends(r) /\ read[r] # <<>>
Filled(r, text) ==
  IF Extends(r) THEN data[hand[r]] \o text ELSE Overlay(text, data[hand[r]])

File(r) == IF asked[r].kind = "delete_hosts" THEN Head(todo[r]) ELSE asked[r].file

-----------------------------------------------------------------------------
At(r, from) == pc[r] = from
Set(f, r, v) == [f EXCEPT ![r] = v]
Goto(r, to) == pc' = Set(pc, r, to)
Answers(r, a) == Goto(r, "done") /\ answer' = Set(answer, r, a)

Published == Sorted[{f \in Names : file[f] # NoFile}]

\* History: requests that write while another one does.
Writing == {r \in Requests : asked[r].kind \in Writes /\ pc[r] \notin {"start", "done"}}
Marks ==
  overlapped' = IF Cardinality(Writing') > 1 THEN overlapped \cup Writing' ELSE overlapped

\* The request has changed the file of that name: what has been read is older.
Changes(r, f) ==
  /\ missed' = IF cached THEN missed \cup {r} ELSE missed
  /\ missing' = IF lock # "free" /\ f \notin Range(todo[lock]) THEN missing \cup {r} ELSE missing
  /\ UNCHANGED <<lock, cached>>

ChangesInode(r, i) ==
  IF file[File(r)] = i THEN Changes(r, File(r)) ELSE UNCHANGED cache

\* exists(), 404 and 409
Start(r) ==
  /\ At(r, "start")
  /\ LET k == asked[r].kind
         there == k \in {"put", "post", "delete", "add"} /\ file[asked[r].file] # NoFile
         refused == \/ k = "post" /\ there
                    \/ k = "delete" /\ ~there
                    \/ k = "add" /\ ~there /\ asked[r].target = "existing"
     IN  IF refused
         THEN Answers(r, "refused") /\ UNCHANGED todo
         ELSE /\ Goto(r, CASE k \in {"put", "post"} -> "open_tmp"
                           [] k = "delete" -> "unlink"
                           [] k = "delete_hosts" -> "scan"
                           [] k = "add" -> IF there THEN "read" ELSE "open"
                           [] k = "reload" -> "reload"
                           [] OTHER -> "load")
              /\ todo' = IF k = "delete_hosts" THEN Set(todo, r, Published) ELSE todo
              /\ UNCHANGED answer
  /\ UNCHANGED <<asked, read, hand, marks, disk, cache, errors, whole, unread>> /\ Marks

-----------------------------------------------------------------------------
(* PUT and POST: the temporary file has one name for all requests.         *)

\* open(..., "w"): truncated if it is there.
Opens(r, i) == hand' = Set(hand, r, i) /\ data' = Set(data, i, <<>>)

OpenTmp(r) ==
  /\ At(r, "open_tmp") /\ Goto(r, "fill")
  /\ IF tmp[File(r)] = NoFile
     THEN Opens(r, <<r, File(r)>>) /\ tmp' = Set(tmp, File(r), <<r, File(r)>>)
     ELSE Opens(r, tmp[File(r)]) /\ UNCHANGED tmp
  /\ ChangesInode(r, tmp[File(r)])
  /\ UNCHANGED <<asked, read, todo, marks, answer, file, errors, whole, unread>> /\ Marks

\* Slip: it is no error that the temporary file has gone.
ReplaceIfThere(r) ==
  /\ At(r, "replace")
  /\ IF tmp[File(r)] = NoFile
     THEN Goto(r, "reload") /\ UNCHANGED <<answer, disk, cache>>
     ELSE /\ file' = Set(file, File(r), tmp[File(r)]) /\ tmp' = Set(tmp, File(r), NoFile)
          /\ Goto(r, "reload") /\ Changes(r, File(r)) /\ UNCHANGED <<answer, data>>
  /\ UNCHANGED <<asked, read, todo, hand, marks, errors, whole, unread>> /\ Marks

\* tmp.replace(path): whoever else writes the temporary file now writes the
\* inventory, and finds nothing to rename.
Replace(r) ==
  /\ At(r, "replace")
  /\ IF tmp[File(r)] = NoFile
     THEN Answers(r, "error") /\ UNCHANGED <<disk, cache>>
     ELSE /\ file' = Set(file, File(r), tmp[File(r)]) /\ tmp' = Set(tmp, File(r), NoFile)
          /\ Goto(r, "reload") /\ Changes(r, File(r)) /\ UNCHANGED <<answer, data>>
  /\ UNCHANGED <<asked, read, todo, hand, marks, errors, whole, unread>> /\ Marks

\* DELETE of a file another request has deleted raises.
Unlink(r) ==
  /\ At(r, "unlink")
  /\ IF file[File(r)] = NoFile
     THEN Answers(r, "error") /\ UNCHANGED <<file, cache>>
     ELSE /\ file' = Set(file, File(r), NoFile) /\ Goto(r, "reload")
          /\ Changes(r, File(r)) /\ UNCHANGED answer
  /\ UNCHANGED <<asked, read, todo, hand, marks, tmp, data, errors, whole, unread>> /\ Marks

-----------------------------------------------------------------------------
(* delete_hosts and add_to_inventory: read, change, write in place.        *)

NextFile(r) == Goto(r, "scan") /\ todo' = Set(todo, r, Tail(todo[r]))

\* One file of delete_hosts; it is only written when a host was in it.
Scan(r) ==
  /\ At(r, "scan")
  /\ IF todo[r] = <<>>
     THEN /\ IF marks[r] = {} THEN Answers(r, "ok") ELSE Goto(r, "reload") /\ UNCHANGED answer
          /\ UNCHANGED <<read, todo>>
     ELSE LET i == file[Head(todo[r])]
          IN  /\ IF i # NoFile /\ Without(r, data[i]) # data[i]
                 THEN Goto(r, "open") /\ read' = Set(read, r, data[i]) /\ UNCHANGED todo
                 ELSE NextFile(r) /\ UNCHANGED read
              /\ UNCHANGED answer
  /\ UNCHANGED <<asked, hand, marks, disk, cache, errors, whole, unread>> /\ Marks

\* A file that has gone since is read as an empty one where it is looked for once
\* more before it is read, which is so for target "existing".
ReadFile(r) ==
  /\ At(r, "read")
  /\ LET i == file[File(r)]
     IN  \/ /\ i # NoFile
            /\ Goto(r, "open") /\ read' = Set(read, r, data[i]) /\ UNCHANGED answer
         \/ /\ i = NoFile /\ asked[r].target = "existing"
            /\ Goto(r, "open") /\ UNCHANGED <<read, answer>>
         \/ i = NoFile /\ Answers(r, "error") /\ UNCHANGED read
  /\ UNCHANGED <<asked, todo, hand, marks, disk, cache, errors, whole, unread>> /\ Marks

\* OSError from reading: delete_hosts goes on with the next file and says nothing.
ReadFails(r) ==
  /\ At(r, "read") \/ (At(r, "scan") /\ todo[r] # <<>>)
  /\ file[File(r)] # NoFile
  /\ errors < MaxErrors /\ errors' = errors + 1
  /\ IF asked[r].kind = "delete_hosts"
     THEN NextFile(r) /\ unread' = unread \cup {<<r, File(r)>>} /\ UNCHANGED answer
     ELSE Answers(r, "error") /\ UNCHANGED <<todo, unread>>
  /\ UNCHANGED <<asked, read, hand, marks, disk, cache, whole>> /\ Marks

\* "a" leaves the file as it is, unless it was empty when it was read.
Open(r) ==
  LET f == File(r) IN
  /\ At(r, "open") /\ Goto(r, "fill")
  /\ IF file[f] = NoFile
     THEN Opens(r, <<r, f>>) /\ file' = Set(file, f, <<r, f>>) /\ Changes(r, f)
     ELSE /\ IF Extends(r)
             THEN hand' = Set(hand, r, file[f]) /\ UNCHANGED <<data, cache>>
             ELSE Opens(r, file[f]) /\ Changes(r, f)
          /\ UNCHANGED file
  /\ UNCHANGED <<asked, read, todo, marks, answer, tmp, errors, whole, unread>> /\ Marks

Fill(r) ==
  /\ At(r, "fill")
  /\ LET sound == CASE asked[r].kind \notin Rewrites -> TRUE
                    [] Extends(r) -> data[hand[r]] \in whole
                    [] OTHER -> read[r] \in whole \cup {<<>>}
     IN  /\ data' = Set(data, hand[r], Filled(r, Text(r)))
         /\ whole' = IF ~sound THEN whole
                     ELSE whole \cup {IF Extends(r) THEN data[hand[r]] \o Text(r) ELSE Text(r)}
  /\ ChangesInode(r, hand[r])
  /\ IF asked[r].kind = "delete_hosts"
     THEN NextFile(r) /\ marks' = Set(marks, r, marks[r] \cup {"changed"})
     ELSE /\ Goto(r, IF asked[r].kind = "add" THEN "reload" ELSE "replace")
          /\ UNCHANGED <<todo, marks>>
  /\ UNCHANGED <<asked, read, hand, answer, file, tmp, errors, unread>> /\ Marks

\* OSError from opening, or from writing when a part of the text is in the file.
\* PUT and POST take the temporary file away, delete_hosts goes on with the next.
WriteFails(r) ==
  /\ pc[r] \in {"open_tmp", "open", "fill"} /\ errors < MaxErrors /\ errors' = errors + 1
  /\ \/ pc[r] # "fill" /\ UNCHANGED <<data, cache>>
     \/ /\ pc[r] = "fill" /\ ChangesInode(r, hand[r])
        /\ \E n \in 0..(Len(Text(r)) - 1) :
             data' = Set(data, hand[r], Filled(r, SubSeq(Text(r), 1, n)))
  /\ IF asked[r].kind = "delete_hosts"
     THEN /\ NextFile(r) /\ marks' = Set(marks, r, marks[r] \cup {"failed"}) /\ UNCHANGED answer
     ELSE Answers(r, "error") /\ UNCHANGED <<todo, marks>>
  /\ tmp' = IF asked[r].kind \in Rewrites THEN tmp ELSE Set(tmp, File(r), NoFile)
  /\ UNCHANGED <<asked, read, hand, file, whole, unread>> /\ Marks

-----------------------------------------------------------------------------
(* InventoryClient                                                         *)

Verdict(r) == IF "failed" \in marks[r] THEN "error" ELSE "ok"

\* Slip: reload() does not wait for the lock.
ReloadUnlocked(r) ==
  /\ At(r, "reload") /\ cached' = FALSE /\ missed' = {} /\ Answers(r, Verdict(r))
  /\ UNCHANGED <<asked, read, todo, hand, marks, disk, lock, missing, errors, whole, unread>> /\ Marks

\* reload(), the last thing a handler does that changes the inventory.
Reload(r) ==
  /\ At(r, "reload") /\ lock = "free"
  /\ cached' = FALSE /\ missed' = {} /\ Answers(r, Verdict(r))
  /\ UNCHANGED <<asked, read, todo, hand, marks, disk, lock, missing, errors, whole, unread>> /\ Marks

\* _load(): the lock is held until the last file has been parsed.
Load(r) ==
  /\ At(r, "load") /\ lock = "free"
  /\ IF cached \/ Published = <<>>
     THEN Answers(r, IF cached THEN "ok" ELSE "error") /\ UNCHANGED <<todo, lock>>
     ELSE /\ lock' = r /\ todo' = Set(todo, r, Published) /\ Goto(r, "parse")
          /\ UNCHANGED answer
  /\ UNCHANGED <<asked, read, hand, marks, disk, cached, missed, missing, errors, whole, unread>> /\ Marks

ParseAll(r) ==
  /\ At(r, "parse")
  /\ IF todo[r] # <<>>
     THEN todo' = Set(todo, r, Tail(todo[r])) /\ UNCHANGED <<pc, answer, cache>>
     ELSE /\ cached' = TRUE /\ missed' = missing /\ missing' = {} /\ lock' = "free"
          /\ Answers(r, "ok") /\ UNCHANGED todo
  /\ UNCHANGED <<asked, read, hand, marks, disk, errors, whole, unread>> /\ Marks

-----------------------------------------------------------------------------
\* whole: the texts that are what someone meant a file to be.  overlapped: the
\* requests that were handled while another one that writes was.  unread: who
\* could not read which file.
Init ==
  /\ asked \in Scenarios
  /\ pc = [r \in Requests |-> "start"] /\ read = [r \in Requests |-> <<>>]
  /\ todo = read /\ hand = [r \in Requests |-> NoFile]
  /\ marks = [r \in Requests |-> {}] /\ answer = [r \in Requests |-> "none"]
  /\ \E c \in Contents :
       /\ file = [f \in Names |-> IF f \in DOMAIN c THEN <<"disk", f>> ELSE NoFile]
       /\ data = [i \in ({"disk"} \cup Requests) \X Names |->
                    IF i[1] = "disk" /\ i[2] \in DOMAIN c THEN c[i[2]] ELSE <<>>]
       /\ whole = Range(c)
  /\ tmp = [f \in Names |-> NoFile]
  /\ lock = "free" /\ cached \in BOOLEAN /\ missed = {} /\ missing = {}
  /\ errors = 0 /\ overlapped = {} /\ unread = {}

Handle(r) ==
  \/ Start(r) \/ OpenTmp(r) \/ Replace(r) \/ Unlink(r) \/ Scan(r) \/ ReadFile(r)
  \/ ReadFails(r) \/ Open(r) \/ Fill(r) \/ WriteFails(r) \/ Reload(r) \/ Load(r) \/ ParseAll(r)

Next == \E r \in Requests : Handle(r)
Spec == Init /\ [][Next]_vars

-----------------------------------------------------------------------------
\* Once a request that changed the inventory has been answered with success, no
\* lookup is served from a cache that was read before its last write, not even
\* one whose parse was going on meanwhile (InventoryClient.reload and _load).
FreshAfterAnswer == cached => \A r \in missed : answer[r] # "ok"

\* When no request is under way, every file is a text someone meant to be there,
\* or the answer to a request said that it failed; what PUT and POST do to one
\* temporary file never goes unnoticed.  Requests that rewrite a file in place
\* (delete_hosts, add_to_inventory) and overlap with another give no such promise.
MixedNeedsError ==
  (\A r \in Requests : pc[r] \in {"start", "done"}) =>
    \/ \A f \in Names : file[f] = NoFile \/ data[file[f]] \in whole
    \/ \E r \in Requests : answer[r] = "error"
    \/ \E r \in overlapped : asked[r].kind \in Rewrites

Hosts(r) == {l[2] : l \in Range(asked[r].lines)}

=============================================================================
