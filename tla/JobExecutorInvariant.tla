----------------------- MODULE JobExecutorInvariant -----------------------
(***************************************************************************)
(* The inductive invariant of JobExecutor: what must be known of every     *)
(* reachable state for the safety properties to be preserved by each step. *)
(***************************************************************************)
EXTENDS JobExecutor

\* Positions of the background thread before, in and after the pool's block.
Early  == {"acquire", "timedout", "check", "markrunning"}
InPool == {"submit", "collect", "withdraw", "result", "drain"}
Over   == {"report", "release", "cleanup", "done"}

\* Where a job's thread is bounds what its row may say, and a handler about
\* to start a thread is the only one, for a job that has none.
Lifeline ==
  /\ \A j \in Jobs :
       /\ status[j] = "absent"  => pc[j] = "none"
       /\ pc[j] = "none"        => status[j] \in {"absent", "queued"}
       /\ pc[j] \in Early       => status[j] = "queued"
       /\ pc[j] \in InPool      => status[j] = "running"
  /\ \A c \in Clients : req[c].op = "start" => status[req[c].job] = "queued"
  /\ RunsOnce

\* Futures live in the pool's block only; stored ones have a result.
Futures ==
  \A j \in Jobs :
    /\ pc[j] \notin InPool => PoolIdle(j)
    /\ pc[j] \in Early \cup {"none", "submit"} => stored[j] = {}
    /\ pc[j] \in {"withdraw", "result"} => at[j] \in Entries(j)
    /\ \A i \in stored[j] : fut[j][i] \in Outcome

\* Without faults or restarts an active job always has its event, and loses
\* it only once its status is terminal.
Signals ==
  /\ \A c \in Clients :
       /\ req[c].op = "signal" => status[req[c].job] # "absent"
       /\ req[c].op = "create" /\ status[req[c].job] = "absent"
            => event[req[c].job] # "none"
  /\ Undisturbed =>
       \A j \in Jobs :
         /\ status[j] \in Active => event[j] # "none"
         /\ pc[j] \in Over       => status[j] \in Terminal
         /\ j \in accepted       => event[j] = "set" \/ status[j] \in Terminal

\* The inductive invariant: types and slot count need each other (Release), the
\* pool is idle outside its block, and position, status and event go together
\* on every path through submit_job, _run_job and cancel_job.
IInv == TypeOK /\ SlotConservation /\ Lifeline /\ Futures /\ Signals

-----------------------------------------------------------------------------
(* What must be known beyond that of the statuses a thread writes.         *)

\* A status is written to a job that is active; only the except clause may come
\* upon a terminal one, after the database has raised.
Path(j) ==
  /\ pc[j] \in {"final", "markcomplete"} => status[j] = "running"
  /\ pc[j] = "markcancelled"             => status[j] \in Active
  /\ pc[j] = "report"                    => status[j] \in Terminal
  /\ pc[j] = "except"                    => status[j] \in Active \/ faults > 0

\* Which devices of the list have been submitted: a prefix, the whole of it
\* unless the event was set; mark_complete and mark_cancelled come after all
\* that were submitted have been stored.
Submissions(j) ==
  /\ pc[j] \in Early \cup {"none"} =>
       at[j] = 1 /\ \A i \in Entries(j) : fut[j][i] = "idle"
  /\ pc[j] = "submit" =>
       /\ at[j] >= 1
       /\ \A i \in Entries(j) : /\ fut[j][i] = "idle" <=> i >= at[j]
                                /\ fut[j][i] \notin {"cancelled", "notified"}
  /\ pc[j] \in (InPool \ {"submit"}) \cup {"final"} =>
       event[j] = "set" \/ \A i \in Entries(j) : fut[j][i] # "idle"
  /\ pc[j] = "markcomplete" => \A i \in Entries(j) : fut[j][i] # "idle"
  /\ pc[j] \in {"final", "markcomplete", "markcancelled"} =>
       \A i \in Entries(j) : fut[j][i] = "idle" \/ i \in stored[j]

\* What is stored has a row, and every row was told by a session with its host.
Told(j) ==
  /\ \A i \in stored[j] : rows[j][DeviceList[j][i]] # "none"
  /\ \A d \in Devices : rows[j][d] # "none" =>
       \E i \in Entries(j) : DeviceList[j][i] = d /\ fut[j][i] = rows[j][d]

\* What is known of one job, with the two properties it is there for.
JobInv(j) ==
  Path(j) /\ Submissions(j) /\ Told(j) /\ WithdrawnAll(j) /\ StatusIsTrue(j)

\* Jobs that are orphans or are bound to be.
Doomed == {j \in Jobs : pc[j] \in {"release", "cleanup", "done"} /\ status[j] \in Active}
DoomedNeedFaults == crashes = 0 => Cardinality(Doomed) <= faults

\* The invariant for the statuses.
SInv == IInv /\ (\A j \in Jobs : JobInv(j)) /\ DoomedNeedFaults
=============================================================================
