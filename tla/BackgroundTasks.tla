--------------------------- MODULE BackgroundTasks ---------------------------
(***************************************************************************)
(* Managed background tasks (src/background_tasks/mod.rs, store.rs, os.rs): *)
(* processes a session starts and the runtime supervises across turns,     *)
(* restarts and the deletion of their owner.                               *)
(*                                                                         *)
(* A task is a durable row beside a process tree that neither waits for    *)
(* the registry nor dies with the runtime.  Launches, the beginning and    *)
(* the end of a stop, dismissals, deletion marks, the monitor's verdicts   *)
(* and reconciliation take one lock, which a launch keeps while it waits;  *)
(* a stop signals without it.  The tree is reduced to whether its leader,  *)
(* or a survivor of it, lives; which processes belong to it (os.rs) is     *)
(* Present, and process ids are not reused.                                *)
(***************************************************************************)
EXTENDS Naturals, FiniteSets

CONSTANTS
  Tasks,      \* task identities, each drawn once
  Owners,     \* logical sessions
  OwnerOf,    \* the session whose call starts a task
  MaxActive,  \* unended tasks one owner may hold when it starts one (32)
  MaxCrashes, \* bound on crashes of the runtime
  MaxFaults,  \* bound on process listings and writes of a launch that fail
  MaxCancels, \* bound on tool calls dropped while they wait
  None        \* no row, no operation

ASSUME TaskAssumption ==
  /\ IsFiniteSet(Tasks) /\ OwnerOf \in [Tasks -> Owners]
  /\ MaxActive \in Nat /\ MaxCrashes \in Nat /\ MaxFaults \in Nat /\ MaxCancels \in Nat

States == {"launching", "running", "stopping", "exited", "stopped",
           "failed_to_start", "cleanup_failed", "unknown"}
Ended == {"exited", "stopped", "failed_to_start"}
\* Exit statuses: "none" is an exit_code and exit_signal that are both absent.
Exits == {"none", "zero", "other"}
\* Why a task is stopped, as the row keeps it.
Reasons == {"requested", "owner_deleted"}
\* The columns a step may change; "id" tells which of process_id and
\* process_start are recorded.
Row == [state : States, supervision : {"child", "adopted"}, id : {"none", "pid", "full"},
        exit : Exits, reason : Reasons \cup {"none"}, marked : BOOLEAN]
\* The phase a launch has reached, what a stop works on, what the monitor saw.
LaunchState == [task : Tasks, phase : {"row", "gate", "identified", "released"}]
StopState   == [rec : Row, phase : {"term", "kill", "over"}, call : BOOLEAN]
Sighting    == [kind : {"unlisted", "alive", "empty"}, exit : Exits]

ASSUME NoneAssumption ==
  /\ None \notin Row /\ None \notin LaunchState /\ None \notin StopState
  /\ None \notin Sighting /\ None \notin Reasons

VARIABLES
  row,       \* background_tasks
  receipts,  \* background_task_receipts
  session,   \* sessions that still exist
  world,     \* the process tree: a gated leader waits for its release line
  status,    \* the leader's exit status, kept by the kernel
  mode,      \* the runtime, and whether it has reconciled
  launching, \* the launch that holds the coordination lock, and its phase
  waiters,   \* tasks whose leader this runtime process will reap
  exits,     \* leader_exits
  stopping,  \* Coordination::stopping
  stops,     \* stops under way: the record they work on and their phase
  fenced,    \* Coordination::deleting_owners
  deletion,  \* owner deletions under way
  cleanup,   \* rows a committed deletion has listed and not yet handled
  resume,    \* stops that reconciliation spawned
  seen,      \* what the monitor saw of a row and has not yet applied
  budget     \* crashes, faults and cancellations left

durable  == <<row, receipts, session>>
procs    == <<world, status>>
deleting == <<fenced, deletion, cleanup>>
volatile == <<launching, waiters, exits, stopping, stops, deleting, resume, seen>>
vars     == <<durable, procs, mode, volatile, budget>>

Worlds == {"absent", "gated", "shut", "live", "orphaned", "gone"}

\* Rows, processes and the operations under way are of their kinds.
TypeOK ==
  /\ row \in [Tasks -> Row \cup {None}] /\ receipts \subseteq Tasks
  /\ session \subseteq Owners
  /\ world \in [Tasks -> Worlds] /\ status \in [Tasks -> Exits]
  /\ mode \in {"down", "starting", "unreconciled", "reconciled"}
  /\ launching \in LaunchState \cup {None}
  /\ waiters \subseteq Tasks /\ exits \in [Tasks -> Exits]
  /\ stopping \subseteq Tasks
  /\ stops \in [Tasks -> StopState \cup {None}]
  /\ fenced \subseteq Owners
  /\ deletion \in [Owners -> {"none", "begun", "committed", "done"}]
  /\ cleanup \in [Tasks -> Row \cup {None}]
  /\ resume \in [Tasks -> Reasons \cup {None}]
  /\ seen \in [Tasks -> Sighting \cup {None}]
  /\ budget \in [{"crash", "fault", "cancel"} -> Nat]

Fresh == [state |-> "launching", supervision |-> "child", id |-> "none",
          exit |-> "none", reason |-> "none", marked |-> FALSE]

Nothing == [t \in Tasks |-> None]

Init ==
  /\ row = Nothing /\ receipts = {} /\ session = Owners
  /\ world = [t \in Tasks |-> "absent"] /\ status = [t \in Tasks |-> "none"]
  /\ mode = "reconciled" /\ launching = None /\ waiters = {}
  /\ exits = [t \in Tasks |-> "none"]
  /\ stopping = {} /\ stops = Nothing /\ fenced = {}
  /\ deletion = [o \in Owners |-> "none"]
  /\ cleanup = Nothing /\ resume = Nothing /\ seen = Nothing
  /\ budget = [crash |-> MaxCrashes, fault |-> MaxFaults, cancel |-> MaxCancels]

Spend(kind) == /\ budget[kind] > 0
               /\ budget' = [budget EXCEPT ![kind] = @ - 1]

\* Mutant: a tree is gone with its leader.
PresentLeader(t) == world[t] \in {"gated", "shut", "live"}

\* The process table shows a process of the task: its leader, its group or a
\* descendant that was seen to leave it.
Present(t) == world[t] \in {"gated", "shut", "live", "orphaned"}
\* The command, or something it started, is running.
Runs(t) == world[t] \in {"live", "orphaned"}

Serving == mode \in {"unreconciled", "reconciled"}
\* Nobody waits while holding the coordination lock.
Unlocked == launching = None
Of(o) == {t \in Tasks : OwnerOf[t] = o}
Rows == {t \in Tasks : row[t] # None}
\* Mutant: rows of a stop under way are not left out.
AllRows == Rows
\* The rows no stop of this runtime process has claimed.
Unclaimed == Rows \ stopping
\* A row whose processes can be told apart from others'.
Identified(r) == \/ r.id = "full"
                 \/ r.id = "none" /\ r.state \in {"failed_to_start", "stopped"}

\* The row becomes a receipt, and its leader's status is forgotten.
Remove(t) ==
  /\ row' = [row EXCEPT ![t] = None] /\ receipts' = receipts \cup {t}
  /\ exits' = [exits EXCEPT ![t] = "none"]
Save(t, r) ==
  /\ row' = [row EXCEPT ![t] = r] /\ UNCHANGED <<receipts, exits>>

-----------------------------------------------------------------------------
(* Launching.  The row precedes the process, and the process waits at its  *)
(* gate until its identity is durable.                                     *)

Start(t) ==
  LET o == OwnerOf[t] IN
  /\ Serving /\ Unlocked
  /\ world[t] = "absent" /\ row[t] = None /\ t \notin receipts
  /\ o \in session /\ o \notin fenced
  /\ Cardinality({u \in Of(o) \cap Rows : row[u].state \notin Ended}) < MaxActive
  /\ row' = [row EXCEPT ![t] = Fresh]
  /\ launching' = [task |-> t, phase |-> "row"]
  /\ UNCHANGED <<receipts, session, procs, mode, waiters, exits, stopping, stops,
                 deleting, resume, seen, budget>>

At(t, phase) == launching = [task |-> t, phase |-> phase]

\* The launch fails: the record, saved as it stands, ends.
LaunchFails(t, id) ==
  /\ row' = [row EXCEPT ![t].state = "failed_to_start", ![t].id = id]
  /\ launching' = None

SpawnFails(t) ==
  /\ At(t, "row") /\ LaunchFails(t, "none")
  /\ UNCHANGED <<receipts, session, procs, mode, waiters, exits, stopping, stops,
                 deleting, resume, seen, budget>>

Spawn(t) ==
  /\ At(t, "row")
  /\ world' = [world EXCEPT ![t] = "gated"]
  /\ launching' = [launching EXCEPT !.phase = "gate"]
  /\ UNCHANGED <<durable, status, mode, waiters, exits, stopping, stops, deleting,
                 resume, seen, budget>>

\* A leader that died meanwhile is still listed, as a zombie.
Identify(t) ==
  /\ At(t, "gate")
  /\ row' = [row EXCEPT ![t].id = "full"]
  /\ launching' = [launching EXCEPT !.phase = "identified"]
  /\ UNCHANGED <<receipts, session, procs, mode, waiters, exits, stopping, stops,
                 deleting, resume, seen, budget>>

\* The leader is not listed, or its identity cannot be saved: the gate closes
\* unreleased, and the leader is reaped before the failure is recorded.
IdentifyFails(t) ==
  /\ At(t, "gate")
  /\ \E id \in {"pid", "full"} : LaunchFails(t, id)
  /\ world' = [world EXCEPT ![t] = "gone"] /\ status' = [status EXCEPT ![t] = "other"]
  /\ Spend("fault")
  /\ UNCHANGED <<receipts, session, mode, waiters, exits, stopping, stops, deleting,
                 resume, seen>>

\* Mutant: the leader is released before its identity is durable.
ReleaseEarly(t) ==
  /\ At(t, "gate")
  /\ world' = [world EXCEPT ![t] = IF @ = "gated" THEN "live" ELSE @]
  /\ launching' = [launching EXCEPT !.phase = "released"]
  /\ waiters' = waiters \cup {t}
  /\ UNCHANGED <<durable, status, mode, exits, stopping, stops, deleting, resume,
                 seen, budget>>

\* A leader that already died is reaped like any other.
Release(t) ==
  /\ At(t, "identified")
  /\ world' = [world EXCEPT ![t] = IF @ = "gated" THEN "live" ELSE @]
  /\ launching' = [launching EXCEPT !.phase = "released"]
  /\ waiters' = waiters \cup {t}
  /\ UNCHANGED <<durable, status, mode, exits, stopping, stops, deleting, resume,
                 seen, budget>>

\* The last write of a launch may fail: the caller sees an error.
Launched(t) ==
  /\ At(t, "released") /\ launching' = None
  /\ \/ row' = [row EXCEPT ![t].state = "running"] /\ UNCHANGED budget
     \/ UNCHANGED row /\ Spend("fault")
  /\ UNCHANGED <<receipts, session, procs, mode, waiters, exits, stopping, stops,
                 deleting, resume, seen>>

\* The tool call is dropped where it waits: the lock and the gate go with it.
CancelStart(t) ==
  /\ At(t, "gate") \/ At(t, "identified")
  /\ launching' = None
  /\ world' = [world EXCEPT ![t] = IF @ = "gated" THEN "shut" ELSE @]
  /\ Spend("cancel")
  /\ UNCHANGED <<durable, status, mode, waiters, exits, stopping, stops, deleting,
                 resume, seen>>

-----------------------------------------------------------------------------
(* Processes end by themselves or by a signal, whether or not a runtime is *)
(* there.                                                                  *)

\* A gated leader ends without running the command.
LeaderEnds(t, s) ==
  /\ world[t] \in {"gated", "shut", "live"} /\ s \in {"zero", "other"}
  /\ world[t] # "live" => s = "other"
  /\ \E w \in IF world[t] = "live" THEN {"orphaned", "gone"} ELSE {"gone"} :
       world' = [world EXCEPT ![t] = w]
  /\ status' = [status EXCEPT ![t] = s]
  /\ UNCHANGED <<durable, mode, volatile, budget>>

SurvivorsEnd(t) ==
  /\ world[t] = "orphaned" /\ world' = [world EXCEPT ![t] = "gone"]
  /\ UNCHANGED <<durable, status, mode, volatile, budget>>

\* The waiter of a child keeps its status while the row exists.
Reap(t) ==
  /\ mode # "down" /\ t \in waiters /\ world[t] \in {"orphaned", "gone"}
  /\ waiters' = waiters \ {t}
  /\ exits' = [exits EXCEPT ![t] = IF row[t] = None THEN @ ELSE status[t]]
  /\ UNCHANGED <<durable, procs, mode, launching, stopping, stops, deleting, resume,
                 seen, budget>>

-----------------------------------------------------------------------------
(* Stopping.                                                               *)

Stoppable(t) == t \in Unclaimed /\ row[t].state \notin Ended

\* The stop's first half, under the lock: the intent is durable before any
\* signal.
BeginStop(t, why, call) ==
  LET r == [row[t] EXCEPT !.state = "stopping", !.reason = why] IN
  /\ Serving /\ Unlocked /\ Stoppable(t)
  /\ row' = [row EXCEPT ![t] = r]
  /\ stopping' = stopping \cup {t}
  /\ stops' = [stops EXCEPT ![t] = [rec |-> r, phase |-> "term", call |-> call]]

\* By a tool call of the owner, or by the public API.
Stop(t, call) ==
  /\ call => OwnerOf[t] \in session
  /\ BeginStop(t, "requested", call)
  /\ UNCHANGED <<receipts, session, procs, mode, launching, waiters, exits, deleting,
                 resume, seen, budget>>

\* A stop that a restart resumes, unless the task ended or is being stopped.
ResumeStop(t) ==
  /\ resume[t] # None /\ resume' = [resume EXCEPT ![t] = None]
  /\ \/ BeginStop(t, resume[t], FALSE)
     \/ Serving /\ Unlocked /\ ~Stoppable(t) /\ UNCHANGED <<row, stopping, stops>>
  /\ UNCHANGED <<receipts, session, procs, mode, launching, waiters, exits, deleting,
                 seen, budget>>

\* The record a stop works on reaches its verdict.
Verdict(t, r) == stops' = [stops EXCEPT ![t].rec = r, ![t].phase = "over"]

\* Mutant: nothing escalates after the grace period.
SignallingOnce(t) == stops[t] # None /\ stops[t].phase = "term"

Signalling(t) == stops[t] # None /\ stops[t].phase # "over"

\* SIGTERM and its grace, then SIGKILL and its settling time.  A tree that is
\* gone ends the stop; one that outlives both, cannot be listed or was never
\* identified fails it.
Terminate(t) ==
  LET r == stops[t].rec
      failed == [r EXCEPT !.state = "cleanup_failed"] IN
  /\ Signalling(t)
  /\ \/ r.id = "none" /\ Verdict(t, failed) /\ UNCHANGED budget
     \/ r.id # "none" /\ Verdict(t, failed) /\ Spend("fault")
     \/ /\ r.id # "none" /\ ~Present(t)
        /\ Verdict(t, [r EXCEPT !.state = "stopped", !.exit = exits[t]])
        /\ UNCHANGED budget
     \/ /\ r.id # "none" /\ Present(t) /\ UNCHANGED budget
        /\ IF stops[t].phase = "term"
           THEN stops' = [stops EXCEPT ![t].phase = "kill"]
           ELSE Verdict(t, failed)
  /\ UNCHANGED <<durable, procs, mode, launching, waiters, exits, stopping, deleting,
                 resume, seen>>

\* The deletion mark of the row as it is now.
Refreshed(t, r) ==
  IF row[t] = None THEN r ELSE [r EXCEPT !.marked = row[t].marked]

\* The second half, under the lock again.  A row that is gone is not written.
EndStop(t) ==
  LET r == Refreshed(t, stops[t].rec) IN
  /\ Unlocked /\ stops[t] # None /\ stops[t].phase = "over"
  /\ IF r.state \in Ended THEN Remove(t)
     ELSE Save(t, IF row[t] = None THEN None ELSE r)
  /\ stops' = [stops EXCEPT ![t] = None] /\ stopping' = stopping \ {t}
  /\ UNCHANGED <<session, procs, mode, launching, waiters, deleting, resume, seen, budget>>

\* The tool call that asked for the stop is dropped: nobody continues it.
CancelStop(t) ==
  /\ stops[t] # None /\ stops[t].call
  /\ stops' = [stops EXCEPT ![t] = None]
  /\ Spend("cancel")
  /\ UNCHANGED <<durable, procs, mode, launching, waiters, exits, stopping, deleting,
                 resume, seen>>

-----------------------------------------------------------------------------
(* Acknowledgement of a failure that is confirmed gone.                    *)

ConfirmedGone(t, r) == Identified(r) /\ ~Present(t)

Dismiss(t) ==
  /\ Serving /\ Unlocked /\ t \in Unclaimed
  /\ row[t].state \in Ended /\ ConfirmedGone(t, row[t])
  /\ Remove(t)
  /\ UNCHANGED <<session, procs, mode, launching, waiters, stopping, stops, deleting,
                 resume, seen, budget>>

-----------------------------------------------------------------------------
(* Deletion of the owner: a fence and marks before the durable deletion,   *)
(* stops after it.                                                         *)

Marked(o, mark) ==
  [t \in Tasks |-> IF t \in Of(o) \cap Rows THEN [row[t] EXCEPT !.marked = mark] ELSE row[t]]

BeginOwnerDeletion(o) ==
  /\ Serving /\ Unlocked /\ o \in session /\ deletion[o] = "none"
  /\ deletion' = [deletion EXCEPT ![o] = "begun"]
  /\ fenced' = fenced \cup {o} /\ row' = Marked(o, TRUE)
  /\ UNCHANGED <<receipts, session, procs, mode, launching, waiters, exits, stopping,
                 stops, cleanup, resume, seen, budget>>

\* The session repository's transaction.
CommitDeletion(o) ==
  /\ deletion[o] = "begun"
  /\ deletion' = [deletion EXCEPT ![o] = "committed"]
  /\ session' = session \ {o}
  /\ UNCHANGED <<row, receipts, procs, mode, launching, waiters, exits, stopping, stops,
                 fenced, cleanup, resume, seen, budget>>

DeletionFails(o) ==
  /\ Unlocked /\ deletion[o] = "begun"
  /\ deletion' = [deletion EXCEPT ![o] = "none"]
  /\ fenced' = fenced \ {o} /\ row' = Marked(o, FALSE)
  /\ UNCHANGED <<receipts, session, procs, mode, launching, waiters, exits, stopping,
                 stops, cleanup, resume, seen, budget>>

\* The cleanup lists the owner's rows without the lock ...
ListForCleanup(o) ==
  /\ deletion[o] = "committed"
  /\ deletion' = [deletion EXCEPT ![o] = "done"]
  /\ cleanup' = [t \in Tasks |-> IF t \in Of(o) THEN row[t] ELSE cleanup[t]]
  /\ UNCHANGED <<durable, procs, mode, launching, waiters, exits, stopping, stops,
                 fenced, resume, seen, budget>>

\* ... and stops each, or removes one it saw ended; the listing may fail.
CleanUp(t) ==
  LET r == cleanup[t] IN
  /\ r # None /\ Unlocked /\ cleanup' = [cleanup EXCEPT ![t] = None]
  /\ \/ /\ r.state \in Ended /\ UNCHANGED <<stopping, stops>>
        /\ \/ ConfirmedGone(t, r) /\ Remove(t) /\ UNCHANGED budget
           \/ ~ConfirmedGone(t, r) /\ UNCHANGED <<row, receipts, exits, budget>>
           \/ UNCHANGED <<row, receipts, exits>> /\ Spend("fault")
     \/ /\ r.state \notin Ended /\ UNCHANGED <<receipts, exits, budget>>
        /\ \/ BeginStop(t, "owner_deleted", FALSE)
           \/ ~Stoppable(t) /\ UNCHANGED <<row, stopping, stops>>
  /\ UNCHANGED <<session, procs, mode, launching, waiters, fenced, deletion, resume, seen>>

-----------------------------------------------------------------------------
(* The monitor looks without the lock and applies what it saw under it.    *)

Watched(t) ==
  /\ t \in Rows
  /\ \/ row[t].state \in {"running", "cleanup_failed"}
     \/ row[t].state = "unknown" /\ row[t].id # "none"

\* A row whose processes cannot be told apart is passed over.
Sight(t) ==
  CASE ~Present(t) -> [kind |-> "empty", exit |-> exits[t]]
    [] Present(t) /\ row[t].state = "unknown" -> [kind |-> "alive", exit |-> "none"]
    [] OTHER -> None

Observe ==
  /\ mode = "reconciled" /\ seen = Nothing
  /\ \/ /\ seen' = [t \in Tasks |-> IF Watched(t) /\ row[t].id = "full" THEN Sight(t) ELSE None]
        /\ UNCHANGED budget
     \/ /\ seen' = [t \in Tasks |-> IF Watched(t) THEN [kind |-> "unlisted", exit |-> "none"]
                                    ELSE None]
        /\ Spend("fault")
  /\ seen' # Nothing
  /\ UNCHANGED <<durable, procs, mode, launching, waiters, exits, stopping, stops,
                 deleting, resume>>

\* The states an observation of each kind may still change.
Expected(kind) ==
  CASE kind = "unlisted" -> {"running"}
    [] kind = "alive"    -> {"unknown"}
    [] kind = "empty"    -> {"running", "unknown", "cleanup_failed"}

\* The row has not moved on since it was seen, and no stop has claimed it.
StillAsSeen(t) == t \in Unclaimed /\ row[t].state \in Expected(seen[t].kind)

\* A natural exit.  The status of a child is its waiter's to tell; one that
\* succeeded, or whose stop had failed, needs no acknowledgement.
SettleExit(t, e) ==
  LET r == [row[t] EXCEPT !.state = "exited", !.exit = e] IN
  IF row[t].supervision = "child" /\ e = "none" THEN UNCHANGED <<row, receipts, exits>>
  ELSE IF e = "zero" \/ r.reason # "none" THEN Remove(t)
  ELSE Save(t, r)

Apply(t) ==
  /\ seen[t] # None /\ Unlocked /\ seen' = [seen EXCEPT ![t] = None]
  /\ \/ StillAsSeen(t) /\ seen[t].kind = "unlisted" /\ Save(t, [row[t] EXCEPT !.state = "unknown"])
     \/ StillAsSeen(t) /\ seen[t].kind = "alive" /\ Save(t, [row[t] EXCEPT !.state = "running"])
     \/ /\ StillAsSeen(t) /\ seen[t].kind = "empty"
        /\ \E e \in {seen[t].exit, exits[t]} : SettleExit(t, e)
     \/ ~StillAsSeen(t) /\ UNCHANGED <<row, receipts, exits>>
  /\ UNCHANGED <<session, procs, mode, launching, waiters, stopping, stops, deleting,
                 resume, budget>>

-----------------------------------------------------------------------------
(* Crash, restart and reconciliation.                                      *)

\* The end of every gate is the runtime's: an unreleased leader gives up.
Crash ==
  /\ mode # "down" /\ mode' = "down" /\ Spend("crash")
  /\ world' = [t \in Tasks |-> IF world[t] = "gated" THEN "shut" ELSE world[t]]
  /\ launching' = None /\ waiters' = {} /\ exits' = [t \in Tasks |-> "none"]
  /\ stopping' = {} /\ stops' = Nothing /\ fenced' = {}
  /\ deletion' = [o \in Owners |-> "none"]
  /\ cleanup' = Nothing /\ resume' = Nothing /\ seen' = Nothing
  /\ UNCHANGED <<durable, status>>

Restart ==
  /\ mode = "down" /\ mode' = "starting"
  /\ UNCHANGED <<durable, procs, volatile, budget>>

\* Processes cannot be listed: nothing is taken for ended, and the monitor
\* tries again while the runtime already serves.
ReconcileUnlisted ==
  /\ mode \in {"starting", "unreconciled"} /\ Unlocked /\ Rows # {}
  /\ mode' = "unreconciled" /\ Spend("fault")
  /\ row' = [t \in Tasks |-> IF t \in Rows /\ row[t].state = "running"
                             THEN [row[t] EXCEPT !.state = "unknown"] ELSE row[t]]
  /\ UNCHANGED <<receipts, session, procs, volatile>>

\* Mutants: the state is set to what belongs into another column; supervision
\* is left as it was.
AdoptedState(r) == [r EXCEPT !.state = "adopted", !.supervision = "adopted"]
AdoptedAsChild(r) == [r EXCEPT !.state = "running"]

Adopted(r) == [r EXCEPT !.state = "running", !.supervision = "adopted"]

LaunchReconciled(t, r) ==
  CASE r.id = "none" -> [r EXCEPT !.state = "failed_to_start"]
    [] r.id # "none" /\ ~Present(t) -> [r EXCEPT !.state = "exited"]
    [] OTHER -> Adopted(r)

RunReconciled(t, r) ==
  CASE ~Identified(r) -> [r EXCEPT !.state = "unknown"]
    [] Identified(r) /\ ~Present(t) ->
         [r EXCEPT !.state = IF r.state = "cleanup_failed" /\ r.reason # "none"
                             THEN "stopped" ELSE "exited"]
    [] OTHER -> IF r.state = "cleanup_failed" THEN r ELSE Adopted(r)

\* A row as the process table has it; "doubted" ones could not be listed.
Reconciled(t, doubted) ==
  LET r == row[t] IN
  CASE r.state = "launching" -> LaunchReconciled(t, r)
    [] r.state \in {"running", "cleanup_failed", "unknown"} -> RunReconciled(t, r)
    [] r.state = "stopping" -> Adopted(r)
    [] r.state \in Ended ->
         IF ConfirmedGone(t, r) /\ t \notin doubted THEN r ELSE [r EXCEPT !.state = "unknown"]

\* An ended row that nobody has to acknowledge.
Acknowledged(r) ==
  r.state \in Ended /\ (r.reason # "none" \/ r.exit = "zero" \/ r.marked)

\* Mutant: only interrupted stops are resumed.
StopInterrupted(t, r) == IF row[t].state = "stopping" THEN row[t].reason ELSE None

\* The stop a reconciled row still needs: its own, or its deleted owner's.
StopOwed(t, r) ==
  CASE row[t].state = "stopping" -> row[t].reason
    [] row[t].state # "stopping" /\ r.state = "running" /\ r.marked -> "owner_deleted"
    [] OTHER -> None

Reconcile ==
  /\ mode \in {"starting", "unreconciled"} /\ Unlocked /\ mode' = "reconciled"
  /\ \E doubted \in SUBSET {t \in Rows : row[t].state \in Ended} :
       LET now  == [t \in Unclaimed |-> Reconciled(t, doubted)]
           over == {t \in Unclaimed : Acknowledged(now[t])} IN
       /\ IF doubted = {} THEN UNCHANGED budget ELSE Spend("fault")
       /\ row' = [t \in Tasks |-> IF t \in over THEN None
                                  ELSE IF t \in Unclaimed THEN now[t] ELSE row[t]]
       /\ receipts' = receipts \cup over
       /\ exits' = [t \in Tasks |-> IF t \in over THEN "none" ELSE exits[t]]
       /\ resume' = [t \in Tasks |-> IF t \in Unclaimed \ over THEN StopOwed(t, now[t])
                                     ELSE resume[t]]
  /\ UNCHANGED <<session, procs, launching, waiters, stopping, stops, deleting, seen>>

-----------------------------------------------------------------------------
Launch(t) ==
  \/ SpawnFails(t) \/ Spawn(t) \/ Identify(t) \/ IdentifyFails(t) \/ Release(t) \/ Launched(t)

Next ==
  \/ \E t \in Tasks :
       \/ Start(t) \/ Launch(t) \/ CancelStart(t)
       \/ (\E s \in Exits : LeaderEnds(t, s)) \/ SurvivorsEnd(t) \/ Reap(t)
       \/ (\E call \in BOOLEAN : Stop(t, call)) \/ ResumeStop(t)
       \/ Terminate(t) \/ EndStop(t) \/ CancelStop(t)
       \/ Dismiss(t) \/ CleanUp(t) \/ Apply(t)
  \/ \E o \in Owners :
       \/ BeginOwnerDeletion(o) \/ CommitDeletion(o) \/ DeletionFails(o) \/ ListForCleanup(o)
  \/ Observe \/ Crash \/ Restart \/ Reconcile \/ ReconcileUnlisted

Spec == Init /\ [][Next]_vars

\* The runtime's tasks are scheduled, the monitor's timer fires, and a runtime
\* that went down is started again.  Nobody has to start, stop or dismiss
\* anything, and no process has to end.
FairSpec ==
  /\ Spec
  /\ \A t \in Tasks :
       /\ WF_vars(Launch(t)) /\ WF_vars(Reap(t)) /\ WF_vars(ResumeStop(t))
       /\ WF_vars(Terminate(t)) /\ WF_vars(EndStop(t))
       /\ WF_vars(CleanUp(t)) /\ WF_vars(Apply(t))
  /\ \A o \in Owners : WF_vars(ListForCleanup(o))
  /\ WF_vars(Observe) /\ WF_vars(Restart) /\ WF_vars(Reconcile)

-----------------------------------------------------------------------------
(* Properties.                                                             *)

\* Nothing is reported ended, and no record is given up, while the command or
\* something it started still runs (TaskState::ended; "removed after the whole
\* managed tree is confirmed gone").
EndedIsGone ==
  \A t \in Tasks :
    t \in receipts \/ (t \in Rows /\ row[t].state \in Ended) => ~Runs(t)

\* Wherever a launch is cut off, a command that runs has a row that names its
\* process, so a later runtime finds it ("its identity is durable before the
\* command may run").
RunningIsFindable ==
  \A t \in Tasks : Runs(t) => t \in Rows /\ row[t].id = "full"

\* While an owner's deletion is under way, and for ever once it is durable, all
\* rows of that owner carry its mark, whatever stops write beside it: a restart
\* finds what is left to stop by this mark alone (mark_owner_deleted).
MarksFollowDeletion ==
  \A o \in Owners : deletion[o] # "none" \/ o \notin session
                      => \A t \in Of(o) \cap Rows : row[t].marked

\* A row claimed by a stop keeps saying so, whatever the monitor, a dismissal or
\* a late reconciliation had in mind for it, until the stop itself or a crash
\* settles it; a cleanup that had listed it ended may remove it, when nothing of
\* the task is left (Coordination::stopping).
StopOwnsItsRow ==
  [][\A t \in stopping \cap stopping' :
       row[t] # None => IF row'[t] = None THEN ~Present(t) ELSE row'[t].state = "stopping"]_vars

\* A stop once begun reaches a verdict: "SIGTERM, waits the grace period, then
\* SIGKILL ...; surviving or unverified trees remain cleanup_failed", unless the
\* call that carried it was dropped and nothing settles its claim before a restart.
Abandoned(t) == t \in stopping /\ stops[t] = None
StopSettles ==
  \A t \in Tasks : t \in stopping ~> t \notin stopping \/ Abandoned(t)

\* A running task whose whole tree has gone is noticed, across restarts and
\* listings that fail ("Settles running tasks whose process tree has gone").
GoneIsNoticed ==
  \A t \in Tasks :
    (t \in Rows /\ row[t].state = "running" /\ ~Present(t))
      ~> (t \in Rows => row[t].state # "running")

\* A durable deletion leaves nothing running unattended in the end, whatever
\* crashes between its steps (stop_owner_tasks, reconcile).
DeletionSettles ==
  \A o \in Owners : \A t \in Of(o) :
    o \notin session ~>
      \/ t \in Rows => row[t].state \in Ended \cup {"cleanup_failed", "unknown"}
      \/ Abandoned(t)

=============================================================================
