------------------------------ MODULE Subagents ------------------------------
(***************************************************************************)
(* The delegated runs of one session (src/state.rs, src/server/runtime.rs, *)
(* src/session.rs): an agent or an owner delegates a task, the run starts a *)
(* provider of its own, falls back to the next model target when that one  *)
(* is lost, ends with one verdict, and may be continued by a successor.    *)
(*                                                                         *)
(* The reducer shows runs and executes the live ones; the registry holds a *)
(* provider per live run; events travel through one channel and name only  *)
(* their run; a native delegation leaves a caller that waits in the actor. *)
(* Each command and each event is one step of the actor.  Transcripts,     *)
(* images, usage, policies and model options are left out; of a transcript *)
(* only whether it holds evidence of completed work is kept.               *)
(***************************************************************************)
EXTENDS Naturals, FiniteSets, SequencesExt

CONSTANTS
  Runs,            \* identities of runs, each given out once
  Agents,          \* archetypes
  AgentOf,         \* the archetype of a run
  MaxConcurrent,   \* how many runs of an archetype may be live
  Delegators,      \* archetypes with can_delegate
  MaxDepth,        \* max_delegation_depth of an archetype
  Targets,         \* how many model targets an archetype has
  Limit,           \* MAX_CONCURRENT_SUBAGENTS
  MaxContinuation, \* MAX_CONTINUATION_DEPTH
  MaxEvents,       \* bound on the undelivered events of a run
  MaxCrashes,      \* bound on crashes
  MaxFaults,       \* bound on writes that fail, failed deletions, lost credentials
  None             \* no run, no record

ASSUME SubagentAssumption ==
  /\ IsFiniteSet(Runs) /\ AgentOf \in [Runs -> Agents] /\ Delegators \subseteq Agents
  /\ {MaxConcurrent, MaxDepth} \subseteq [Agents -> Nat]
  /\ Targets \in [Agents -> Nat \ {0}]
  /\ {Limit, MaxContinuation, MaxEvents, MaxCrashes, MaxFaults} \subseteq Nat
  /\ None \notin Runs

VARIABLES
  rows,      \* orchestration_runs
  mode,      \* the engine: down, resuming its session, or open
  shown,     \* subagents: the runs the session displays
  exec,      \* subagent_executions: target and response of the live ones
  proc,      \* the registry's provider of a run: target and stage
  inbox,     \* events of a run on the way to the actor
  waiting,   \* pending_native_delegations: which attempt of the parent asked
  \* history
  verdict,   \* how a run first ended
  told,      \* what its caller was told
  early,     \* runs delegated while the session was resuming
  unwritten, \* runs with a change that did not reach the disk
  dropped,   \* runs that ended inside the execution of their own effects
  budget     \* crashes and faults left

history == <<verdict, told, early, unwritten, dropped>>
vars    == <<rows, mode, shown, exec, proc, inbox, waiting, history, budget>>

Active   == {"starting", "working"}
Terminal == {"completed", "partial", "failed", "interrupted"}
Success  == {"completed", "partial"}

Run == [status : Active \cup Terminal, parent : Runs \cup {None}, depth : Nat,
        source : Runs \cup {None}, heir : Runs \cup {None}, level : Nat,
        evidence : BOOLEAN]
Execution == [target : Nat, response : BOOLEAN]
Provider  == [target : Nat,
              stage : {"booting", "ready", "asked", "session", "turn", "over", "dead"}]
Caller == [parent : Runs \cup {None}, target : Nat]
\* An event names its run, not the target or the provider it came from.
Event == {"ready", "created", "item", "answer", "done", "cut", "broken", "refused", "lost"}

ASSUME NoneAssumption ==
  None \notin Run \cup Execution \cup Provider \cup Caller \cup Terminal \cup {"result", "error"}

\* Every run has one record, one execution, one provider and one caller at most.
TypeOK ==
  /\ rows \in [Runs -> Run \cup {None}] /\ shown \in [Runs -> Run \cup {None}]
  /\ mode \in {"down", "resuming", "open"}
  /\ exec \in [Runs -> Execution \cup {None}]
  /\ \A r \in Runs : exec[r] # None => exec[r].target \in 1..Targets[AgentOf[r]]
  /\ proc \in [Runs -> Provider \cup {None}]
  /\ inbox \in [Runs -> Seq(Event)] /\ waiting \in [Runs -> Caller \cup {None}]
  /\ verdict \in [Runs -> Terminal \cup {None}]
  /\ told \in [Runs -> {"result", "error", None}]
  /\ early \cup unwritten \cup dropped \subseteq Runs
  /\ budget \in [{"crash", "fault"} -> Nat]

NoneOf == [r \in Runs |-> None]

Init ==
  /\ rows = NoneOf /\ mode = "open" /\ shown = NoneOf /\ exec = NoneOf /\ proc = NoneOf
  /\ inbox = [r \in Runs |-> <<>>] /\ waiting = NoneOf
  /\ verdict = NoneOf /\ told = NoneOf /\ early = {} /\ unwritten = {} /\ dropped = {}
  /\ budget = [crash |-> MaxCrashes, fault |-> MaxFaults]

Spend(kind) == /\ budget[kind] > 0
               /\ budget' = [budget EXCEPT ![kind] = @ - 1]

Live == {r \in Runs : exec[r] # None}
\* Mutant: one target too many.
BeyondLast(r) == Targets[AgentOf[r]] + 1
LastTarget(r) == Targets[AgentOf[r]]
Unused(r) == r \notin early \cup unwritten /\ rows[r] = None /\ shown[r] = None

-----------------------------------------------------------------------------
(* Writing records.                                                        *)

\* The displayed records of some of the changed runs reach the disk.
Written(saved, changed) ==
  /\ rows' = [r \in Runs |-> IF r \in saved THEN shown'[r] ELSE rows[r]]
  /\ unwritten' = unwritten \cup (changed \ saved)

\* Changed runs are written, those of one group in one transaction.  Without the
\* session's identity nothing is written; a write that fails is reported in the
\* status line only.
PersistGroups(groups) ==
  \/ mode = "open" /\ Written(UNION groups, UNION groups) /\ UNCHANGED budget
  \/ /\ mode = "open" /\ Spend("fault")
     /\ \E kept \in SUBSET groups : kept # groups /\ Written(UNION kept, UNION groups)
  \/ mode # "open" /\ Written({}, UNION groups) /\ UNCHANGED budget
Persist(changed) == PersistGroups({{r} : r \in changed})
\* Mutant: source and successor are written one after the other.
PersistSeparately(changed) == Persist(changed)
PersistTogether(changed) == PersistGroups({changed})

\* Nothing asks for a write.
NotPersisted(changed) ==
  rows' = rows /\ unwritten' = unwritten \cup changed /\ UNCHANGED budget

-----------------------------------------------------------------------------
(* How a run ends.                                                         *)

\* The verdict of a run that ends with its turn ("end"), by an interruption
\* ("cut") or by a failure ("fail").  A response that only proposes to continue
\* is no answer.
VerdictOf(run, response, why) ==
  IF why = "cut" THEN "interrupted"
  ELSE IF why = "end" /\ response THEN "completed"
  ELSE IF run.evidence THEN "partial" ELSE "failed"

\* Runs leave the executions with their verdicts.
EndRuns(ended, why) ==
  LET v == [r \in ended |-> VerdictOf(shown[r], exec[r].response, why)] IN
  /\ shown' = [r \in Runs |-> IF r \in ended THEN [shown[r] EXCEPT !.status = v[r]]
                              ELSE shown[r]]
  /\ exec' = [r \in Runs |-> IF r \in ended THEN None ELSE exec[r]]
  /\ verdict' = [r \in Runs |-> IF r \in ended THEN v[r] ELSE verdict[r]]

\* Their providers are stopped.
StopProviders(ended) == proc' = [r \in Runs |-> IF r \in ended THEN None ELSE proc[r]]

\* Mutants: a run that fails answers nobody; the status before the end is told.
AnswerSuccess(ended) ==
  LET good == {r \in ended : shown'[r].status \in Success} IN
  /\ told' = [r \in Runs |-> IF r \in good /\ waiting[r] # None THEN "result" ELSE told[r]]
  /\ waiting' = [r \in Runs |-> IF r \in good THEN None ELSE waiting[r]]
AnswerEarly(ended) ==
  /\ told' = [r \in Runs |-> IF r \notin ended \/ waiting[r] = None THEN told[r]
                ELSE IF shown[r].status \in Success THEN "result" ELSE "error"]
  /\ waiting' = [r \in Runs |-> IF r \in ended THEN None ELSE waiting[r]]

\* Their callers are answered: with the result of a run that ended well.
Answer(ended) ==
  /\ told' = [r \in Runs |-> IF r \notin ended \/ waiting[r] = None THEN told[r]
                ELSE IF shown'[r].status \in Success THEN "result" ELSE "error"]
  /\ waiting' = [r \in Runs |-> IF r \in ended THEN None ELSE waiting[r]]

\* Mutant: the providers of runs that ended keep running.
FinishKeepsProvider(ended, why) ==
  EndRuns(ended, why) /\ Answer(ended) /\ UNCHANGED <<proc, dropped>>

\* finish_subagent, as the actor carries it out after a command or an event.
Finish(ended, why) ==
  EndRuns(ended, why) /\ StopProviders(ended) /\ Answer(ended) /\ UNCHANGED dropped

\* finish_subagent inside the execution of effects: its CompleteAgentRequest is
\* executed as an effect, and nobody answers.
FinishUnanswered(r, display) ==
  LET v == VerdictOf(display[r], FALSE, "fail") IN
  /\ shown' = [display EXCEPT ![r].status = v]
  /\ exec' = [exec EXCEPT ![r] = None] /\ proc' = [proc EXCEPT ![r] = None]
  /\ verdict' = [verdict EXCEPT ![r] = v] /\ dropped' = dropped \cup {r}

-----------------------------------------------------------------------------
(* Starting a provider.                                                    *)

\* A displayed run is to go on with target k or a later one: targets whose
\* provider cannot be spawned are passed over, and the run fails when none is left.
Launch(r, display, k) ==
  \E n \in k..(LastTarget(r) + 1) :
    IF n <= LastTarget(r)
    THEN /\ shown' = [display EXCEPT ![r].status = "starting"]
         /\ exec' = [exec EXCEPT ![r] = [target |-> n, response |-> FALSE]]
         /\ proc' = [proc EXCEPT ![r] = [target |-> n, stage |-> "booting"]]
         /\ UNCHANGED <<verdict, dropped>>
    ELSE FinishUnanswered(r, display)

\* retry_subagent_or_finish: the next target, or the end of the run.
Retry(r) ==
  IF exec[r].target < LastTarget(r)
  THEN Launch(r, shown, exec[r].target + 1) /\ UNCHANGED <<told, waiting>>
  ELSE Finish({r}, "fail")

\* A command reaches the provider at its stage, or finds its channel closed: the
\* failure is then handled inside the execution of the effects.
Reachable(r) == proc[r] # None /\ proc[r].stage # "dead"
Command(r, display, from, to) ==
  /\ UNCHANGED <<told, waiting>>
  /\ \/ /\ Reachable(r) /\ shown' = display
        /\ proc' = IF proc[r].stage = from THEN [proc EXCEPT ![r].stage = to] ELSE proc
        /\ UNCHANGED <<exec, verdict, dropped>>
     \/ ~Reachable(r) /\ Launch(r, display, exec[r].target + 1)

-----------------------------------------------------------------------------
(* Delegating and continuing.                                              *)

Occupied == {r \in Runs : shown[r] # None /\ shown[r].status \in Active}

\* validate_subagent_concurrency
Room(a) ==
  /\ Cardinality(Occupied) < Limit
  /\ Cardinality({r \in Occupied : AgentOf[r] = a}) < MaxConcurrent[a]

\* The parent is live, may delegate and has depth left (delegation_context).
MayDelegate(p) ==
  p # None => exec[p] # None /\ AgentOf[p] \in Delegators /\ shown[p].depth > 0
DepthUnder(p, a) ==
  IF p = None THEN MaxDepth[a]
  ELSE IF shown[p].depth - 1 < MaxDepth[a] THEN shown[p].depth - 1 ELSE MaxDepth[a]

NewRun(p, depth, source, level) ==
  [status |-> "starting", parent |-> p, depth |-> depth, source |-> source,
   heir |-> None, level |-> level, evidence |-> FALSE]

\* A new run of an owner, of the session's turn or of a run's turn.  The caller
\* of a native delegation is registered before the effects are executed.
Delegate(r, p, native) ==
  /\ mode # "down" /\ Unused(r) /\ Room(AgentOf[r]) /\ MayDelegate(p)
  /\ native => IF p = None THEN mode = "open" ELSE proc[p] # None /\ proc[p].stage = "turn"
  /\ Launch(r, [shown EXCEPT ![r] = NewRun(p, DepthUnder(p, AgentOf[r]), None, 0)], 1)
  /\ Persist({r})
  /\ waiting' = IF native
       THEN [waiting EXCEPT ![r] = [parent |-> p,
                                    target |-> IF p = None THEN 0 ELSE proc[p].target]]
       ELSE waiting
  /\ early' = IF mode = "resuming" THEN early \cup {r} ELSE early
  /\ UNCHANGED <<mode, inbox, told>>

Continuable(s) ==
  /\ shown[s] # None /\ shown[s].status \in {"partial", "failed", "interrupted"}
  /\ shown[s].heir = None /\ shown[s].level < MaxContinuation /\ shown[s].evidence

\* A successor inherits what a run that ended early retained; source and
\* successor are written together.
Continue(s, r) ==
  /\ mode = "open" /\ Unused(r) /\ AgentOf[r] = AgentOf[s]
  /\ Continuable(s) /\ Room(AgentOf[r])
  /\ Launch(r, [shown EXCEPT ![s].heir = r,
                  ![r] = NewRun(shown[s].parent, shown[s].depth, s, shown[s].level + 1)], 1)
  /\ PersistTogether({s, r})
  /\ UNCHANGED <<mode, inbox, waiting, told, early>>

-----------------------------------------------------------------------------
(* The providers.                                                          *)

\* A provider reports something and moves on.
Emit(r, stages, kind, to) ==
  /\ proc[r] # None /\ proc[r].stage \in stages /\ Len(inbox[r]) < MaxEvents
  /\ proc' = [proc EXCEPT ![r].stage = to]
  /\ inbox' = [inbox EXCEPT ![r] = Append(@, kind)]
  /\ UNCHANGED <<rows, mode, shown, exec, waiting, history, budget>>

Provide(r) ==
  \/ Emit(r, {"booting"}, "ready", "ready")
  \/ Emit(r, {"asked"}, "created", "session")
  \/ Emit(r, {"asked"}, "refused", "ready")
  \/ \E kind \in {"item", "answer"} : Emit(r, {"turn"}, kind, "turn")
  \/ \E kind \in {"done", "cut", "broken"} : Emit(r, {"turn"}, kind, "over")
  \/ Emit(r, {"booting", "ready", "asked", "session", "turn", "over"}, "lost", "dead")

-----------------------------------------------------------------------------
(* Events.  An event finds its run by identity alone.                      *)

\* An archetype whose policy the provider cannot enforce goes on elsewhere; the
\* event is no persistence boundary.
OnReady(r) ==
  \/ Retry(r) /\ NotPersisted(IF exec'[r] = None THEN {r} ELSE {})
  \/ /\ Command(r, [shown EXCEPT ![r].status = "starting"], "ready", "asked")
     /\ IF Reachable(r) THEN NotPersisted({}) ELSE Persist({r})

\* A model that may not be used fails the run.
OnCreated(r) ==
  /\ \/ Finish({r}, "fail")
     \/ Command(r, [shown EXCEPT ![r].status = "working"], "session", "turn")
  /\ Persist({r})

OnItem(r) ==
  /\ shown' = [shown EXCEPT ![r].evidence = TRUE]
  /\ Persist({r}) /\ UNCHANGED <<exec, proc, waiting, verdict, told, dropped>>

OnAnswer(r) ==
  /\ exec' = [exec EXCEPT ![r].response = TRUE]
  /\ NotPersisted({}) /\ UNCHANGED <<shown, proc, waiting, verdict, told, dropped>>

OnEnd(r, why) == Finish({r}, why) /\ Persist({r})
OnLoss(r)     == Retry(r) /\ Persist({r})

\* An event of a run without an execution is ignored.
Reduces(r) == exec[r] # None

Handle(r) ==
  /\ mode # "down" /\ inbox[r] # <<>>
  /\ inbox' = [inbox EXCEPT ![r] = Tail(@)]
  /\ UNCHANGED <<mode, early>>
  /\ LET kind == Head(inbox[r]) IN
     IF ~Reduces(r)
     THEN UNCHANGED <<rows, shown, exec, proc, waiting, verdict, told, unwritten, dropped, budget>>
     ELSE \/ kind = "ready"   /\ OnReady(r)
          \/ kind = "created" /\ OnCreated(r)
          \/ kind = "item"    /\ OnItem(r)
          \/ kind = "answer"  /\ OnAnswer(r)
          \/ kind = "done"    /\ OnEnd(r, "end")
          \/ kind = "cut"     /\ OnEnd(r, "cut")
          \/ kind = "broken"  /\ OnEnd(r, "fail")
          \/ kind \in {"refused", "lost"} /\ OnLoss(r)

-----------------------------------------------------------------------------
(* Interruptions.                                                          *)

\* An owner cancels one run, stops the session's work, or the session's own
\* provider is lost: the live runs concerned end and are written.
Interrupt(ended) ==
  /\ mode # "down" /\ ended # {} /\ ended \subseteq Live
  /\ ended = Live \/ \E r \in Runs : ended = {r}
  /\ Finish(ended, "cut") /\ Persist(ended)
  /\ UNCHANGED <<mode, inbox, early>>

\* The caller is gone: its provider has been stopped or replaced, or its turn
\* is over.
CallerGone(r) ==
  /\ waiting[r] # None /\ waiting[r].parent # None
  /\ LET p == proc[waiting[r].parent] IN
     p = None \/ p.target # waiting[r].target \/ p.stage # "turn"

\* The caller gives up (cancel_native_delegation); its run is interrupted if it
\* is still live.
HangUp(r) ==
  /\ mode # "down" /\ waiting[r] # None
  /\ told' = [told EXCEPT ![r] = "error"] /\ waiting' = [waiting EXCEPT ![r] = None]
  /\ IF exec[r] = None
     THEN UNCHANGED <<rows, shown, exec, proc, verdict, unwritten, budget>>
     ELSE EndRuns({r}, "cut") /\ StopProviders({r}) /\ Persist({r})
  /\ UNCHANGED <<mode, inbox, early, dropped>>

\* The periodic sweep over callers whose channel is closed.
Sweep(r) == CallerGone(r) /\ HangUp(r)

\* A deletion of the session whose transaction fails: callers were answered and
\* providers stopped before, and what the reducer makes of it is not executed.
DeletionFails ==
  /\ mode = "open" /\ Spend("fault")
  /\ EndRuns(Live, "cut") /\ StopProviders(Runs)
  /\ told' = [r \in Runs |-> IF waiting[r] = None THEN told[r] ELSE "error"]
  /\ waiting' = NoneOf /\ rows' = rows /\ unwritten' = unwritten \cup Live
  /\ UNCHANGED <<mode, inbox, early, dropped>>

\* The credential of a provider is removed: its providers are stopped, nothing
\* tells the runs.
CredentialCleared(released) ==
  /\ mode # "down" /\ Spend("fault")
  /\ released # {} /\ \A r \in released : proc[r] # None
  /\ StopProviders(released)
  /\ UNCHANGED <<rows, mode, shown, exec, inbox, waiting, history>>

-----------------------------------------------------------------------------
(* Crash and restart.                                                      *)

Crash ==
  /\ mode # "down" /\ mode' = "down" /\ Spend("crash")
  /\ shown' = NoneOf /\ exec' = NoneOf /\ proc' = NoneOf /\ waiting' = NoneOf
  /\ inbox' = [r \in Runs |-> <<>>]
  /\ UNCHANGED <<rows, history>>

\* Mutant: every row found is taken for a run that was cut off.
RestoredAllCut(r) == IF rows[r] = None THEN None ELSE [rows[r] EXCEPT !.status = "interrupted"]

\* A run found active was cut off by the end of the process.
Restored(r) ==
  IF rows[r] # None /\ rows[r].status \in Active
  THEN [rows[r] EXCEPT !.status = "interrupted"] ELSE rows[r]

\* The rows replace what the engine knew; corrected rows are written until a
\* write fails.
LoadSubagents ==
  /\ shown' = [r \in Runs |-> Restored(r)] /\ exec' = NoneOf
  /\ LET corrected == {r \in Runs : rows[r] # Restored(r)}
         Save(saved) == rows' = [r \in Runs |-> IF r \in saved THEN Restored(r) ELSE rows[r]] IN
     \/ Save(corrected) /\ UNCHANGED budget
     \/ Spend("fault") /\ \E saved \in SUBSET corrected : saved # corrected /\ Save(saved)
  /\ verdict' = [r \in Runs |-> IF verdict[r] = None /\ Restored(r) # None
                                THEN Restored(r).status ELSE verdict[r]]

\* Opening the session displays its runs before the provider has resumed it.
Open ==
  /\ mode = "down" /\ mode' = "resuming" /\ LoadSubagents
  /\ UNCHANGED <<proc, inbox, waiting, told, early, unwritten, dropped>>

\* The provider has resumed it: the runs are loaded once more.
Resumed ==
  /\ mode = "resuming" /\ mode' = "open" /\ LoadSubagents
  /\ UNCHANGED <<proc, inbox, waiting, told, early, unwritten, dropped>>

-----------------------------------------------------------------------------
Next ==
  \/ \E r \in Runs, p \in Runs \cup {None}, native \in BOOLEAN : Delegate(r, p, native)
  \/ \E s, r \in Runs : Continue(s, r)
  \/ \E r \in Runs : Provide(r) \/ Handle(r) \/ HangUp(r)
  \/ \E ended \in SUBSET Runs : Interrupt(ended)
  \/ DeletionFails
  \/ \E released \in SUBSET Runs : CredentialCleared(released)
  \/ Crash \/ Open \/ Resumed

Spec == Init /\ [][Next]_vars

\* The actor takes the events that reach it and sweeps abandoned callers. No
\* provider has to answer and nobody has to delegate, continue or reopen.
FairSpec == Spec /\ \A r \in Runs : WF_vars(Handle(r)) /\ WF_vars(Sweep(r))

-----------------------------------------------------------------------------
(* Properties.                                                             *)

\* Only a live run takes one of the places, and nobody takes more than there
\* are; a provider belongs to a live run (validate_subagent_concurrency over
\* the displayed runs, spawn and release in the registry).  A run delegated
\* while its session was resuming is the exception.
PlacesAreReleased ==
  /\ Occupied = Live
  /\ Cardinality(Live) <= Limit
  /\ \A a \in Agents : Cardinality({r \in Live : AgentOf[r] = a}) <= MaxConcurrent[a]
  /\ \A r \in Runs \ early : proc[r] # None => r \in Live

\* A caller waits for a run that can still answer it (complete_native_delegations)
\* unless the run ended inside the execution of effects.
CallersAreAnswered ==
  \A r \in Runs \ (early \cup dropped) : waiting[r] # None => r \in Live

\* What the caller was told is what the session shows of the run, in this
\* process and after a restart ("the same durable result projected to the
\* dashboard"), unless a record did not reach the disk or nobody answered.
AnswerMatchesRun ==
  \A r \in Runs \ (unwritten \cup dropped) :
    told[r] # None /\ shown[r] # None => (told[r] = "result" <=> shown[r].status \in Success)

\* A run ends once: late events, cancellations that race its end, and restarts
\* leave its verdict, unless it did not reach the disk.
VerdictStands ==
  \A r \in Runs \ unwritten :
    verdict[r] # None /\ shown[r] # None => shown[r].status = verdict[r]

\* A run is continued once, and its successor names it ("Atomically saves the
\* linked source and successor"), unless their transaction failed.
OneSuccessor ==
  \A r \in Runs : shown[r] # None /\ shown[r].source # None =>
    \/ {shown[r].source, r} \subseteq unwritten
    \/ shown[shown[r].source] # None /\ shown[shown[r].source].heir = r

-----------------------------------------------------------------------------
(* What a comment or a document says and the code does not do.             *)

\* "Each delegation returns its attributed terminal result when the child
\* finishes" (the instructions of every session).
AnswerArrives ==
  \A r \in Runs : (waiting[r] # None /\ verdict[r] # None) ~> waiting[r] = None

\* "Creates one attributed delegated run and returns its stable identity": a live
\* run stays known as long as the process lives.
IdentityIsStable ==
  [][\A r \in Runs : exec[r] # None /\ mode' # "down" => shown'[r] # None]_vars

=============================================================================
