--------------------------- MODULE PromptLifecycle ---------------------------
(***************************************************************************)
(* The ordinary prompts of one session (src/state.rs, src/server/runtime.rs *)
(* and src/session.rs): how a prompt is accepted, waits, reaches the       *)
(* provider, is steered into a running turn, and survives a crash.         *)
(*                                                                         *)
(* A prompt that starts a turn has a row in the owner ledger, with a bit   *)
(* that stays until the provider reports the turn started; a prompt that   *)
(* waits is in the queue, which is saved after every command and event.    *)
(* The engine is the reducer's state of the session; what it asks of the   *)
(* provider is answered in any order the provider's adapters allow.        *)
(* A command whose write fails is rolled back whole and leaves no trace.   *)
(* Shells, compaction, delegated runs and bridges are left out.            *)
(***************************************************************************)
EXTENDS Naturals, FiniteSets, SequencesExt

CONSTANTS
  Prompts,      \* prompts; each carries the idempotency key of its command
  Guides,       \* prompts the provider takes as native guidance
  Resends,      \* TRUE: clients repeat a command while the session resumes
  MaxCrashes,   \* bound on crashes
  MaxFaults,    \* bound on writes that fail and on lost or closed providers
  MaxEvictions, \* bound on commands the command cache forgets
  None          \* no prompt, no turn

ASSUME PromptAssumption ==
  /\ IsFiniteSet(Prompts) /\ Guides \subseteq Prompts /\ Resends \in BOOLEAN
  /\ MaxCrashes \in Nat /\ MaxFaults \in Nat /\ MaxEvictions \in Nat
  /\ None \notin Prompts \cup [prompt : Prompts, stage : {"sent", "started"}]

VARIABLES
  \* durable
  ledger,     \* session_owner_prompts, in order
  pending,    \* rows whose dispatch is not acknowledged
  saved,      \* the saved prompt queue, and which of it is uncertain
  native,     \* the session's row: none, a pending provider session, a real one
  \* the engine
  work,       \* what occupies it: creating, resuming, starting or running a turn
  ready,      \* ConnectionState::Ready
  sess,       \* provider_session_id is known
  queue,      \* queue
  fence,      \* queued prompts with delivery_uncertain
  blocked,    \* replay_blocked_prompt
  known,      \* owner_prompts still marked as pending
  shown,      \* user rows of the transcript
  cancelling, \* the active turn's interruption was asked for
  steer,      \* pending_steer with a queued origin
  redirect,   \* pending_redirect
  moving,     \* redirect_start: the prompt and its predecessors
  cached,     \* prompts whose command result the core remembers
  \* the provider
  asked,      \* a session it was asked to create or to resume
  turn,       \* the turn it was asked for, and whether it reported it started
  interrupts, \* turns it was asked to interrupt
  guiding,    \* guidance it was given and has not answered
  \* history
  accepted,   \* prompts in the order they were accepted
  removed,    \* prompts an owner removed
  guided,     \* prompts that went out as guidance
  absorbed,   \* guidance that the running turn took
  mistaken,   \* prompts taken out of the queue by the answer to another guidance
  fenced,     \* prompts whose promotion could not be written
  returned,   \* redirected prompts that came back
  parked,     \* the queue was left behind by a failure
  budget      \* crashes, faults and evictions left

durable  == <<ledger, pending, saved, native>>
selected == <<steer, redirect, moving>>
engine   == <<work, ready, sess, queue, fence, blocked, known, shown, cancelling,
              selected, cached>>
provider == <<asked, turn, interrupts, guiding>>
taken    == <<absorbed, mistaken>>
history  == <<accepted, removed, guided, taken, fenced, returned, parked>>
vars     == <<durable, engine, provider, history, budget>>

Work(kind, p) == [kind |-> kind, prompt |-> p]
Idle   == Work("idle", None)
Absent == Work("absent", None)
Turn(p, stage) == [prompt |-> p, stage |-> stage]

\* Ledger and queue hold a prompt once, and only what waits is uncertain.
LedgerOK ==
  /\ ledger \in Seq(Prompts) /\ IsInjective(ledger) /\ pending \subseteq ToSet(ledger)
  /\ native \in {"none", "pending", "real"}
QueueOK == queue \in Seq(Prompts) /\ IsInjective(queue) /\ fence \subseteq ToSet(queue)
SavedOK == /\ saved.queue \in Seq(Prompts) /\ IsInjective(saved.queue)
           /\ saved.fence \subseteq ToSet(saved.queue)

\* The work names a prompt exactly while it is about one.
WorkOK ==
  \/ work \in {Idle, Absent, Work("resuming", None)}
  \/ \E p \in Prompts, k \in {"creating", "starting", "active"} : work = Work(k, p)
EngineOK ==
  /\ WorkOK /\ {ready, sess, cancelling} \subseteq BOOLEAN
  /\ blocked \in Prompts \cup {None}
  /\ known \subseteq Prompts /\ shown \subseteq Prompts /\ cached \subseteq Prompts
SelectionOK ==
  /\ steer \in [prompt : Prompts, turn : Prompts] \cup {None}
  /\ redirect \in Prompts \cup {None}
  /\ moving \in [prompt : Prompts, ahead : SUBSET Prompts] \cup {None}
ProviderOK ==
  /\ asked \in {"none", "create", "resume"}
  /\ turn \in [prompt : Prompts, stage : {"sent", "started"}] \cup {None}
  /\ interrupts \subseteq Prompts /\ guiding \subseteq [prompt : Prompts, turn : Prompts]
HistoryOK ==
  /\ accepted \in Seq(Prompts) /\ IsInjective(accepted) /\ parked \in BOOLEAN
  /\ removed \cup guided \cup absorbed \cup mistaken \cup fenced \cup returned \subseteq Prompts
  /\ budget \in [{"crash", "fault", "evict"} -> Nat]
TypeOK == LedgerOK /\ QueueOK /\ SavedOK /\ EngineOK /\ SelectionOK /\ ProviderOK /\ HistoryOK

Init ==
  /\ ledger = <<>> /\ pending = {} /\ saved = [queue |-> <<>>, fence |-> {}]
  /\ native = "none" /\ work = Idle
  /\ ready = TRUE /\ sess = FALSE /\ queue = <<>> /\ fence = {} /\ blocked = None
  /\ known = {} /\ shown = {} /\ cancelling = FALSE
  /\ steer = None /\ redirect = None /\ moving = None /\ cached = {}
  /\ asked = "none" /\ turn = None /\ interrupts = {} /\ guiding = {}
  /\ accepted = <<>> /\ removed = {} /\ guided = {} /\ absorbed = {} /\ mistaken = {}
  /\ fenced = {} /\ returned = {} /\ parked = FALSE
  /\ budget = [crash |-> MaxCrashes, fault |-> MaxFaults, evict |-> MaxEvictions]

Spend(kind) == /\ budget[kind] > 0
               /\ budget' = [budget EXCEPT ![kind] = @ - 1]

Live == work # Absent
HasActiveWork == work.kind \in {"creating", "resuming", "starting", "active"}
IsBusy == blocked # None \/ HasActiveWork
Active(p) == work = Work("active", p)

\* The queue and its uncertain entries are saved with what the step did.
SaveQueue == saved' = [queue |-> queue', fence |-> fence']
Without(q, p) ==
  IF Contains(q, p) THEN RemoveAt(q, CHOOSE i \in DOMAIN q : q[i] = p) ELSE q

-----------------------------------------------------------------------------
(* Starting a prompt.                                                      *)

\* Mutant: a prompt is given to the provider with no row.
RecordNothing(p) == UNCHANGED <<ledger, pending>>
\* Mutant: a retried prompt gets a second row.
RecordAgain(p) == ledger' = Append(ledger, p) /\ pending' = pending \cup {p}
\* A row that exists keeps its bit.
RecordOwnerPrompt(p) ==
  IF Contains(ledger, p) THEN UNCHANGED <<ledger, pending>>
  ELSE ledger' = Append(ledger, p) /\ pending' = pending \cup {p}

\* A session that is real on disk and unknown to the engine cannot be given the
\* pending row that a creation needs.
Startable == sess \/ native # "real"

\* With a session the turn is sent, without one a session is created.
BeginPrompt(p, session) ==
  /\ RecordOwnerPrompt(p) /\ parked' = FALSE
  /\ IF session
     THEN /\ work' = Work("starting", p) /\ turn' = Turn(p, "sent")
          /\ asked' = "none" /\ UNCHANGED native
     ELSE /\ work' = Work("creating", p) /\ native' = "pending" /\ asked' = "create"
          /\ UNCHANGED turn

\* Mutant: uncertain guidance at the head does not hold the queue.
HeadAny(q, f) == q # <<>>
HeadReady(q, f) == q # <<>> /\ Head(q) \notin f

\* A prompt is started by an event.  When its checkpoint cannot be written the
\* turn is refused in the provider's stead: the prompt is held for a retry, and
\* the saved queue is left as it was.
Promote(p, q) ==
  /\ queue' = q
  /\ \/ BeginPrompt(p, TRUE) /\ SaveQueue /\ UNCHANGED <<blocked, fenced, budget>>
     \/ /\ Spend("fault") /\ blocked' = p /\ fenced' = fenced \cup {p}
        /\ work' = Idle /\ turn' = None /\ asked' = "none"
        /\ UNCHANGED <<ledger, pending, saved, native, parked>>

\* Nothing is started.
Stay == /\ UNCHANGED <<ledger, pending, native, blocked, fenced, budget>> /\ SaveQueue

-----------------------------------------------------------------------------
(* Commands of clients.                                                    *)

\* prompt_identity_matches: what the engine can still tell of a prompt.
Recognised(p) == p \in ToSet(queue) \/ work.prompt = p \/ p \in shown

\* A prompt is sent, or its command is repeated.  One that was removed or sent
\* out as guidance was seen in the queue, and its command is not repeated.
Offered(p) ==
  /\ Live /\ p \notin cached \cup removed \cup guided
  /\ Contains(accepted, p) => Resends \/ work.kind # "resuming"

Accept(p) ==
  /\ cached' = cached \cup {p}
  /\ accepted' = IF Contains(accepted, p) THEN accepted ELSE Append(accepted, p)

\* A repeated command is recognised and changes nothing.
SendAgain(p) ==
  /\ Offered(p) /\ blocked # p /\ Recognised(p)
  /\ Accept(p) /\ UNCHANGED <<queue, fence>> /\ SaveQueue
  /\ UNCHANGED <<ledger, pending, native, work, ready, sess, blocked, known, shown, cancelling,
                 selected, provider, removed, guided, taken, fenced, returned, parked, budget>>

\* The engine is free, or the prompt is the one it holds for a retry.
SubmitPrompt(p) ==
  /\ Offered(p) /\ ~HasActiveWork /\ (blocked = p \/ (blocked = None /\ ~Recognised(p)))
  /\ fence = {} /\ ready /\ Startable
  /\ Accept(p) /\ BeginPrompt(p, sess) /\ shown' = shown \cup {p} /\ blocked' = None
  /\ UNCHANGED <<queue, fence>> /\ SaveQueue
  /\ UNCHANGED <<ready, sess, known, cancelling, selected, interrupts,
                 guiding, removed, guided, taken, fenced, returned, budget>>

EnqueuePrompt(p) ==
  /\ Offered(p) /\ blocked # p /\ ~Recognised(p) /\ IsBusy
  /\ Accept(p) /\ queue' = Append(queue, p) /\ UNCHANGED fence /\ SaveQueue
  /\ UNCHANGED <<ledger, pending, native, work, ready, sess, blocked, known, shown, cancelling,
                 selected, provider, removed, guided, taken, fenced, returned, parked, budget>>

\* Selected for a steer or a redirect that is not settled.
Redirecting(p) == redirect = p \/ (steer # None /\ steer.prompt = p)

\* The rest of the queue may start.
RemoveQueuedPrompt(p) ==
  LET q == Without(queue, p) IN
  /\ p \in ToSet(queue) /\ ~Redirecting(p)
  /\ removed' = removed \cup {p} /\ fence' = fence \ {p}
  /\ IF ready /\ ~IsBusy /\ HeadReady(q, fence')
     THEN /\ Startable /\ BeginPrompt(Head(q), sess) /\ queue' = Tail(q)
          /\ shown' = shown \cup {Head(q)}
     ELSE queue' = q /\ UNCHANGED <<ledger, pending, native, work, asked, turn, shown, parked>>
  /\ SaveQueue
  /\ UNCHANGED <<ready, sess, blocked, known, cancelling, selected, cached, interrupts, guiding,
                 accepted, guided, taken, fenced, returned, budget>>

Steerable(p) ==
  /\ p \in ToSet(queue) \ fence /\ work.kind = "active" /\ steer = None /\ redirect = None

\* Native guidance is uncertain from before it is sent.
SteerNatively(p) ==
  LET g == [prompt |-> p, turn |-> work.prompt] IN
  /\ Steerable(p) /\ p \in Guides /\ ~cancelling
  /\ fence' = fence \cup {p} /\ UNCHANGED queue /\ SaveQueue
  /\ steer' = g /\ guiding' = guiding \cup {g} /\ guided' = guided \cup {p}
  /\ UNCHANGED <<ledger, pending, native, work, ready, sess, blocked, known, shown, cancelling,
                 redirect, moving, cached, asked, turn, interrupts, accepted, removed, taken,
                 fenced, returned, parked, budget>>

Interrupt == cancelling' = TRUE /\ interrupts' = interrupts \cup {work.prompt}

\* Other prompts run next, once the turn is interrupted.
SteerByRedirect(p) ==
  /\ Steerable(p) /\ p \notin Guides /\ redirect' = p
  /\ IF cancelling THEN UNCHANGED <<cancelling, interrupts>> ELSE Interrupt
  /\ UNCHANGED <<queue, fence>> /\ SaveQueue
  /\ UNCHANGED <<ledger, pending, native, work, ready, sess, blocked, known, shown, steer, moving,
                 cached, asked, turn, guiding, history, budget>>

CancelTurn ==
  /\ work.kind = "active" /\ ~cancelling /\ Interrupt
  /\ UNCHANGED <<queue, fence>> /\ SaveQueue
  /\ UNCHANGED <<ledger, pending, native, work, ready, sess, blocked, known, shown, selected,
                 cached, asked, turn, guiding, history, budget>>

\* Later commands push the result out of the cache.
Evict(p) ==
  /\ p \in cached /\ cached' = cached \ {p} /\ Spend("evict")
  /\ UNCHANGED <<durable, work, ready, sess, queue, fence, blocked, known, shown, cancelling,
                 selected, provider, history>>

-----------------------------------------------------------------------------
(* The provider's answers about sessions.                                  *)

\* The turn is sent once the pending row has become the real session; when that
\* cannot be written, the prompt is held and the engine forgets the session.
HandleSessionCreated ==
  LET p == work.prompt IN
  /\ asked = "create" /\ asked' = "none"
  /\ \/ /\ sess' = TRUE /\ native' = "real" /\ work' = Work("starting", p)
        /\ turn' = Turn(p, "sent") /\ UNCHANGED <<blocked, budget>>
     \/ /\ Spend("fault") /\ work' = Idle /\ blocked' = p
        /\ UNCHANGED <<sess, native, turn>>
  /\ UNCHANGED <<queue, fence>> /\ SaveQueue
  /\ UNCHANGED <<ledger, pending, ready, known, shown, cancelling, selected,
                 cached, interrupts, guiding, history>>

CreateRefused ==
  /\ asked = "create" /\ asked' = "none" /\ work' = Idle /\ blocked' = work.prompt
  /\ UNCHANGED <<queue, fence>> /\ SaveQueue
  /\ UNCHANGED <<ledger, pending, native, ready, sess, known, shown, cancelling, selected, cached,
                 turn, interrupts, guiding, history, budget>>

\* Mutant: what is recorded is replayed whether or not it was acknowledged.
ReplaysAll == ToSet(ledger)
\* Rows whose dispatch nobody acknowledged.
Replays == pending
InLedgerOrder(p, q) == \E i, j \in DOMAIN ledger : i <= j /\ ledger[i] = p /\ ledger[j] = q

\* The transcript is restored; the first pending prompt starts, the last of those
\* that could not is held.  Only when none is pending does the queue move on.
HandleSessionResumed ==
  /\ asked = "resume" /\ asked' = "none" /\ sess' = TRUE /\ known' = pending
  /\ UNCHANGED fence
  /\ \/ /\ Replays = {} /\ HeadReady(queue, fence)
        /\ Promote(Head(queue), Tail(queue)) /\ shown' = ToSet(ledger) \cup {Head(queue)}
     \/ /\ Replays = {} /\ ~HeadReady(queue, fence)
        /\ work' = Idle /\ shown' = ToSet(ledger) /\ UNCHANGED <<queue, turn, parked>> /\ Stay
     \/ \E first, last \in Replays :
          /\ \A p \in Replays : InLedgerOrder(first, p) /\ InLedgerOrder(p, last)
          /\ shown' = ToSet(ledger) /\ UNCHANGED <<queue, fenced, budget>> /\ SaveQueue
          /\ IF fence # {}
             THEN /\ work' = Idle /\ blocked' = last
                  /\ UNCHANGED <<ledger, pending, native, turn, parked>>
             ELSE /\ BeginPrompt(first, TRUE)
                  /\ blocked' = IF first # last THEN last ELSE blocked
  /\ UNCHANGED <<native, ready, cancelling, selected, cached, interrupts, guiding, accepted,
                 removed, guided, taken, returned>>

\* Nothing but the resume is given up.
ResumeRefused ==
  /\ asked = "resume" /\ asked' = "none" /\ work' = Idle /\ parked' = TRUE
  /\ Spend("fault")
  /\ UNCHANGED <<queue, fence>> /\ SaveQueue
  /\ UNCHANGED <<ledger, pending, native, ready, sess, blocked, known, shown, cancelling, selected,
                 cached, turn, interrupts, guiding, accepted, removed, guided, taken, fenced,
                 returned>>

-----------------------------------------------------------------------------
(* The provider's answers about turns.                                     *)

Sent(p)    == turn = Turn(p, "sent")
Started(p) == turn = Turn(p, "started")

\* The row is acknowledged; when that cannot be written it stays pending, and the
\* prompt is held if the engine has it among the rows it loaded.
TurnStarted(p) ==
  /\ Sent(p) /\ turn' = Turn(p, "started") /\ work' = Work("active", p)
  /\ moving' = None
  /\ \/ /\ pending' = pending \ {p} /\ known' = known \ {p}
        /\ UNCHANGED <<blocked, budget>>
     \/ /\ Spend("fault") /\ UNCHANGED <<pending, known>>
        /\ blocked' = IF p \in known THEN p ELSE blocked
  /\ UNCHANGED <<queue, fence>> /\ SaveQueue
  /\ UNCHANGED <<ledger, native, ready, sess, shown, cancelling, steer, redirect, cached, asked,
                 interrupts, guiding, history>>

\* Mutant: a redirected prompt comes back at the head.
RestoredFirst(m) == <<m.prompt>> \o queue
\* A redirected prompt returns behind those of its predecessors that still wait.
Restored(m) ==
  InsertAt(queue, Cardinality({i \in DOMAIN queue : queue[i] \in m.ahead}) + 1, m.prompt)

\* The prompt that was starting is held for a retry, or returns to the queue.
GiveUpStart(p) ==
  IF moving # None
  THEN /\ queue' = Restored(moving) /\ returned' = returned \cup {p} /\ UNCHANGED blocked
  ELSE /\ blocked' = p /\ UNCHANGED <<queue, returned>>

TurnRefused(p) ==
  /\ Sent(p) /\ turn' = None /\ work' = Idle
  /\ GiveUpStart(p) /\ moving' = None /\ parked' = TRUE /\ UNCHANGED fence /\ SaveQueue
  /\ UNCHANGED <<ledger, pending, native, ready, sess, known, shown, cancelling, steer, redirect,
                 cached, asked, interrupts, guiding, accepted, removed, guided, taken, fenced,
                 budget>>

\* A turn that fails while it is prepared was never reported started.
FailedUnstarted(p) ==
  /\ Sent(p) /\ turn' = None /\ work' = Idle /\ blocked' = p /\ moving' = None
  /\ parked' = TRUE /\ UNCHANGED <<queue, fence>> /\ SaveQueue
  /\ UNCHANGED <<ledger, pending, native, ready, sess, known, shown, cancelling, steer, redirect,
                 cached, asked, interrupts, guiding, accepted, removed, guided, taken, fenced,
                 returned, budget>>

\* Mutant: the interruption outlives its turn.
EndTurnOnly == UNCHANGED cancelling /\ steer' = None /\ redirect' = None
\* The turn is over: whatever was asked about it is settled in the engine.
EndTurn == cancelling' = FALSE /\ steer' = None /\ redirect' = None

\* The selected prompt runs next, or is lost with its checkpoint: the queue it was
\* restored to is overwritten by the one held out of the failure.
BeginPendingRedirect ==
  LET p == redirect
      q == Without(queue, p)
      i == CHOOSE j \in DOMAIN queue : queue[j] = p IN
  /\ queue' = q /\ UNCHANGED blocked
  /\ \/ /\ BeginPrompt(p, TRUE) /\ SaveQueue /\ UNCHANGED <<fenced, budget>>
        /\ moving' = [prompt |-> p, ahead |-> ToSet(SubSeq(queue, 1, i - 1))]
     \/ /\ Spend("fault") /\ fenced' = fenced \cup {p} /\ work' = Idle /\ turn' = None
        /\ moving' = None /\ parked' = TRUE
        /\ UNCHANGED <<ledger, pending, saved, native, asked>>
  /\ shown' = shown \cup {p}

\* Mutant: an interruption leaves the queue behind.
DrainsCompleted(outcome) ==
  outcome # "interrupted" /\ blocked = None /\ HeadReady(queue, fence)
\* However the turn ended, the queue goes on.
Drains(outcome) == blocked = None /\ HeadReady(queue, fence)

TurnCompleted(p, outcome) ==
  /\ Started(p) /\ EndTurn /\ UNCHANGED fence
  /\ outcome = "interrupted" => p \in interrupts
  /\ \/ /\ redirect # None /\ outcome # "failed" /\ BeginPendingRedirect
     \/ /\ redirect = None /\ Drains(outcome)
        /\ Promote(Head(queue), Tail(queue)) /\ shown' = shown \cup {Head(queue)}
        /\ UNCHANGED moving
     \/ /\ IF redirect # None THEN outcome = "failed"
           ELSE ~Drains(outcome)
        /\ parked' = (parked \/ redirect # None)
        /\ work' = Idle /\ turn' = None /\ UNCHANGED <<queue, moving, shown, asked>> /\ Stay
  /\ UNCHANGED <<native, ready, sess, known, cached, interrupts, guiding, asked, accepted, removed,
                 guided, taken, returned>>

\* The answer is about guidance of the running turn.
Current(g) == steer # None /\ steer.turn = g.turn /\ Active(g.turn)

\* The answer names its turn only.  A late acceptance settles nothing, a newer
\* guidance it meets stays uncertain; one about an older guidance of the same
\* turn is taken for the newest.
HandleSteerAccepted(g) ==
  /\ g \in guiding /\ guiding' = guiding \ {g} /\ steer' = None
  /\ absorbed' = absorbed \cup {g.prompt}
  /\ \/ /\ Current(g)
        /\ queue' = Without(queue, steer.prompt) /\ fence' = fence \ {steer.prompt}
        /\ mistaken' = mistaken \cup ({steer.prompt} \ {g.prompt})
        /\ \/ SaveQueue /\ UNCHANGED budget
           \/ UNCHANGED saved /\ Spend("fault")
     \/ ~Current(g) /\ UNCHANGED <<queue, fence, mistaken, budget>> /\ SaveQueue
  /\ UNCHANGED <<ledger, pending, native, work, ready, sess, blocked, known, shown, cancelling,
                 redirect, moving, cached, asked, turn, interrupts, accepted, removed, guided,
                 fenced, returned, parked>>

\* A refusal does not show that the guidance never arrived.
SteerRefused(g) ==
  /\ g \in guiding /\ guiding' = guiding \ {g} /\ steer' = None
  /\ UNCHANGED <<queue, fence>> /\ SaveQueue
  /\ UNCHANGED <<ledger, pending, native, work, ready, sess, blocked, known, shown, cancelling,
                 redirect, moving, cached, asked, turn, interrupts, history, budget>>

\* A refused interruption is taken for that of the running turn.
InterruptRefused(p) ==
  /\ p \in interrupts /\ interrupts' = interrupts \ {p}
  /\ cancelling' = FALSE /\ redirect' = None
  /\ UNCHANGED <<queue, fence>> /\ SaveQueue
  /\ UNCHANGED <<ledger, pending, native, work, ready, sess, blocked, known, shown, steer, moving,
                 cached, asked, turn, guiding, history, budget>>

-----------------------------------------------------------------------------
(* Losing the session, the provider or the runtime.                        *)

\* What was starting is held or returns; the rest of the queue stays behind.
DropTurn ==
  /\ IF work.kind \in {"creating", "starting"} THEN GiveUpStart(work.prompt)
     ELSE UNCHANGED <<queue, blocked, returned>>
  /\ UNCHANGED fence /\ SaveQueue /\ parked' = TRUE /\ moving' = None /\ EndTurn
  /\ turn' = None /\ interrupts' = {} /\ guiding' = {} /\ Spend("fault")

HandleSessionClosed ==
  /\ Live /\ sess /\ sess' = FALSE /\ work' = Idle /\ DropTurn
  /\ UNCHANGED <<ledger, pending, native, ready, known, shown, cached, asked, accepted, removed,
                 guided, taken, fenced>>

\* A resume that was asked for stays awaited.
HandleDisconnected ==
  /\ Live /\ ready /\ ready' = FALSE /\ DropTurn /\ asked' = "none"
  /\ work' = IF work.kind = "resuming" THEN work ELSE Idle
  /\ UNCHANGED <<ledger, pending, native, sess, known, shown, cached, accepted, removed, guided,
                 taken, fenced>>

\* Nothing is started.
HandleReady ==
  /\ Live /\ ~ready /\ ready' = TRUE
  /\ UNCHANGED <<queue, fence>> /\ SaveQueue
  /\ UNCHANGED <<ledger, pending, native, work, sess, blocked, known, shown, cancelling, selected,
                 cached, provider, history, budget>>

Crash ==
  /\ Live /\ Spend("crash") /\ work' = Absent
  /\ ready' = TRUE /\ sess' = FALSE /\ queue' = <<>> /\ fence' = {} /\ blocked' = None
  /\ known' = {} /\ shown' = {} /\ cancelling' = FALSE
  /\ steer' = None /\ redirect' = None /\ moving' = None /\ cached' = {}
  /\ asked' = "none" /\ turn' = None /\ interrupts' = {} /\ guiding' = {}
  /\ UNCHANGED <<durable, history>>

\* The prompt a creation that was cut off begins with.
FirstPending(p) ==
  IF Replays = {} THEN p = Head(ledger) ELSE p \in Replays /\ \A q \in Replays : InLedgerOrder(p, q)

\* begin_resume, by a client that opens the session.
OpenSession ==
  /\ ~Live /\ queue' = saved.queue /\ fence' = saved.fence /\ parked' = FALSE
  /\ CASE native = "none" -> work' = Idle /\ UNCHANGED <<asked, known, shown>>
       [] native = "real" -> /\ work' = Work("resuming", None) /\ asked' = "resume"
                             /\ known' = pending /\ UNCHANGED shown
       [] native = "pending" -> \E p \in ToSet(ledger) :
            /\ FirstPending(p) /\ work' = Work("creating", p) /\ asked' = "create"
            /\ known' = pending /\ shown' = {p}
  /\ UNCHANGED <<durable, ready, sess, blocked, cancelling, selected, cached, turn, interrupts,
                 guiding, accepted, removed, guided, taken, fenced, returned, budget>>

-----------------------------------------------------------------------------
Client(p) ==
  \/ SendAgain(p) \/ SubmitPrompt(p) \/ EnqueuePrompt(p) \/ RemoveQueuedPrompt(p)
  \/ SteerNatively(p) \/ SteerByRedirect(p)

Answer(p) ==
  \/ TurnStarted(p) \/ (\E o \in {"completed", "failed", "interrupted"} : TurnCompleted(p, o))

Next ==
  \/ \E p \in Prompts :
       Client(p) \/ Answer(p) \/ TurnRefused(p) \/ FailedUnstarted(p) \/ InterruptRefused(p)
         \/ Evict(p)
  \/ \E g \in guiding : HandleSteerAccepted(g) \/ SteerRefused(g)
  \/ CancelTurn \/ HandleSessionCreated \/ CreateRefused \/ HandleSessionResumed \/ ResumeRefused
  \/ HandleSessionClosed \/ HandleDisconnected \/ HandleReady \/ Crash \/ OpenSession

Spec == Init /\ [][Next]_vars

\* The provider answers; clients and owners owe nothing.
FairSpec ==
  /\ Spec
  /\ WF_vars(HandleSessionCreated \/ CreateRefused) /\ WF_vars(HandleSessionResumed)
  /\ \A p \in Prompts : WF_vars(Answer(p) \/ TurnRefused(p) \/ FailedUnstarted(p))

-----------------------------------------------------------------------------
(* Properties.                                                             *)

Settled == ToSet(ledger) \ pending
Starts(p) == turn' = Turn(p, "sent") /\ ~Sent(p)

\* Whatever was promised to a client outlives a crash at any point: an accepted
\* prompt is in the ledger or in the saved queue, unless its owner removed it, a
\* turn took it as guidance, the write of its promotion failed, or the answer to
\* another guidance was taken for its own.
AcceptedSurvives ==
  \A p \in ToSet(accepted) \ (removed \cup absorbed \cup mistaken \cup fenced) :
    Contains(ledger, p) \/ Contains(saved.queue, p)

\* The engine and the provider agree on the one turn and the one session under
\* way, and what an owner selected belongs to that turn, through late answers,
\* refusals and lost connections.
EngineTracksProvider ==
  /\ \A p \in Prompts : (Sent(p) <=> work = Work("starting", p)) /\ (Started(p) <=> Active(p))
  /\ asked = "create" <=> work.kind = "creating"
  /\ asked = "resume" => work.kind = "resuming"
  /\ cancelling => work.kind = "active"
  /\ steer # None => Active(steer.turn) /\ steer.prompt \in fence
  /\ redirect # None => cancelling /\ Contains(queue, redirect)
  /\ moving # None => Sent(moving.prompt)

\* A prompt whose start was acknowledged is not sent again, across crashes,
\* resumes, retries and evicted results ("exactly-once").  Left out is the prompt
\* of a refused redirect: it returns to the queue while its row stays pending,
\* so a crash leaves it in both.  NeverRepeated covers a repeated command.
StartedOnce == [][\A p \in Prompts : Starts(p) => p \notin Settled \/ p \in returned]_vars

\* "Failure does not prove that native guidance never reached the provider":
\* guidance that went out is never sent as a turn of its own.
GuidanceIsNotReplayed == [][\A p \in guided : ~Starts(p)]_vars

\* A turn starts with the oldest prompt that waits, unless an owner selected or
\* retries the prompt, an unacknowledged one is replayed, or a failure left the
\* queue behind.
\* A prompt that was lost with its promotion (fenced) has lost its place.
StartsInOrder ==
  [][\A p \in Prompts :
       Starts(p) /\ p \notin pending \cup {redirect, blocked} /\ ~parked =>
         \A i, j \in DOMAIN accepted :
           i < j /\ accepted[j] = p /\ accepted[i] \notin fenced =>
             ~Contains(queue', accepted[i])]_vars

\* What keeps a queue waiting: a prompt held for a retry, uncertain guidance, a
\* provider or a session that is gone, a queue that a failure left behind.
Held == blocked # None \/ fence # {} \/ ~ready \/ ~Live \/ parked

\* Otherwise every prompt that waits is started.
QueuedPromptStarts ==
  <>[]~Held => \A p \in Prompts : Contains(queue, p) ~> ~Contains(queue, p)

-----------------------------------------------------------------------------
(* What a comment or a document says and the code does not do.             *)

\* "idempotency keys, safe retry after uncertain delivery"
\* (docs/sdk-architecture.md): a prompt whose turn started is not sent again.
NeverRepeated == [][\A p \in Prompts : Starts(p) => p \notin Settled]_vars

=============================================================================
