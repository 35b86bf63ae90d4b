--------------------------- MODULE FollowupInbox ---------------------------
(***************************************************************************)
(* The durable follow-up inbox of one logical session and the runtime      *)
(* actor that delivers it (src/followups/*, src/server/runtime/followups.rs)*)
(* together with the part of the session reducer (src/state.rs) that a     *)
(* delivery touches: the turn in flight, the visible prompt queue, the     *)
(* transcript and the ledger of accepted owner prompts.                    *)
(*                                                                         *)
(* Three actors share the state.  Producers send commands; the actor of    *)
(* the runtime handles one request, tick or provider event at a time; the  *)
(* provider answers.  Every SQLite transaction is one step, so a crash can *)
(* fall between two of them: between the claim of a batch, the persisted   *)
(* owner prompt, the dispatch fence and the provider command.              *)
(***************************************************************************)
EXTENDS Naturals, FiniteSets, Sequences

CONSTANTS
  Messages,      \* message identities producers may use in this inbox
  Bodies,        \* message contents a digest can tell apart
  Keys,          \* idempotency keys of inbox commands
  Batches,       \* "followup-<uuid>" identities claims may draw
  OwnerPrompts,  \* identities of ordinary prompts (SendPrompt, EnqueuePrompt)
  Turns,         \* turn identities a provider may choose for itself
  Echo,          \* TRUE: the provider uses the client's prompt id as turn id
  Capacity,      \* outstanding messages an inbox may hold (256)
  BatchLimit,    \* messages one batch may hold (32)
  Commands,      \* the commands producers issue (a subset of AllCommands)
  GateStates,    \* authority states that may occur (a subset of AllGates)
  MaxFaults,     \* bound on crashes, disconnects and failed writes
  None           \* no identity

Prompts == Batches \cup OwnerPrompts
TurnIds == Prompts \cup Turns

Enqueue(m, b)   == [op |-> "enqueue", msg |-> m, body |-> b]
Remove(m)       == [op |-> "remove", msg |-> m, body |-> None]
SetPaused(v)    == [op |-> IF v THEN "pause" ELSE "resume",
                    msg |-> None, body |-> None]
AllCommands == [op : {"enqueue"}, msg : Messages, body : Bodies]
                 \cup [op : {"remove"}, msg : Messages, body : {None}]
                 \cup {SetPaused(TRUE), SetPaused(FALSE)}

\* "open": the session takes and delivers follow-ups.  "withheld": it takes
\* them, but a claim refuses, because child evidence or a relay source in the
\* inbox lost its authority.  "closed": its bridge is not open.
AllGates == {"open", "withheld", "closed"}

ASSUME InboxAssumption ==
  /\ None \notin Messages \cup Bodies \cup Keys \cup TurnIds
  /\ Batches \cap OwnerPrompts = {} /\ Prompts \cap Turns = {}
  /\ Echo \in BOOLEAN
  /\ Capacity \in Nat /\ BatchLimit \in Nat /\ MaxFaults \in Nat
  /\ Commands \subseteq AllCommands
  /\ GateStates \subseteq AllGates

VARIABLES
  \* SQLite: the inbox tables
  seq,        \* row number of each admitted message, 0 when there is no row
  lastSeq,    \* AUTOINCREMENT counter of followup_messages
  body,       \* content the digest of the row was taken from
  batchOf,    \* the batch_id column
  removed,    \* followup_removals
  receipts,   \* followup_receipts: the command each key was used for
  paused,     \* followup_inboxes.paused
  state,      \* followup_batches.state, "none" when there is no row
  blocked,    \* batches whose blocked_reason is set
  turnOf,     \* followup_batches.provider_turn_id
  \* SQLite: the session tables a delivery writes
  accepted,   \* accepted_owner_prompts: "none", "pending" or "settled"
  queue,      \* session_prompt_queues: the visible queue, oldest first
  gate,       \* authority the inbox depends on (see AllGates)
  \* the runtime process
  step,       \* "down", "idle", or how far a tick got with its batch
  cur,        \* the batch the tick carries
  outgoing,   \* the tick's effects hold a StartTurn for it
  engine,     \* "absent", "resuming" or "live": the session in this process
  connected,  \* the provider connection is ready
  starting,   \* prompt sent to the provider and not yet started
  active,     \* provider turn that runs
  cancelling, \* an interrupt of the active turn is in flight
  replay,     \* prompt held back for an explicit retry (replay_blocked_prompt)
  transcript, \* prompts with a user row in the live transcript
  \* the provider, and history
  inflight,   \* [stage, prompt, turn]: the provider's side of the turn
  ran,        \* the prompt each provider turn was opened for
  sends,      \* StartTurn commands the tick issued for each batch
  faults      \* crashes, disconnects and failed writes so far

store    == <<seq, lastSeq, body, batchOf, removed, receipts, paused>>
ledger   == <<state, blocked, turnOf>>
tick     == <<step, cur, outgoing>>
session  == <<starting, active, cancelling, replay, transcript>>
link     == <<engine, connected>>
provider == <<inflight, ran>>
vars == <<store, ledger, accepted, queue, gate, tick, session, link,
          provider, sends, faults>>

Idle == [stage |-> "none", prompt |-> None, turn |-> None]
Sent(p) == [stage |-> "sent", prompt |-> p, turn |-> None]

Flights == [stage : {"none", "resume", "sent", "accepted", "started"},
            prompt : Prompts \cup {None}, turn : TurnIds \cup {None}]

StoreOK ==
  /\ seq \in [Messages -> Nat] /\ lastSeq \in Nat
  /\ body \in [Messages -> Bodies \cup {None}]
  /\ batchOf \in [Messages -> Batches \cup {None}]
  /\ removed \subseteq Messages
  /\ receipts \in [Keys -> AllCommands \cup {None}]
  /\ paused \in BOOLEAN

LedgerOK ==
  /\ state \in [Batches -> {"none", "claimed", "dispatching", "consumed"}]
  /\ blocked \subseteq Batches
  /\ turnOf \in [Batches -> TurnIds \cup {None}]
  /\ accepted \in [Prompts -> {"none", "pending", "settled"}]
  /\ queue \in Seq(OwnerPrompts)
  /\ gate \in AllGates

RuntimeOK ==
  /\ step \in {"down", "idle", "claimed", "persisted", "fenced"}
  /\ cur \in IF step \in {"claimed", "persisted", "fenced"} THEN Batches ELSE {None}
  /\ outgoing \in BOOLEAN
  /\ engine \in {"absent", "resuming", "live"} /\ connected \in BOOLEAN
  /\ starting \in Prompts \cup {None} /\ active \in TurnIds \cup {None}
  /\ cancelling \in BOOLEAN
  /\ replay \in Prompts \cup {None} /\ transcript \subseteq Prompts

ProviderOK ==
  /\ inflight \in Flights
  /\ ran \in [TurnIds -> Prompts \cup {None}]
  /\ sends \in [Batches -> Nat] /\ faults \in Nat

\* Every table and every field of the runtime holds a value of its kind.
TypeOK == StoreOK /\ LedgerOK /\ RuntimeOK /\ ProviderOK

Init ==
  /\ seq = [m \in Messages |-> 0] /\ lastSeq = 0
  /\ body = [m \in Messages |-> None]
  /\ batchOf = [m \in Messages |-> None]
  /\ removed = {} /\ receipts = [k \in Keys |-> None] /\ paused = FALSE
  /\ state = [b \in Batches |-> "none"] /\ blocked = {}
  /\ turnOf = [b \in Batches |-> None]
  /\ accepted = [p \in Prompts |-> "none"] /\ queue = <<>> /\ gate = "open"
  /\ step = "idle" /\ cur = None /\ outgoing = FALSE
  /\ engine = "live" /\ connected = TRUE
  /\ starting = None /\ active = None /\ cancelling = FALSE
  /\ replay = None /\ transcript = {}
  /\ inflight = Idle /\ ran = [t \in TurnIds |-> None]
  /\ sends = [b \in Batches |-> 0] /\ faults = 0

-----------------------------------------------------------------------------
(* State the guards read. *)

Admitted    == {m \in Messages : seq[m] # 0}
Consumed(m) == batchOf[m] # None /\ state[batchOf[m]] = "consumed"
Pending     == {m \in Admitted : batchOf[m] = None /\ m \notin removed}
Outstanding == {m \in Admitted : m \notin removed /\ ~Consumed(m)}
Unsettled   == {b \in Batches : state[b] \in {"claimed", "dispatching"}}
Claimable   == {b \in Batches : state[b] = "claimed" /\ b \notin blocked}

HasWork == starting # None \/ active # None \/ engine = "resuming"
Busy    == replay # None \/ HasWork

\* A fault the bound still allows.
Fault == faults < MaxFaults /\ faults' = faults + 1

-----------------------------------------------------------------------------
(* Producers: one command is one IMMEDIATE transaction, run by the actor    *)
(* between ticks.  A key already on record replays its receipt (or refuses  *)
(* a different command) and changes nothing, so only fresh keys act here.   *)

\* Mutant: the receipt of a key is not looked up.
AcceptsAnyKey(k, c) == step = "idle" /\ c \in Commands

Accepts(k, c) == step = "idle" /\ c \in Commands /\ receipts[k] = None
Receipt(k, c) == receipts' = [receipts EXCEPT ![k] = c]

\* Mutant: sequences numbered by the rows left.
AdmitByCount(k, m, b) ==
  /\ Accepts(k, Enqueue(m, b)) /\ engine # "absent" /\ gate # "closed"
  /\ seq[m] = 0 /\ Cardinality(Outstanding) < Capacity
  /\ seq' = [seq EXCEPT ![m] = Cardinality(Outstanding) + 1]
  /\ body' = [body EXCEPT ![m] = b]
  /\ Receipt(k, Enqueue(m, b))
  /\ UNCHANGED <<lastSeq, batchOf, removed, paused, ledger, accepted, queue, gate,
                 tick, session, link, provider, sends, faults>>

Admit(k, m, b) ==
  /\ Accepts(k, Enqueue(m, b)) /\ engine # "absent" /\ gate # "closed"
  /\ seq[m] = 0 /\ Cardinality(Outstanding) < Capacity
  /\ lastSeq' = lastSeq + 1
  /\ seq' = [seq EXCEPT ![m] = lastSeq + 1]
  /\ body' = [body EXCEPT ![m] = b]
  /\ Receipt(k, Enqueue(m, b))
  /\ UNCHANGED <<batchOf, removed, paused, ledger, accepted, queue, gate, tick,
                 session, link, provider, sends, faults>>

\* Mutant: the retry replaces the row.
ReadmitReplaces(k, m, b) ==
  /\ Accepts(k, Enqueue(m, b)) /\ engine # "absent" /\ gate # "closed"
  /\ seq[m] # 0
  /\ body' = [body EXCEPT ![m] = b]
  /\ Receipt(k, Enqueue(m, b))
  /\ UNCHANGED <<seq, lastSeq, batchOf, removed, paused, ledger, accepted,
                 queue, gate, tick, session, link, provider, sends, faults>>

\* The same message under a new key: the row stays as it is, the key is spent.
Readmit(k, m, b) ==
  /\ Accepts(k, Enqueue(m, b)) /\ engine # "absent" /\ gate # "closed"
  /\ seq[m] # 0 /\ body[m] = b
  /\ Receipt(k, Enqueue(m, b))
  /\ UNCHANGED <<seq, lastSeq, body, batchOf, removed, paused, ledger, accepted,
                 queue, gate, tick, session, link, provider, sends, faults>>

\* Mutant: removal does not ask for the batch of the message.
RemoveClaimed(k, m) ==
  /\ Accepts(k, Remove(m)) /\ seq[m] # 0
  /\ removed' = removed \cup {m}
  /\ Receipt(k, Remove(m))
  /\ UNCHANGED <<seq, lastSeq, body, batchOf, paused, ledger, accepted, queue,
                 gate, tick, session, link, provider, sends, faults>>

\* Removal needs no loaded session; it refuses a message any batch holds.
RemoveFollowup(k, m) ==
  /\ Accepts(k, Remove(m))
  /\ seq[m] # 0 /\ batchOf[m] = None
  /\ removed' = removed \cup {m}
  /\ Receipt(k, Remove(m))
  /\ UNCHANGED <<seq, lastSeq, body, batchOf, paused, ledger, accepted, queue,
                 gate, tick, session, link, provider, sends, faults>>

\* Resume also clears the reason of a blocked claim, never a dispatched batch.
SetFollowupPaused(k, v) ==
  /\ Accepts(k, SetPaused(v)) /\ engine # "absent" /\ gate # "closed"
  /\ paused' = v
  /\ blocked' = IF v THEN blocked
                ELSE {b \in blocked : state[b] # "claimed"}
  /\ Receipt(k, SetPaused(v))
  /\ UNCHANGED <<seq, lastSeq, body, batchOf, removed, state, turnOf, accepted,
                 queue, gate, tick, session, link, provider, sends, faults>>

-----------------------------------------------------------------------------
(* The tick: claim, submit and persist, fence, hand to the provider.        *)

\* Mutants: the visible queue, or the pause, is not consulted.
ReadyBesideQueue == engine = "live" /\ connected /\ ~Busy
Ready == engine = "live" /\ connected /\ ~Busy /\ queue = <<>>
MayClaimPaused == step = "idle" /\ Ready /\ gate = "open"

MayClaim == step = "idle" /\ Ready /\ gate = "open" /\ ~paused

\* An earlier claim is taken up exactly as it was made.
Reclaim(b) ==
  /\ MayClaim /\ b \in Claimable
  /\ step' = "claimed" /\ cur' = b
  /\ UNCHANGED <<store, ledger, accepted, queue, gate, outgoing, session, link,
                 provider, sends, faults>>

Upto(m) == {n \in Pending : seq[n] <= seq[m]}

\* Otherwise the oldest pending messages up to one of them form a new batch.
\* How many fit is decided by their sizes; BatchLimit bounds the read.
Claim(b, m) ==
  /\ MayClaim /\ Unsettled = {} /\ state[b] = "none"
  /\ m \in Pending /\ Cardinality(Upto(m)) <= BatchLimit
  /\ batchOf' = [n \in Messages |-> IF n \in Upto(m) THEN b ELSE batchOf[n]]
  /\ state' = [state EXCEPT ![b] = "claimed"]
  /\ step' = "claimed" /\ cur' = b
  /\ UNCHANGED <<seq, lastSeq, body, removed, receipts, paused, blocked, turnOf,
                 accepted, queue, gate, outgoing, session, link, provider,
                 sends, faults>>

\* The reducer starts the prompt and its owner row is persisted, never as
\* replayable: "the ledger, not the owner-prompt replay bit, owns recovery".
Submit ==
  /\ step = "claimed" /\ cur \notin transcript
  /\ starting' = cur /\ transcript' = transcript \cup {cur}
  /\ accepted' = [accepted EXCEPT ![cur] = IF @ = "none" THEN "settled" ELSE @]
  /\ step' = "persisted" /\ outgoing' = TRUE
  /\ UNCHANGED <<store, ledger, queue, gate, cur, active, cancelling, replay,
                 link, provider, sends, faults>>

\* A prompt whose identity and text already have a user row counts as settled:
\* submit_prompt returns success without a single effect.
SubmitSuppressed ==
  /\ step = "claimed" /\ cur \in transcript
  /\ step' = "persisted" /\ outgoing' = FALSE
  /\ UNCHANGED <<store, ledger, accepted, queue, gate, cur, session, link,
                 provider, sends, faults>>

\* The reducer or the store refuses: the core is restored, the claim blocked.
SubmitRefused ==
  /\ step = "claimed" /\ Fault
  /\ blocked' = blocked \cup {cur}
  /\ step' = "idle" /\ cur' = None
  /\ UNCHANGED <<store, state, turnOf, accepted, queue, gate, outgoing, session,
                 link, provider, sends>>

\* Mutant: the fence writes a state the table does not know.
FenceUnknown ==
  /\ step = "persisted" /\ state[cur] = "claimed" /\ cur \notin blocked
  /\ state' = [state EXCEPT ![cur] = "dispatched"]
  /\ step' = "fenced"
  /\ UNCHANGED <<store, blocked, turnOf, accepted, queue, gate, cur, outgoing,
                 session, link, provider, sends, faults>>

FenceDispatch ==
  /\ step = "persisted" /\ state[cur] = "claimed" /\ cur \notin blocked
  /\ state' = [state EXCEPT ![cur] = "dispatching"]
  /\ step' = "fenced"
  /\ UNCHANGED <<store, blocked, turnOf, accepted, queue, gate, cur, outgoing,
                 session, link, provider, sends, faults>>

\* Mutant: the core is restored, but the loop goes on to the effects.
FenceFailedGoesOn ==
  /\ step = "persisted" /\ Fault
  /\ step' = "fenced" /\ starting' = None
  /\ transcript' = IF outgoing THEN transcript \ {cur} ELSE transcript
  /\ UNCHANGED <<store, ledger, accepted, queue, gate, cur, outgoing, active,
                 cancelling, replay, link, provider, sends>>

\* The fence could not be written: the core returns to its checkpoint.
FenceFailed ==
  /\ step = "persisted" /\ Fault
  /\ step' = "idle" /\ cur' = None /\ outgoing' = FALSE
  /\ starting' = None
  /\ transcript' = IF outgoing THEN transcript \ {cur} ELSE transcript
  /\ UNCHANGED <<store, ledger, accepted, queue, gate, active, cancelling,
                 replay, link, provider, sends>>

\* The effects run: a StartTurn leaves for the provider if there is one.
ExecuteEffects ==
  /\ step = "fenced"
  /\ IF outgoing
     THEN /\ inflight' = Sent(cur)
          /\ sends' = [sends EXCEPT ![cur] = @ + 1]
     ELSE UNCHANGED <<inflight, sends>>
  /\ step' = "idle" /\ cur' = None /\ outgoing' = FALSE
  /\ UNCHANGED <<store, ledger, accepted, queue, gate, session, link, ran,
                 faults>>

-----------------------------------------------------------------------------
(* Ordinary prompts, Stop and Steer.                                        *)

\* begin_prompt for an ordinary prompt: replayable until its turn has started.
StartOwner(p) ==
  /\ starting' = p /\ transcript' = transcript \cup {p}
  /\ inflight' = Sent(p)
  /\ accepted' = [accepted EXCEPT ![p] = IF @ = "none" THEN "pending" ELSE @]

Known(p) == p \in transcript \/ accepted[p] # "none"
              \/ \E i \in DOMAIN queue : queue[i] = p

SendPrompt(p) ==
  /\ step = "idle" /\ engine = "live" /\ connected /\ ~Busy /\ ~Known(p)
  /\ StartOwner(p)
  /\ UNCHANGED <<store, ledger, queue, gate, tick, active, cancelling, replay,
                 link, ran, sends, faults>>

EnqueuePrompt(p) ==
  /\ step = "idle" /\ engine # "absent" /\ Busy /\ ~Known(p)
  /\ queue' = Append(queue, p)
  /\ UNCHANGED <<store, ledger, accepted, gate, tick, session, link, provider,
                 sends, faults>>

\* drain_queue: the head of q starts when the reducer has become idle.
DrainQueue(q) ==
  IF q # <<>> /\ connected /\ replay = None
  THEN StartOwner(Head(q)) /\ queue' = Tail(q)
  ELSE /\ queue' = q /\ starting' = None /\ inflight' = Idle
       /\ UNCHANGED <<accepted, transcript>>

RemoveQueuedPrompt(p) ==
  /\ step = "idle" /\ engine # "absent"
  /\ \E i \in DOMAIN queue :
       /\ queue[i] = p
       /\ LET q == SubSeq(queue, 1, i - 1) \o SubSeq(queue, i + 1, Len(queue))
          IN IF Busy
             THEN queue' = q /\ UNCHANGED <<accepted, starting, transcript, inflight>>
             ELSE DrainQueue(q)
  /\ UNCHANGED <<store, ledger, gate, tick, active, cancelling, replay, link,
                 ran, sends, faults>>

\* The owner resends, under its identity, the prompt the provider turned down.
RetryBlockedPrompt ==
  /\ step = "idle" /\ engine = "live" /\ connected /\ replay # None /\ ~HasWork
  /\ StartOwner(replay) /\ replay' = None
  /\ UNCHANGED <<store, ledger, queue, gate, tick, active, cancelling, link,
                 ran, sends, faults>>

\* Stop: refused while an interrupt is in flight, else it pauses the inbox.
Stop ==
  /\ step = "idle" /\ engine # "absent" /\ ~cancelling
  /\ paused' = TRUE /\ cancelling' = (active # None)
  /\ UNCHANGED <<seq, lastSeq, body, batchOf, removed, receipts, ledger,
                 accepted, queue, gate, tick, starting, active, replay,
                 transcript, link, provider, sends, faults>>

\* Mutant: an open batch does not refuse the steer.
SteerableAnyBatch == gate = "open" /\ ~paused /\ (Unsettled # {} \/ Pending # {})

Steerable ==
  /\ gate = "open" /\ ~paused
  /\ \/ Unsettled \subseteq Claimable /\ Unsettled # {}
     \/ Unsettled = {} /\ Pending # {}

\* Steer: check_steerable and the interrupt run in the same actor turn.
SteerFollowups ==
  /\ step = "idle" /\ engine = "live" /\ active # None /\ ~cancelling
  /\ Steerable
  /\ cancelling' = TRUE
  /\ UNCHANGED <<store, ledger, accepted, queue, gate, tick, starting, active,
                 replay, transcript, link, provider, sends, faults>>

-----------------------------------------------------------------------------
(* Events of the provider, each handled whole by handle_backend_event: the  *)
(* ledger first, then the reducer, then the effects it returns.             *)

Hears == step = "idle" /\ engine = "live" /\ connected

\* observe_accepted: the turn id the provider chose is tied to the batch that
\* waits for acceptance, unless another turn is already on record.
Correlates(b, t) == b \in Batches /\ state[b] = "dispatching" /\ turnOf[b] \in {None, t}

TurnAccepted(t) ==
  /\ Hears /\ inflight.stage = "sent"
  /\ IF Echo THEN t = inflight.prompt ELSE t \in Turns /\ ran[t] = None
  /\ inflight' = [inflight EXCEPT !.stage = "accepted", !.turn = t]
  /\ ran' = [ran EXCEPT ![t] = inflight.prompt]
  /\ IF Correlates(starting, t)
     THEN \/ turnOf' = [turnOf EXCEPT ![starting] = t] /\ UNCHANGED faults
          \/ Fault /\ UNCHANGED turnOf
     ELSE UNCHANGED <<turnOf, faults>>
  /\ UNCHANGED <<store, state, blocked, accepted, queue, gate, tick, session,
                 link, sends>>

\* Mutant: any turn consumes the dispatching batch.
CarriesAny(t) == {b \in Batches : state[b] = "dispatching"}

\* acknowledge: a started or completed turn consumes the batch it is known to
\* carry.  A failed write leaves the fence; a later event may acknowledge.
Carries(t) == {b \in Batches : state[b] = "dispatching" /\ t \in {b, turnOf[b]}}

Settle(t) ==
  /\ state' = [b \in Batches |-> IF b \in Carries(t) THEN "consumed" ELSE state[b]]
  /\ turnOf' = [b \in Batches |-> IF b \in Carries(t) THEN t ELSE turnOf[b]]
  /\ UNCHANGED blocked

Acknowledge(t) ==
  \/ Settle(t) /\ UNCHANGED faults
  \/ Carries(t) # {} /\ Fault /\ UNCHANGED ledger

TurnStarted ==
  /\ Hears /\ inflight.stage = "accepted"
  /\ \/ /\ Acknowledge(inflight.turn)
        /\ accepted' = [p \in Prompts |-> IF p = starting THEN "settled" ELSE accepted[p]]
        /\ UNCHANGED replay
     \/ \* The dispatch bit of an ordinary prompt cannot be cleared: it stays
        \* replayable, and is held at once if a resume had loaded its row.
        /\ starting # None /\ accepted[starting] = "pending" /\ Fault
        /\ replay' \in {replay, starting}
        /\ UNCHANGED <<ledger, accepted>>
  /\ inflight' = [inflight EXCEPT !.stage = "started"]
  /\ active' = inflight.turn /\ starting' = None /\ cancelling' = FALSE
  /\ UNCHANGED <<store, queue, gate, tick, transcript, link, ran, sends>>

\* A turn that ends, however it ends, frees the session for the queue.  Ended
\* before it was seen to start, its prompt stays replayable after a restart.
TurnCompleted ==
  /\ Hears /\ inflight.stage \in {"accepted", "started"}
  /\ Acknowledge(inflight.turn)
  /\ active' = None /\ cancelling' = FALSE
  /\ DrainQueue(queue)
  /\ UNCHANGED <<store, gate, replay, tick, link, ran, sends>>

\* The provider turns the prompt down before its turn starts: either the
\* request fails, or the accepted turn ends at once as failed.
TurnRejected ==
  /\ Hears /\ inflight.stage \in {"sent", "accepted"} /\ Fault
  /\ IF inflight.stage = "sent" THEN UNCHANGED ledger ELSE Settle(inflight.turn)
  /\ replay' = starting /\ starting' = None /\ inflight' = Idle
  /\ UNCHANGED <<store, accepted, queue, gate, tick, active, cancelling,
                 transcript, link, ran, sends>>

InterruptFailed ==
  /\ Hears /\ cancelling /\ cancelling' = FALSE
  /\ UNCHANGED <<store, ledger, accepted, queue, gate, tick, starting, active,
                 replay, transcript, link, provider, sends, faults>>

-----------------------------------------------------------------------------
(* Loss of the provider, of the runtime, and recovery.                      *)

\* Mutant: the lost turn stays active.
DisconnectKeepsTurn ==
  /\ step = "idle" /\ engine # "absent" /\ connected /\ Fault
  /\ connected' = FALSE
  /\ replay' = IF starting # None THEN starting ELSE replay
  /\ starting' = None /\ cancelling' = FALSE /\ inflight' = Idle
  /\ UNCHANGED <<store, ledger, accepted, queue, gate, tick, active, transcript,
                 engine, ran, sends>>

\* A resume that was in flight stays unanswered: nothing clears it.
Disconnect ==
  /\ step = "idle" /\ engine # "absent" /\ connected /\ Fault
  /\ connected' = FALSE
  /\ replay' = IF starting # None THEN starting ELSE replay
  /\ starting' = None /\ active' = None /\ cancelling' = FALSE
  /\ inflight' = Idle
  /\ UNCHANGED <<store, ledger, accepted, queue, gate, tick, transcript, engine,
                 ran, sends>>

Reconnect ==
  /\ step = "idle" /\ engine # "absent" /\ ~connected
  /\ connected' = TRUE
  /\ UNCHANGED <<store, ledger, accepted, queue, gate, tick, session, engine,
                 provider, sends, faults>>

\* Everything outside SQLite is gone, wherever the tick stood.
Crash ==
  /\ step # "down" /\ Fault
  /\ step' = "down" /\ cur' = None /\ outgoing' = FALSE
  /\ engine' = "absent" /\ connected' = FALSE
  /\ starting' = None /\ active' = None /\ cancelling' = FALSE
  /\ replay' = None /\ transcript' = {} /\ inflight' = Idle
  /\ UNCHANGED <<store, ledger, accepted, queue, gate, ran, sends>>

Restart ==
  /\ step = "down" /\ step' = "idle"
  /\ UNCHANGED <<store, ledger, accepted, queue, gate, cur, outgoing, session,
                 link, provider, sends, faults>>

\* An owner opens the session, or the tick does for an inbox that could deliver.
OpenSession ==
  /\ step = "idle" /\ engine = "absent"
  /\ engine' = "resuming" /\ connected' = TRUE
  /\ inflight' = [Idle EXCEPT !.stage = "resume"]
  /\ UNCHANGED <<store, ledger, accepted, queue, gate, tick, session, ran, sends,
                 faults>>

Deliverable == gate # "closed" /\ ~paused
\* Mutant: a claim without a pending message does not make a candidate.
CandidatePending == Pending # {}
Candidate   == Pending # {} \/ \E m \in Admitted : batchOf[m] \in Claimable
ReopenForInbox == Candidate /\ Deliverable /\ OpenSession

\* The transcript is rebuilt from the accepted owner prompts.  Those whose
\* dispatch is pending are sent again; with two, the second is held back.
Resumed ==
  /\ step = "idle" /\ engine = "resuming" /\ connected
  /\ inflight.stage = "resume"
  /\ engine' = "live"
  /\ LET rows    == {p \in Prompts : accepted[p] # "none"}
         replays == {p \in Prompts : accepted[p] = "pending"}
     IN \/ \E p \in replays :
             /\ starting' = p /\ transcript' = rows /\ inflight' = Sent(p)
             /\ replay' \in IF replays = {p} THEN {None} ELSE replays \ {p}
             /\ UNCHANGED <<accepted, queue>>
        \/ /\ replays = {} /\ replay' = None
           /\ IF queue # <<>>
              THEN /\ starting' = Head(queue) /\ queue' = Tail(queue)
                   /\ transcript' = rows \cup {Head(queue)}
                   /\ inflight' = Sent(Head(queue))
                   /\ accepted' = [accepted EXCEPT ![Head(queue)] =
                                     IF @ = "none" THEN "pending" ELSE @]
              ELSE /\ transcript' = rows /\ inflight' = Idle
                   /\ UNCHANGED <<starting, accepted, queue>>
  /\ UNCHANGED <<store, ledger, gate, tick, active, cancelling, connected, ran,
                 sends, faults>>

\* A bridge closes or opens, child evidence is transferred or withdrawn.
GateChanges(g) ==
  /\ g \in GateStates \ {gate} /\ gate' = g
  /\ UNCHANGED <<store, ledger, accepted, queue, tick, session, link, provider,
                 sends, faults>>

-----------------------------------------------------------------------------
Produce ==
  \E k \in Keys :
    \/ \E m \in Messages, b \in Bodies : Admit(k, m, b) \/ Readmit(k, m, b)
    \/ \E m \in Messages : RemoveFollowup(k, m)
    \/ \E v \in BOOLEAN : SetFollowupPaused(k, v)

Tick ==
  \/ \E b \in Batches : Reclaim(b) \/ \E m \in Messages : Claim(b, m)
  \/ Submit \/ SubmitSuppressed \/ SubmitRefused
  \/ FenceDispatch \/ FenceFailed \/ ExecuteEffects

Owner ==
  \/ \E p \in OwnerPrompts : SendPrompt(p) \/ EnqueuePrompt(p) \/ RemoveQueuedPrompt(p)
  \/ RetryBlockedPrompt \/ Stop \/ SteerFollowups

Answers == (\E t \in TurnIds : TurnAccepted(t)) \/ TurnStarted \/ TurnCompleted

Provider == Answers \/ TurnRejected \/ InterruptFailed \/ Disconnect \/ Reconnect

Recover == Crash \/ Restart \/ OpenSession \/ ReopenForInbox \/ Resumed

Next == Produce \/ Tick \/ Owner \/ Provider \/ Recover
          \/ \E g \in GateStates : GateChanges(g)

Spec == Init /\ [][Next]_vars

\* The ticker, the retry of a reopen and the provider keep going; producers,
\* owners and the outside world owe nothing, and a lost provider may stay lost.
FairSpec ==
  /\ Spec
  /\ WF_vars(Tick) /\ WF_vars(Answers)
  /\ WF_vars(Restart) /\ WF_vars(ReopenForInbox) /\ WF_vars(Resumed)
-----------------------------------------------------------------------------
(* Safety. *)

\* claim: a new batch is made only when none is claimed or dispatching.  With
\* two, the prefix order of the inbox and acknowledgement by turn would break.
OneUnsettled == \A a, b \in Unsettled : a = b

\* fence_dispatch "must commit before ANY provider dispatch": through crashes
\* between any two transactions the tick sends a batch to a provider once.
NoAutomaticResend == \A b \in Batches : sends[b] <= 1

\* Together: one batch at a time is on its way, and it goes out once.
AtMostOnce == OneUnsettled /\ NoAutomaticResend

\* acknowledge: a batch is consumed only by a turn the provider opened for it,
\* never by a turn of the owner or of another batch that ran meanwhile.
ConsumedByItsOwnTurn ==
  \A b \in Batches : state[b] = "consumed" => ran[turnOf[b]] = b

\* remove_followup: what a producer withdrew reaches no batch.
RemovedNeverTaken == \A m \in removed : batchOf[m] = None

\* The fence and the session agree: while a tick carries a batch past its
\* fence, no other turn runs, nothing waits in the visible queue, and Stop has
\* not paused the inbox since the claim.
TickHasTheSession ==
  step \in {"claimed", "persisted", "fenced"} =>
    /\ inflight = Idle /\ active = None /\ replay = None /\ queue = <<>>
    /\ ~paused /\ engine = "live" /\ connected

\* The reducer follows the provider: the prompt it calls starting is the one
\* sent, the turn it calls active is the one that runs, and an idle reducer
\* has no turn at the provider.
SessionTracksProvider ==
  step = "idle" =>
    /\ starting = IF inflight.stage \in {"sent", "accepted"} THEN inflight.prompt ELSE None
    /\ active = IF inflight.stage = "started" THEN inflight.turn ELSE None
    /\ cancelling => active # None

\* "A recoverable un-dispatched claim is reconstructed exactly"
\* (docs/followup-inbox.md): a claim that is fenced is then handed over.
ReconstructedClaimIsSent == step = "fenced" => outgoing

-----------------------------------------------------------------------------
(* What a step may never do. *)

\* "No arrival can join it after the commit": the members of a batch are fixed
\* when it is claimed, through every reconstruction.
BatchIsFrozen ==
  [][\A b \in Batches : state[b] # "none" =>
       {m \in Messages : batchOf'[m] = b} = {m \in Messages : batchOf[m] = b}]_vars

\* A batch only moves forward; what is dispatching or consumed is never
\* claimable again, whatever Resume, Stop or a restart do.
Rank(s) == CASE s = "none" -> 0 [] s = "claimed" -> 1
             [] s = "dispatching" -> 2 [] s = "consumed" -> 3
BatchMovesForward ==
  [][\A b \in Batches : Rank(state'[b]) \in {Rank(state[b]), Rank(state[b]) + 1}]_vars

\* A message admitted once keeps its place and its content, under retries with
\* the same key or a fresh one.
AdmissionIsStable ==
  [][\A m \in Admitted : seq'[m] = seq[m] /\ body'[m] = body[m]]_vars

\* Receipts: only a Resume never seen before lifts a pause, so the retry of an
\* old Resume does not undo a later Stop.
ResumeOnlyByFreshKey ==
  [][paused /\ ~paused' =>
       \E k \in Keys : receipts[k] = None /\ receipts'[k] = SetPaused(FALSE)]_vars

\* check_steerable: "never interrupts the very turn delivering" a batch.
SteerSparesDelivery ==
  [][~cancelling /\ cancelling' /\ ~paused' =>
       \A b \in Batches : state[b] = "dispatching" => ran[active] # b]_vars

\* Stop: the provider is handed no batch while the inbox is paused.
StopHoldsDelivery == [][paused => sends' = sends]_vars

-----------------------------------------------------------------------------
(* Liveness, and the promise to producers. *)

Uncertain == \E b \in Batches : state[b] = "dispatching" /\ inflight.prompt # b

\* Everything that may keep a message waiting: a pause, a lost authority, a
\* prompt held for the owner's retry, a provider that is gone (or was lost
\* during a resume, or left a queue behind), an uncertain or a blocked batch.
Held ==
  \/ paused \/ gate # "open" \/ replay # None
  \/ engine # "absent" /\ ~connected
  \/ engine = "resuming" /\ inflight.stage # "resume"
  \/ engine = "live" /\ queue # <<>> /\ ~Busy
  \/ Uncertain /\ step = "idle"
  \/ blocked \cap Unsettled # {}

\* The ticker and the reopen of unloaded sessions: unless one of the holds
\* comes back for ever, every message that waits is delivered or removed.
EventuallyDelivered ==
  <>[]~Held => \A m \in Messages : m \in Pending ~> (Consumed(m) \/ m \in removed)

Fate(m) ==
  IF seq[m] = 0 THEN "absent"
  ELSE IF m \in removed THEN "withdrawn"
  ELSE IF batchOf[m] = None THEN "waiting"
  ELSE CASE state[batchOf[m]] = "claimed" -> "held"
         [] state[batchOf[m]] = "dispatching" -> "offered"
         [] state[batchOf[m]] = "consumed" -> "delivered"

Promise == INSTANCE InboxDelivery WITH
             place <- seq, fate <- [m \in Messages |-> Fate(m)]

\* Batches, receipts, turns, crashes and recovery implement the plain promise.
KeepsPromise == Promise!Spec

=============================================================================
