------------------------ MODULE FollowupInboxSafety ------------------------
(***************************************************************************)
(* The ledger of batches is safe in every inbox: whatever the identities,  *)
(* the limits, the provider and the number of faults, a batch is alone     *)
(* until it is settled, is frozen when it is claimed, only moves forward   *)
(* and is sent at most once, and a withdrawn message is in no batch.  With *)
(* the places of the messages it is the plain queue of InboxDelivery.      *)
(***************************************************************************)
EXTENDS FollowupInboxProofs

\* What most steps leave alone.
ledgerView == <<state, batchOf, removed, sends, step, cur>>

\* A turn of the provider settles the batch it carries.
Settling == /\ step = "idle" /\ \E t \in TurnIds \cup {None} : Settle(t)
            /\ UNCHANGED <<batchOf, removed, sends, step, cur>>

\* The only steps that touch the view: a removal, the tick, an acknowledgement,
\* the loss of the runtime and its return.
LEMMA LedgerSteps ==
  ASSUME TypeOK, [Next]_vars
  PROVE  \/ UNCHANGED ledgerView
         \/ \E k \in Keys, m \in Messages : RemoveFollowup(k, m)
         \/ Tick \/ Settling \/ Crash \/ Restart
<1> USE DEF ledgerView
<1>0. inflight.turn \in TurnIds \cup {None}
  BY DEF TypeOK, ProviderOK, Flights
<1>1. ASSUME NEW k \in Keys, NEW m \in Messages, NEW b \in Bodies,
             Admit(k, m, b) \/ Readmit(k, m, b)
      PROVE  UNCHANGED ledgerView
  BY <1>1 DEF Admit, Readmit, ledger, tick
<1>2. ASSUME NEW k \in Keys, NEW v \in BOOLEAN, SetFollowupPaused(k, v)
      PROVE  UNCHANGED ledgerView
  BY <1>2 DEF SetFollowupPaused, tick
<1>3. ASSUME Owner PROVE UNCHANGED ledgerView
  <2>1. ASSUME NEW p \in OwnerPrompts, SendPrompt(p) PROVE UNCHANGED ledgerView
    BY <2>1 DEF SendPrompt, store, ledger, tick
  <2>2. ASSUME NEW p \in OwnerPrompts, EnqueuePrompt(p)
        PROVE  UNCHANGED ledgerView
    BY <2>2 DEF EnqueuePrompt, store, ledger, tick
  <2>3. ASSUME NEW p \in OwnerPrompts, RemoveQueuedPrompt(p)
        PROVE  UNCHANGED ledgerView
    BY <2>3 DEF RemoveQueuedPrompt, store, ledger, tick
  <2>4. CASE RetryBlockedPrompt
    BY <2>4 DEF RetryBlockedPrompt, store, ledger, tick
  <2>5. CASE Stop \/ SteerFollowups
    BY <2>5 DEF Stop, SteerFollowups, store, ledger, tick
  <2> QED BY <1>3, <2>1, <2>2, <2>3, <2>4, <2>5 DEF Owner
<1>4. ASSUME Provider PROVE UNCHANGED ledgerView \/ Settling
  <2>1. ASSUME NEW t \in TurnIds, TurnAccepted(t) PROVE UNCHANGED ledgerView
    BY <2>1 DEF TurnAccepted, store, tick
  <2>2. ASSUME TurnStarted \/ TurnCompleted
        PROVE  UNCHANGED ledgerView \/ Settling
    <3>1. step = "idle" /\ UNCHANGED <<store, tick, sends>>
      BY <2>2 DEF TurnStarted, TurnCompleted, Hears
    <3>2. Acknowledge(inflight.turn) \/ UNCHANGED ledger
      BY <2>2 DEF TurnStarted, TurnCompleted
    <3> QED BY <1>0, <3>1, <3>2 DEF Settling, Acknowledge, store, ledger, tick
  <2>3. CASE TurnRejected
    <3>1. step = "idle" /\ UNCHANGED <<store, tick, sends>>
      BY <2>3 DEF TurnRejected, Hears
    <3>2. Settle(inflight.turn) \/ UNCHANGED ledger
      BY <2>3 DEF TurnRejected
    <3> QED BY <1>0, <3>1, <3>2 DEF Settling, store, ledger, tick
  <2>4. CASE InterruptFailed \/ Disconnect \/ Reconnect
    BY <2>4 DEF InterruptFailed, Disconnect, Reconnect, store, ledger, tick
  <2> QED BY <1>4, <2>1, <2>2, <2>3, <2>4 DEF Provider, Answers
<1>5. ASSUME OpenSession \/ ReopenForInbox \/ Resumed PROVE UNCHANGED ledgerView
  BY <1>5 DEF OpenSession, ReopenForInbox, Resumed, store, ledger, tick
<1>6. ASSUME NEW g \in GateStates, GateChanges(g) PROVE UNCHANGED ledgerView
  BY <1>6 DEF GateChanges, store, ledger, tick
<1>7. ASSUME UNCHANGED vars PROVE UNCHANGED ledgerView
  BY <1>7 DEF vars, store, ledger, tick
<1> QED
  BY <1>1, <1>2, <1>3, <1>4, <1>5, <1>6, <1>7 DEF Next, Produce, Recover

-----------------------------------------------------------------------------
(* A tick and the batch it carries. *)

\* What the tick knows of its batch: claimed until the fence, and dispatching
\* and still unsent between the fence and the provider command.  A batch that
\* was never fenced was never sent.
TickInv ==
  /\ step \in {"claimed", "persisted"} => state[cur] = "claimed"
  /\ step = "fenced" => state[cur] = "dispatching" /\ sends[cur] = 0
  /\ \A b \in Batches : state[b] \in {"none", "claimed"} => sends[b] = 0

SendInv == TickInv /\ OneUnsettled /\ NoAutomaticResend

\* Every step keeps the tick's claim, the single open batch and its single send:
\* the count of sends grows only from the fence that commits before it.
LEMMA SendStep ==
  ASSUME TypeOK, SendInv, [Next]_vars
  PROVE  SendInv'
<1> USE DEF SendInv, TickInv, OneUnsettled, NoAutomaticResend, Unsettled
<1>0. /\ state \in [Batches -> {"none", "claimed", "dispatching", "consumed"}]
      /\ sends \in [Batches -> Nat]
      /\ step \in {"claimed", "persisted", "fenced"} => cur \in Batches
  BY DEF TypeOK, LedgerOK, RuntimeOK, ProviderOK
<1>1. CASE UNCHANGED ledgerView
  BY <1>1 DEF ledgerView
<1>2. ASSUME NEW k \in Keys, NEW m \in Messages, RemoveFollowup(k, m)
      PROVE  SendInv'
  BY <1>2 DEF RemoveFollowup, ledger, tick
<1>3. ASSUME Tick PROVE SendInv'
  <2>1. ASSUME NEW b \in Batches, Reclaim(b) PROVE SendInv'
    BY <1>0, <2>1 DEF Reclaim, Claimable, store, ledger
  <2>2. ASSUME NEW b \in Batches, NEW m \in Messages, Claim(b, m) PROVE SendInv'
    BY <1>0, <2>2 DEF Claim
  <2>3. CASE Submit \/ SubmitSuppressed
    BY <2>3 DEF Submit, SubmitSuppressed, ledger
  <2>4. CASE SubmitRefused \/ FenceFailed
    BY <2>4 DEF SubmitRefused, FenceFailed, ledger
  <2>5. CASE FenceDispatch
    BY <1>0, <2>5 DEF FenceDispatch
  <2>6. CASE ExecuteEffects
    BY <1>0, <2>6 DEF ExecuteEffects, ledger
  <2> QED BY <1>3, <2>1, <2>2, <2>3, <2>4, <2>5, <2>6 DEF Tick
<1>4. CASE Settling
  BY <1>0, <1>4 DEF Settling, Settle, Carries
<1>5. CASE Crash \/ Restart
  BY <1>5 DEF Crash, Restart, ledger
<1> QED BY LedgerSteps, <1>1, <1>2, <1>3, <1>4, <1>5

\* The three hold in every state of every behaviour.
LEMMA SendAlways == Spec => []SendInv
<1>1. Init => SendInv
  BY DEF Init, SendInv, TickInv, OneUnsettled, NoAutomaticResend, Unsettled
<1> QED BY <1>1, SendStep, TypeCorrect, PTL DEF Spec

\* OneUnsettled: two batches are never open together, so a turn of the
\* provider has at most one batch to acknowledge.
THEOREM OneUnsettledAlways == Spec => []OneUnsettled
BY SendAlways, PTL DEF SendInv

\* NoAutomaticResend: the fence commits before the provider command, so no
\* crash, restart, Resume or failed write makes the tick send a batch again.
THEOREM NoResendAlways == Spec => []NoAutomaticResend
BY SendAlways, PTL DEF SendInv

-----------------------------------------------------------------------------
(* The members of a batch. *)

\* No step puts a removed message into a batch or removes one that is in a batch.
LEMMA RemovedStep ==
  ASSUME TypeOK, RemovedNeverTaken, [Next]_vars
  PROVE  RemovedNeverTaken'
<1> USE DEF RemovedNeverTaken
<1>1. CASE UNCHANGED ledgerView
  BY <1>1 DEF ledgerView
<1>2. ASSUME NEW k \in Keys, NEW m \in Messages, RemoveFollowup(k, m)
      PROVE  RemovedNeverTaken'
  BY <1>2 DEF RemoveFollowup
<1>3. ASSUME Tick PROVE RemovedNeverTaken'
  <2>1. ASSUME NEW b \in Batches, NEW m \in Messages, Claim(b, m)
        PROVE  RemovedNeverTaken'
    <3>1. removed' = removed
      BY <2>1 DEF Claim
    <3>2. batchOf' = [n \in Messages |-> IF n \in Upto(m) THEN b ELSE batchOf[n]]
      BY <2>1 DEF Claim
    <3>3. removed \subseteq Messages /\ Upto(m) \cap removed = {}
      BY DEF TypeOK, StoreOK, Upto, Pending
    <3> QED BY <3>1, <3>2, <3>3
  <2>2. ASSUME UNCHANGED store PROVE RemovedNeverTaken'
    BY <2>2 DEF store
  <2> QED
    BY <1>3, <2>1, <2>2 DEF Tick, Reclaim, Submit, SubmitSuppressed,
       SubmitRefused, FenceDispatch, FenceFailed, ExecuteEffects
<1>4. CASE Settling
  BY <1>4 DEF Settling
<1>5. CASE Crash \/ Restart
  BY <1>5 DEF Crash, Restart, store
<1> QED BY LedgerSteps, <1>1, <1>2, <1>3, <1>4, <1>5

\* RemovedNeverTaken: a message its producer withdrew is in no batch, in
\* whatever order the removal and the claims of the tick come.
THEOREM RemovedNeverTakenAlways == Spec => []RemovedNeverTaken
<1>1. Init => RemovedNeverTaken
  BY DEF Init, RemovedNeverTaken
<1> QED BY <1>1, RemovedStep, TypeCorrect, PTL DEF Spec

\* Only a claim writes batch_id, and it writes that of a batch with no row yet.
LEMMA FrozenStep ==
  ASSUME TypeOK, [Next]_vars, NEW b \in Batches, state[b] # "none"
  PROVE  {m \in Messages : batchOf'[m] = b} = {m \in Messages : batchOf[m] = b}
<1>1. CASE UNCHANGED batchOf
  BY <1>1
<1>2. ASSUME NEW c \in Batches, NEW m \in Messages, Claim(c, m)
      PROVE  {n \in Messages : batchOf'[n] = b} = {n \in Messages : batchOf[n] = b}
  <2>1. c # b /\ None \notin Batches
    BY <1>2, InboxAssumption DEF Claim, TurnIds, Prompts
  <2>2. batchOf' = [n \in Messages |-> IF n \in Upto(m) THEN c ELSE batchOf[n]]
    BY <1>2 DEF Claim
  <2>3. \A n \in Upto(m) : batchOf[n] = None
    BY DEF Upto, Pending
  <2> QED BY <2>1, <2>2, <2>3
<1>3. ASSUME Tick, ~UNCHANGED batchOf
      PROVE  \E c \in Batches, m \in Messages : Claim(c, m)
  BY <1>3 DEF Tick, Reclaim, Submit, SubmitSuppressed, SubmitRefused,
     FenceDispatch, FenceFailed, ExecuteEffects, store
<1> QED
  BY LedgerSteps, <1>1, <1>2, <1>3
     DEF ledgerView, RemoveFollowup, Settling, Crash, Restart, store

\* AtMostOnce: neither a claim beside an open batch nor a repeated dispatch.
THEOREM AtMostOnceAlways == Spec => []AtMostOnce
BY OneUnsettledAlways, NoResendAlways, PTL DEF AtMostOnce

\* BatchIsFrozen: no arrival joins a batch after its claim, and none leaves it.
THEOREM BatchFrozenAlways == Spec => BatchIsFrozen
<1>1. TypeOK /\ [Next]_vars =>
        [\A b \in Batches : state[b] # "none" =>
           {m \in Messages : batchOf'[m] = b} = {m \in Messages : batchOf[m] = b}]_vars
  BY FrozenStep
<1> QED BY <1>1, TypeCorrect, PTL DEF Spec, BatchIsFrozen

\* A batch stays where it is or goes to the next state: each write of the state
\* column checks the state it leaves.
LEMMA ForwardStep ==
  ASSUME TypeOK, SendInv, [Next]_vars, NEW b \in Batches
  PROVE  Rank(state'[b]) \in {Rank(state[b]), Rank(state[b]) + 1}
<1> DEFINE Kinds == {"none", "claimed", "dispatching", "consumed"}
<1>0. /\ state \in [Batches -> Kinds] /\ \A s \in Kinds : Rank(s) \in Nat
      /\ step = "persisted" => cur \in Batches
  BY DEF TypeOK, LedgerOK, RuntimeOK, Rank
<1>1. CASE UNCHANGED state
  BY <1>0, <1>1
<1>2. CASE /\ ~UNCHANGED state
           /\ \/ \E c \in Batches, m \in Messages : Claim(c, m)
              \/ FenceDispatch \/ Settling
  <2>1. \/ state'[b] = state[b]
        \/ state[b] = "none" /\ state'[b] = "claimed"
        \/ state[b] = "claimed" /\ state'[b] = "dispatching"
        \/ state[b] = "dispatching" /\ state'[b] = "consumed"
    BY <1>0, <1>2 DEF Claim, FenceDispatch, Settling, Settle, Carries
  <2> QED BY <1>0, <2>1 DEF Rank
<1>3. ASSUME Tick, ~UNCHANGED state
      PROVE  FenceDispatch \/ \E c \in Batches, m \in Messages : Claim(c, m)
  BY <1>3 DEF Tick, Reclaim, Submit, SubmitSuppressed, SubmitRefused,
     FenceFailed, ExecuteEffects, ledger
<1> QED
  BY LedgerSteps, <1>1, <1>2, <1>3
     DEF ledgerView, RemoveFollowup, Crash, Restart, ledger

\* BatchMovesForward: no step makes a dispatching or consumed batch claimable,
\* or skips the fence.
THEOREM BatchForwardAlways == Spec => BatchMovesForward
<1>1. TypeOK /\ SendInv /\ [Next]_vars =>
        [\A b \in Batches :
           Rank(state'[b]) \in {Rank(state[b]), Rank(state[b]) + 1}]_vars
  BY ForwardStep
<1> QED BY <1>1, TypeCorrect, SendAlways, PTL DEF Spec, BatchMovesForward

-----------------------------------------------------------------------------
(* Commands: admission, pause and steer.                                   *)

\* Only a first admission writes the place and the content of a message.
LEMMA OnlyAdmissions ==
  ASSUME [Next]_vars
  PROVE  \/ UNCHANGED <<seq, lastSeq, body>>
         \/ \E k \in Keys, m \in Messages, b \in Bodies : Admit(k, m, b)
<1> USE DEF store
<1>1. CASE Produce
  BY <1>1 DEF Produce, Readmit, RemoveFollowup, SetFollowupPaused
<1>2. CASE Tick
  BY <1>2 DEF Tick, Reclaim, Claim, Submit, SubmitSuppressed, SubmitRefused,
     FenceDispatch, FenceFailed, ExecuteEffects
<1>3. CASE Owner
  BY <1>3 DEF Owner, SendPrompt, EnqueuePrompt, RemoveQueuedPrompt,
     RetryBlockedPrompt, Stop, SteerFollowups
<1>4. CASE Provider
  BY <1>4 DEF Provider, Answers, TurnAccepted, TurnStarted, TurnCompleted,
     TurnRejected, InterruptFailed, Disconnect, Reconnect
<1>5. CASE Recover
  BY <1>5 DEF Recover, Crash, Restart, OpenSession, ReopenForInbox, Resumed
<1>6. ASSUME NEW g \in GateStates, GateChanges(g)
      PROVE  UNCHANGED <<seq, lastSeq, body>>
  BY <1>6 DEF GateChanges
<1>7. CASE UNCHANGED vars
  BY <1>7 DEF vars
<1> QED BY <1>1, <1>2, <1>3, <1>4, <1>5, <1>6, <1>7 DEF Next

\* AdmissionIsStable: a retry under the same key or a fresh one, and whatever else
\* happens, leaves an admitted message its place and its content.
THEOREM AdmissionStableAlways == Spec => AdmissionIsStable
<1>1. ASSUME TypeOK, [Next]_vars, NEW m \in Admitted
      PROVE  seq'[m] = seq[m] /\ body'[m] = body[m]
  <2>1. ASSUME NEW k \in Keys, NEW n \in Messages, NEW b \in Bodies, Admit(k, n, b)
        PROVE  seq'[m] = seq[m] /\ body'[m] = body[m]
    <3>1. m # n /\ m \in Messages
      BY <2>1 DEF Admit, Admitted
    <3> QED BY <2>1, <3>1 DEF Admit, TypeOK, StoreOK
  <2> QED BY <1>1, <2>1, OnlyAdmissions
<1>2. TypeOK /\ [Next]_vars =>
        [\A m \in Admitted : seq'[m] = seq[m] /\ body'[m] = body[m]]_vars
  BY <1>1
<1> QED BY <1>2, TypeCorrect, PTL DEF Spec, AdmissionIsStable

\* Only producers and Stop write the pause.
LEMMA OnlyPauses ==
  ASSUME [Next]_vars
  PROVE  paused' = paused \/ paused' = TRUE
         \/ \E k \in Keys : SetFollowupPaused(k, FALSE)
<1> USE DEF store
<1>1. CASE Produce
  <2>1. ASSUME NEW k \in Keys, NEW v \in BOOLEAN, SetFollowupPaused(k, v)
        PROVE  paused' = TRUE \/ SetFollowupPaused(k, FALSE)
    BY <2>1 DEF SetFollowupPaused
  <2> QED BY <1>1, <2>1 DEF Produce, Admit, Readmit, RemoveFollowup
<1>2. CASE Tick
  BY <1>2 DEF Tick, Reclaim, Claim, Submit, SubmitSuppressed, SubmitRefused,
     FenceDispatch, FenceFailed, ExecuteEffects
<1>3. CASE Owner
  BY <1>3 DEF Owner, SendPrompt, EnqueuePrompt, RemoveQueuedPrompt,
     RetryBlockedPrompt, Stop, SteerFollowups
<1>4. CASE Provider
  BY <1>4 DEF Provider, Answers, TurnAccepted, TurnStarted, TurnCompleted,
     TurnRejected, InterruptFailed, Disconnect, Reconnect
<1>5. CASE Recover
  BY <1>5 DEF Recover, Crash, Restart, OpenSession, ReopenForInbox, Resumed
<1>6. ASSUME NEW g \in GateStates, GateChanges(g) PROVE paused' = paused
  BY <1>6 DEF GateChanges
<1>7. CASE UNCHANGED vars
  BY <1>7 DEF vars
<1> QED BY <1>1, <1>2, <1>3, <1>4, <1>5, <1>6, <1>7 DEF Next

\* ResumeOnlyByFreshKey: a pause is lifted only by a Resume whose key has no
\* receipt, so the retry of an old Resume does not undo a later Stop.
THEOREM ResumeFreshAlways == Spec => ResumeOnlyByFreshKey
<1>1. ASSUME TypeOK, [Next]_vars, paused, ~paused'
      PROVE  \E k \in Keys : receipts[k] = None /\ receipts'[k] = SetPaused(FALSE)
  <2>1. PICK k \in Keys : SetFollowupPaused(k, FALSE)
    BY <1>1, OnlyPauses
  <2>2. receipts \in [Keys -> AllCommands \cup {None}]
    BY <1>1 DEF TypeOK, StoreOK
  <2> QED BY <2>1, <2>2 DEF SetFollowupPaused, Accepts, Receipt
<1>2. TypeOK /\ [Next]_vars =>
        [paused /\ ~paused' =>
           \E k \in Keys : receipts[k] = None /\ receipts'[k] = SetPaused(FALSE)]_vars
  BY <1>1
<1> QED BY <1>2, TypeCorrect, PTL DEF Spec, ResumeOnlyByFreshKey

\* Only Stop, which pauses, and Steer ask for an interrupt.
LEMMA OnlyInterrupts ==
  ASSUME [Next]_vars, ~cancelling, cancelling'
  PROVE  paused' \/ SteerFollowups
<1> USE DEF session
<1>1. CASE Produce
  BY <1>1 DEF Produce, Admit, Readmit, RemoveFollowup, SetFollowupPaused
<1>2. CASE Tick
  BY <1>2 DEF Tick, Reclaim, Claim, Submit, SubmitSuppressed, SubmitRefused,
     FenceDispatch, FenceFailed, ExecuteEffects
<1>3. CASE Owner
  BY <1>3 DEF Owner, SendPrompt, EnqueuePrompt, RemoveQueuedPrompt,
     RetryBlockedPrompt, Stop
<1>4. CASE Provider
  BY <1>4 DEF Provider, Answers, TurnAccepted, TurnStarted, TurnCompleted,
     TurnRejected, InterruptFailed, Disconnect, Reconnect
<1>5. CASE Recover
  BY <1>5 DEF Recover, Crash, Restart, OpenSession, ReopenForInbox, Resumed
<1>6. ASSUME NEW g \in GateStates, GateChanges(g) PROVE FALSE
  BY <1>6 DEF GateChanges
<1>7. CASE UNCHANGED vars
  BY <1>7 DEF vars
<1> QED BY <1>1, <1>2, <1>3, <1>4, <1>5, <1>6, <1>7 DEF Next

\* SteerSparesDelivery: an interrupt that leaves the inbox running is a Steer, and
\* check_steerable refuses while any batch is on its way to the provider.
THEOREM SteerSparesAlways == Spec => SteerSparesDelivery
<1>1. ASSUME [Next]_vars, ~cancelling, cancelling', ~paused',
             NEW b \in Batches, state[b] = "dispatching"
      PROVE  ran[active] # b
  <2>1. Steerable
    BY <1>1, OnlyInterrupts DEF SteerFollowups
  <2> QED BY <1>1, <2>1 DEF Steerable, Unsettled, Claimable
<1>2. [Next]_vars => [~cancelling /\ cancelling' /\ ~paused' =>
        \A b \in Batches : state[b] = "dispatching" => ran[active] # b]_vars
  BY <1>1
<1> QED BY <1>2, PTL DEF Spec, SteerSparesDelivery

-----------------------------------------------------------------------------
(* The promise to producers.                                               *)

\* What place and batch say of a message: a place is below the counter, whatever is
\* in a batch or withdrawn was admitted, and a batch with a row has a member.
PlaceInv ==
  /\ \A m \in Messages : seq[m] <= lastSeq
  /\ \A m \in removed : seq[m] # 0
  /\ \A m \in Messages : batchOf[m] # None => seq[m] # 0 /\ state[batchOf[m]] # "none"
  /\ \A b \in Batches : state[b] # "none" => \E m \in Messages : batchOf[m] = b

PromiseInv == TypeOK /\ SendInv /\ RemovedNeverTaken /\ PlaceInv

\* The steps a producer can tell from stuttering.
LEMMA PromiseSteps ==
  ASSUME TypeOK, [Next]_vars
  PROVE  \/ UNCHANGED <<seq, lastSeq, ledgerView>>
         \/ UNCHANGED <<seq, lastSeq, batchOf, removed, state>>
         \/ \E k \in Keys, m \in Messages, b \in Bodies : Admit(k, m, b)
         \/ \E k \in Keys, m \in Messages : RemoveFollowup(k, m)
         \/ \E b \in Batches, m \in Messages : Claim(b, m)
         \/ FenceDispatch
         \/ Settling /\ UNCHANGED <<seq, lastSeq>>
<1>1. ASSUME Tick PROVE \/ UNCHANGED <<seq, lastSeq, batchOf, removed, state>>
                        \/ \E b \in Batches, m \in Messages : Claim(b, m)
                        \/ FenceDispatch
  BY <1>1 DEF Tick, Reclaim, Submit, SubmitSuppressed, SubmitRefused, FenceFailed,
     ExecuteEffects, store, ledger
<1>2. ASSUME Crash \/ Restart PROVE UNCHANGED <<seq, lastSeq, batchOf, removed, state>>
  BY <1>2 DEF Crash, Restart, store, ledger
<1> QED BY <1>1, <1>2, LedgerSteps, OnlyAdmissions

\* Every step keeps it: admission counts up, a removal asks for the row, and a
\* claim makes the row of the batch and names its members in one transaction.
LEMMA PlaceStep ==
  ASSUME PromiseInv, [Next]_vars
  PROVE  PlaceInv'
<1> USE DEF PlaceInv
<1>0. /\ seq \in [Messages -> Nat] /\ lastSeq \in Nat
      /\ batchOf \in [Messages -> Batches \cup {None}] /\ None \notin Batches
      /\ state \in [Batches -> {"none", "claimed", "dispatching", "consumed"}]
      /\ step = "persisted" => cur \in Batches /\ state[cur] = "claimed"
      /\ PlaceInv /\ RemovedNeverTaken
  BY InboxAssumption
     DEF PromiseInv, SendInv, TickInv, TypeOK, StoreOK, LedgerOK, RuntimeOK, TurnIds,
         Prompts
<1>1. CASE UNCHANGED <<seq, lastSeq, ledgerView>>
  BY <1>0, <1>1 DEF ledgerView
<1>2. CASE UNCHANGED <<seq, lastSeq, batchOf, removed, state>>
  BY <1>0, <1>2
<1>3. ASSUME NEW k \in Keys, NEW m \in Messages, NEW b \in Bodies, Admit(k, m, b)
      PROVE  PlaceInv'
  <2>1. /\ lastSeq' = lastSeq + 1 /\ seq' = [seq EXCEPT ![m] = lastSeq + 1]
        /\ UNCHANGED <<batchOf, removed, state>>
    BY <1>3 DEF Admit, ledger
  <2> QED BY <1>0, <2>1
<1>4. ASSUME NEW k \in Keys, NEW m \in Messages, RemoveFollowup(k, m)
      PROVE  PlaceInv'
  <2>1. /\ removed' = removed \cup {m} /\ seq[m] # 0
        /\ UNCHANGED <<seq, lastSeq, batchOf, state>>
    BY <1>4 DEF RemoveFollowup, ledger
  <2> QED BY <1>0, <2>1
<1>5. ASSUME NEW b \in Batches, NEW m \in Messages, Claim(b, m)
      PROVE  PlaceInv'
  <2>1. /\ UNCHANGED <<seq, lastSeq, removed>> /\ state[b] = "none"
        /\ batchOf' = [n \in Messages |-> IF n \in Upto(m) THEN b ELSE batchOf[n]]
        /\ state' = [state EXCEPT ![b] = "claimed"]
    BY <1>5 DEF Claim
  <2>2. /\ m \in Upto(m)
        /\ \A n \in Upto(m) : n \in Messages /\ seq[n] # 0 /\ batchOf[n] = None
    BY <1>0, <1>5 DEF Claim, Upto, Pending, Admitted
  <2>3. \A n \in Messages : batchOf'[n] # None => seq'[n] # 0 /\ state'[batchOf'[n]] # "none"
    BY <1>0, <2>1, <2>2
  <2>4. ASSUME NEW c \in Batches, state'[c] # "none"
        PROVE  \E n \in Messages : batchOf'[n] = c
    <3>1. CASE c = b
      BY <2>1, <2>2, <3>1
    <3>2. CASE c # b
      <4>1. PICK n \in Messages : batchOf[n] = c
        BY <1>0, <2>1, <2>4, <3>2
      <4> QED BY <1>0, <2>1, <2>2, <4>1
    <3> QED BY <3>1, <3>2
  <2> QED BY <1>0, <2>1, <2>3, <2>4
<1>6. CASE FenceDispatch
  <2>1. /\ UNCHANGED <<seq, lastSeq, batchOf, removed>>
        /\ cur \in Batches /\ state[cur] = "claimed"
        /\ state' = [state EXCEPT ![cur] = "dispatching"]
    BY <1>0, <1>6 DEF FenceDispatch, store
  <2> QED BY <1>0, <2>1
<1>7. CASE Settling /\ UNCHANGED <<seq, lastSeq>>
  <2>1. PICK t \in TurnIds \cup {None} :
          state' = [b \in Batches |-> IF b \in Carries(t) THEN "consumed" ELSE state[b]]
    BY <1>7 DEF Settling, Settle
  <2>2. \A b \in Batches : state'[b] # "none" <=> state[b] # "none"
    BY <1>0, <2>1 DEF Carries
  <2> QED BY <1>0, <1>7, <2>2 DEF Settling
<1> QED
  BY <1>1, <1>2, <1>3, <1>4, <1>5, <1>6, <1>7, PromiseSteps DEF PromiseInv

LEMMA PromiseInvAlways == Spec => []PromiseInv
<1>1. Init => PlaceInv
  BY InboxAssumption DEF Init, PlaceInv
<1>2. TypeOK /\ SendInv /\ RemovedNeverTaken /\ PlaceInv /\ [Next]_vars => PlaceInv'
  BY PlaceStep DEF PromiseInv
<1> QED
  BY <1>1, <1>2, TypeCorrect, SendAlways, RemovedNeverTakenAlways, PTL
     DEF Spec, PromiseInv

-----------------------------------------------------------------------------
(* The refinement: every step of the inbox is a step of the promise. *)

\* The fates of all messages: what the promise calls fate.
fates == [m \in Messages |-> Fate(m)]

\* How far a message got, read off the tables.
LEMMA FateOf ==
  ASSUME PromiseInv, NEW m \in Messages
  PROVE  /\ Fate(m) = "absent" <=> seq[m] = 0
         /\ Fate(m) = "waiting" <=> m \in Pending
         /\ Fate(m) = "held" <=> batchOf[m] # None /\ state[batchOf[m]] = "claimed"
         /\ Fate(m) = "offered" <=> batchOf[m] # None /\ state[batchOf[m]] = "dispatching"
<1>1. /\ batchOf[m] # None => batchOf[m] \in Batches
      /\ \A b \in Batches : state[b] \in {"none", "claimed", "dispatching", "consumed"}
  BY DEF PromiseInv, TypeOK, StoreOK, LedgerOK
<1>2. /\ batchOf[m] # None => seq[m] # 0 /\ state[batchOf[m]] # "none" /\ m \notin removed
      /\ m \in removed => seq[m] # 0
  BY DEF PromiseInv, PlaceInv, RemovedNeverTaken
<1> QED BY <1>1, <1>2 DEF Fate, Pending, Admitted

\* A message none of whose columns changes, nor the state of its batch, stays.
LEMMA FateStays ==
  ASSUME PromiseInv, NEW m \in Messages,
         seq'[m] = seq[m], batchOf'[m] = batchOf[m], m \in removed' <=> m \in removed,
         batchOf[m] # None => state'[batchOf[m]] = state[batchOf[m]]
  PROVE  Fate(m)' = Fate(m)
<1>1. batchOf[m] # None => state[batchOf[m]] \in {"claimed", "dispatching", "consumed"}
  BY DEF PromiseInv, PlaceInv, TypeOK, StoreOK, LedgerOK
<1> QED BY <1>1 DEF Fate

\* Admission: the message arrives behind every place given so far.
LEMMA AdmitArrives ==
  ASSUME PromiseInv, NEW k \in Keys, NEW m \in Messages, NEW b \in Bodies, Admit(k, m, b)
  PROVE  Promise!Arrive(m)
<1>1. /\ lastSeq' = lastSeq + 1 /\ seq' = [seq EXCEPT ![m] = lastSeq + 1] /\ seq[m] = 0
      /\ UNCHANGED <<batchOf, removed, state>>
  BY DEF Admit, ledger
<1>2. /\ seq \in [Messages -> Nat] /\ lastSeq \in Nat /\ \A o \in Messages : seq[o] <= lastSeq
      /\ m \notin removed /\ batchOf[m] = None
  BY <1>1 DEF PromiseInv, PlaceInv, TypeOK, StoreOK
<1>3. Fate(m) = "absent" /\ Fate(m)' = "waiting"
  BY <1>1, <1>2 DEF Fate
<1>4. \A n \in Messages \ {m} : Fate(n)' = Fate(n)
  BY <1>1, <1>2, FateStays
<1>5. seq'[m] = lastSeq + 1 /\ \A o \in Messages : seq[o] < seq'[m]
  BY <1>1, <1>2
<1> QED BY <1>1, <1>3, <1>4, <1>5 DEF Promise!Arrive, Promise!At, Promise!Move

\* A removal withdraws a waiting message; removed again it changes nothing.
LEMMA RemovalWithdraws ==
  ASSUME PromiseInv, NEW k \in Keys, NEW m \in Messages, RemoveFollowup(k, m)
  PROVE  Promise!Withdraw(m) \/ UNCHANGED <<seq, fates>>
<1>1. /\ removed' = removed \cup {m} /\ seq[m] # 0 /\ batchOf[m] = None
      /\ UNCHANGED <<seq, batchOf, state>>
  BY DEF RemoveFollowup, ledger
<1>2. \A n \in Messages \ {m} : Fate(n)' = Fate(n)
  BY <1>1, FateStays
<1>3. Fate(m)' = "withdrawn" /\ Fate(m) = IF m \in removed THEN "withdrawn" ELSE "waiting"
  BY <1>1 DEF Fate
<1>4. CASE m \in removed
  BY <1>1, <1>2, <1>3, <1>4 DEF fates
<1>5. CASE m \notin removed
  BY <1>1, <1>2, <1>3, <1>5 DEF Promise!Withdraw, Promise!At, Promise!Move
<1> QED BY <1>4, <1>5

\* A claim holds the oldest waiting messages; none is held or offered before it.
LEMMA ClaimHolds ==
  ASSUME PromiseInv, NEW b \in Batches, NEW m \in Messages, Claim(b, m)
  PROVE  Promise!Hold(m)
<1>1. /\ UNCHANGED <<seq, removed>> /\ Unsettled = {} /\ m \in Pending
      /\ batchOf' = [n \in Messages |-> IF n \in Upto(m) THEN b ELSE batchOf[n]]
      /\ state' = [state EXCEPT ![b] = "claimed"] /\ state[b] = "none"
  BY DEF Claim
<1>2. /\ batchOf \in [Messages -> Batches \cup {None}] /\ None \notin Batches
      /\ state \in [Batches -> {"none", "claimed", "dispatching", "consumed"}]
      /\ \A n \in Messages : batchOf[n] # None => state[batchOf[n]] # "none"
  BY InboxAssumption DEF PromiseInv, PlaceInv, TypeOK, StoreOK, LedgerOK, TurnIds, Prompts
<1>3. \A n \in Messages : Fate(n) \notin {"held", "offered"}
  BY <1>1, <1>2, FateOf DEF Unsettled
<1>4. Upto(m) = {n \in Messages : Fate(n) = "waiting" /\ seq[n] <= seq[m]}
  BY FateOf DEF Upto, Pending, Admitted
<1>5. ASSUME NEW n \in Messages
      PROVE  Fate(n)' = IF n \in Upto(m) THEN "held" ELSE Fate(n)
  <2>1. CASE n \in Upto(m)
    <3>1. seq[n] # 0 /\ n \notin removed
      BY <2>1 DEF Upto, Pending, Admitted
    <3>2. batchOf'[n] = b /\ state'[b] = "claimed" /\ b # None
      BY <1>1, <1>2, <2>1
    <3> QED BY <1>1, <2>1, <3>1, <3>2 DEF Fate
  <2>2. CASE n \notin Upto(m)
    <3>1. batchOf'[n] = batchOf[n]
      BY <1>1, <2>2
    <3>2. batchOf[n] # None => state'[batchOf[n]] = state[batchOf[n]]
      BY <1>1, <1>2
    <3> QED BY <1>1, <2>2, <3>1, <3>2, FateStays
  <2> QED BY <2>1, <2>2
<1>6. Promise!At("held") \cup Promise!At("offered") = {}
  BY <1>3 DEF Promise!At
<1>7. m \in Promise!At("waiting")
  BY <1>1, FateOf DEF Promise!At
<1>8. Upto(m) = {n \in Promise!At("waiting") : seq[n] <= seq[m]}
  BY <1>4 DEF Promise!At
<1> QED BY <1>1, <1>5, <1>6, <1>7, <1>8 DEF Promise!Hold, Promise!Move

\* The fence offers what is held: the members of the one open batch.
LEMMA FenceOffers ==
  ASSUME PromiseInv, FenceDispatch
  PROVE  Promise!Offer
<1>1. /\ UNCHANGED <<seq, batchOf, removed>> /\ cur \in Batches /\ state[cur] = "claimed"
      /\ state' = [state EXCEPT ![cur] = "dispatching"]
  BY DEF FenceDispatch, store, PromiseInv, TypeOK, RuntimeOK
<1>2. /\ batchOf \in [Messages -> Batches \cup {None}] /\ None \notin Batches
      /\ state \in [Batches -> {"none", "claimed", "dispatching", "consumed"}]
      /\ \A c \in Batches : state[c] = "claimed" => c = cur
      /\ \E m \in Messages : batchOf[m] = cur
      /\ \A m \in Messages : batchOf[m] # None => seq[m] # 0 /\ m \notin removed
  BY <1>1, InboxAssumption
     DEF PromiseInv, SendInv, OneUnsettled, Unsettled, PlaceInv, RemovedNeverTaken, TypeOK,
         StoreOK, LedgerOK, TurnIds, Prompts
<1>3. \A m \in Messages : Fate(m) = "held" <=> batchOf[m] = cur
  BY <1>1, <1>2, FateOf
<1>4. ASSUME NEW m \in Messages
      PROVE  Fate(m)' = IF Fate(m) = "held" THEN "offered" ELSE Fate(m)
  <2>1. CASE batchOf[m] = cur
    BY <1>1, <1>2, <1>3, <2>1 DEF Fate
  <2>2. CASE batchOf[m] # cur
    <3>1. batchOf[m] # None => state'[batchOf[m]] = state[batchOf[m]]
      BY <1>1, <1>2, <2>2
    <3> QED BY <1>1, <1>3, <2>2, <3>1, FateStays
  <2> QED BY <2>1, <2>2
<1> QED BY <1>1, <1>2, <1>3, <1>4 DEF Promise!Offer, Promise!At, Promise!Move

\* An acknowledgement delivers what is offered, or finds nothing to settle.
LEMMA SettlingDelivers ==
  ASSUME PromiseInv, NEW t \in TurnIds \cup {None}, Settle(t),
         UNCHANGED <<seq, batchOf, removed>>
  PROVE  Promise!Deliver \/ UNCHANGED <<seq, fates>>
<1>1. state' = [b \in Batches |-> IF b \in Carries(t) THEN "consumed" ELSE state[b]]
  BY DEF Settle
<1>2. /\ batchOf \in [Messages -> Batches \cup {None}] /\ None \notin Batches
      /\ state \in [Batches -> {"none", "claimed", "dispatching", "consumed"}]
      /\ \A b \in Batches : state[b] # "none" => \E m \in Messages : batchOf[m] = b
      /\ \A m \in Messages : batchOf[m] # None => seq[m] # 0 /\ m \notin removed
      /\ \A b, c \in Batches : state[b] = "dispatching" /\ state[c] = "dispatching" => b = c
  BY InboxAssumption
     DEF PromiseInv, SendInv, OneUnsettled, Unsettled, PlaceInv, RemovedNeverTaken, TypeOK,
         StoreOK, LedgerOK, TurnIds, Prompts
<1>3. CASE Carries(t) = {}
  <2>1. state' = state
    BY <1>1, <1>2, <1>3
  <2> QED BY <2>1 DEF fates, Fate
<1>4. CASE Carries(t) # {}
  <2>1. PICK b \in Batches : b \in Carries(t) /\ state[b] = "dispatching"
    BY <1>4 DEF Carries
  <2>2. Carries(t) = {b}
    BY <1>2, <2>1 DEF Carries
  <2>3. \A m \in Messages : Fate(m) = "offered" <=> batchOf[m] = b
    BY <1>2, <2>1, FateOf
  <2>4. ASSUME NEW m \in Messages
        PROVE  Fate(m)' = IF Fate(m) = "offered" THEN "delivered" ELSE Fate(m)
    <3>1. CASE batchOf[m] = b
      BY <1>1, <1>2, <2>1, <2>2, <2>3, <3>1 DEF Fate
    <3>2. CASE batchOf[m] # b
      <4>1. batchOf[m] # None => state'[batchOf[m]] = state[batchOf[m]]
        BY <1>1, <1>2, <2>2, <3>2
      <4> QED BY <2>3, <3>2, <4>1, FateStays
    <3> QED BY <3>1, <3>2
  <2>5. \E m \in Messages : Fate(m) = "offered"
    BY <1>2, <2>1, <2>3
  <2> QED BY <2>4, <2>5 DEF Promise!Deliver, Promise!At, Promise!Move
<1> QED BY <1>3, <1>4

\* KeepsPromise: the inbox with its batches, receipts, turns, crashes and recovery is
\* the plain queue of messages that arrive in order, are withdrawn only while they
\* wait, are held as a prefix, offered once and delivered.
THEOREM InboxKeepsPromise == Spec => KeepsPromise
<1>1. Init => Promise!Init
  BY DEF Init, Promise!Init, Fate
<1>2. ASSUME PromiseInv, [Next]_vars
      PROVE  [Promise!Next]_<<seq, fates>>
  <2>1. ASSUME UNCHANGED <<seq, batchOf, removed, state>> PROVE UNCHANGED <<seq, fates>>
    BY <2>1 DEF fates, Fate
  <2>2. ASSUME Settling /\ UNCHANGED <<seq, lastSeq>>
        PROVE  Promise!Deliver \/ UNCHANGED <<seq, fates>>
    BY <1>2, <2>2, SettlingDelivers DEF Settling
  <2> QED
    BY <1>2, <2>1, <2>2, PromiseSteps, AdmitArrives, RemovalWithdraws, ClaimHolds,
       FenceOffers DEF PromiseInv, ledgerView, Promise!Next
<1>3. PromiseInv /\ [Next]_vars => [Promise!Next]_<<seq, [m \in Messages |-> Fate(m)]>>
  BY <1>2 DEF fates
<1> QED
  BY <1>1, <1>3, PromiseInvAlways, PTL DEF Spec, KeepsPromise, Promise!Spec

=============================================================================
