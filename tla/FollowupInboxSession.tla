------------------------ MODULE FollowupInboxSession -----------------------
(***************************************************************************)
(* The tick, the reducer and the provider agree, in every inbox: whoever   *)
(* carries a batch past its fence has the session for itself, the reducer  *)
(* knows what the provider runs, and so a batch is acknowledged only by    *)
(* the turn that was opened for it.                                        *)
(***************************************************************************)
EXTENDS FollowupInboxSafety

\* The provider's side of a turn names the prompt and the turn its stage has.
FlightInv ==
  /\ inflight.stage \in {"none", "resume"} =>
       inflight.prompt = None /\ inflight.turn = None
  /\ inflight.stage \in {"sent", "accepted", "started"} => inflight.prompt \in Prompts
  /\ inflight.stage \in {"accepted", "started"} => inflight.turn \in TurnIds

\* No turn while the session is absent or resuming.
EngineInv ==
  /\ engine # "live" => starting = None /\ active = None /\ ~cancelling
  /\ inflight.stage = "resume" => engine = "resuming"

\* What a tick has put into the reducer, and what a crash took out of it.
CarryInv ==
  /\ step = "claimed" => starting = None
  /\ step \in {"persisted", "fenced"} => starting = IF outgoing THEN cur ELSE None
  /\ step \in {"claimed", "persisted", "fenced"} => ~cancelling
  /\ step = "down" => engine = "absent" /\ inflight = Idle

SessionInv ==
  FlightInv /\ EngineInv /\ CarryInv /\ TickHasTheSession /\ SessionTracksProvider

\* The fields of the records a step gives to inflight.
LEMMA FlightFields ==
  ASSUME TypeOK
  PROVE  /\ Idle.stage = "none" /\ Idle.prompt = None /\ Idle.turn = None
         /\ [Idle EXCEPT !.stage = "resume"] =
              [stage |-> "resume", prompt |-> None, turn |-> None]
         /\ \A p \in Prompts : Sent(p).stage = "sent" /\ Sent(p).prompt = p /\ Sent(p).turn = None
         /\ \A t \in TurnIds :
              LET f == [inflight EXCEPT !.stage = "accepted", !.turn = t]
              IN f.stage = "accepted" /\ f.prompt = inflight.prompt /\ f.turn = t
         /\ [inflight EXCEPT !.stage = "started"] =
              [stage |-> "started", prompt |-> inflight.prompt, turn |-> inflight.turn]
         /\ inflight.stage = "none" /\ inflight.prompt = None /\ inflight.turn = None
              => inflight = Idle
         /\ inflight.stage \in {"none", "resume", "sent", "accepted", "started"}
<1>1. inflight \in Flights
  BY DEF TypeOK, ProviderOK
<1>2. \A t \in TurnIds :
         LET f == [inflight EXCEPT !.stage = "accepted", !.turn = t]
         IN f.stage = "accepted" /\ f.prompt = inflight.prompt /\ f.turn = t
  BY <1>1 DEF Flights
<1>3. [inflight EXCEPT !.stage = "started"] =
        [stage |-> "started", prompt |-> inflight.prompt, turn |-> inflight.turn]
  BY <1>1 DEF Flights
<1>4. inflight.stage = "none" /\ inflight.prompt = None /\ inflight.turn = None
        => inflight = Idle
  BY <1>1 DEF Flights, Idle
<1>5. inflight.stage \in {"none", "resume", "sent", "accepted", "started"}
  BY <1>1 DEF Flights
<1>6. [Idle EXCEPT !.stage = "resume"] =
        [stage |-> "resume", prompt |-> None, turn |-> None]
  BY DEF Idle
<1>7. \A p \in Prompts : Sent(p).stage = "sent" /\ Sent(p).prompt = p /\ Sent(p).turn = None
  BY DEF Sent
<1>8. Idle.stage = "none" /\ Idle.prompt = None /\ Idle.turn = None
  BY DEF Idle
<1> QED BY <1>2, <1>3, <1>4, <1>5, <1>6, <1>7, <1>8

\* Every request, tick, provider event, loss and recovery keeps the reducer, the
\* provider and the tick in agreement.
LEMMA SessionStep ==
  ASSUME TypeOK, SessionInv, [Next]_vars
  PROVE  SessionInv'
<1> USE DEF SessionInv, FlightInv, EngineInv, CarryInv, TickHasTheSession,
            SessionTracksProvider
<1>0. /\ None \notin Prompts /\ None \notin TurnIds /\ Prompts \subseteq TurnIds
      /\ OwnerPrompts \subseteq Prompts /\ Batches \subseteq Prompts
      /\ IF step \in {"claimed", "persisted", "fenced"} THEN cur \in Batches
                                                       ELSE cur = None
      /\ starting \in Prompts \cup {None} /\ active \in TurnIds \cup {None}
      /\ replay \in Prompts \cup {None} /\ queue \in Seq(OwnerPrompts)
      /\ inflight.turn \in TurnIds \cup {None}
      /\ step \in {"down", "idle", "claimed", "persisted", "fenced"}
      /\ engine \in {"absent", "resuming", "live"}
  BY InboxAssumption DEF TypeOK, RuntimeOK, LedgerOK, ProviderOK, Flights,
     Prompts, TurnIds
<1>i. /\ Idle.stage = "none" /\ Idle.prompt = None /\ Idle.turn = None
      /\ inflight.stage = "none" /\ inflight.prompt = None
           /\ inflight.turn = None => inflight = Idle
      /\ inflight.stage \in {"none", "resume", "sent", "accepted", "started"}
  BY FlightFields
<1>s. \A p \in Prompts : Sent(p).stage = "sent" /\ Sent(p).prompt = p
                           /\ Sent(p).turn = None
  BY FlightFields
\* Nothing but a tick moves while a tick carries a batch.
<1>1. ASSUME Produce PROVE SessionInv'
  BY <1>0, <1>i, <1>1 DEF Produce, Admit, Readmit, RemoveFollowup,
     SetFollowupPaused, Accepts, tick, session, link, provider
<1>2. ASSUME Tick PROVE SessionInv'
  <2>1. ASSUME NEW b \in Batches, Reclaim(b) PROVE SessionInv'
    BY <1>0, <1>i, <2>1 DEF Reclaim, MayClaim, Ready, Busy, HasWork, store,
       session, link, provider
  <2>2. ASSUME NEW b \in Batches, NEW m \in Messages, Claim(b, m) PROVE SessionInv'
    BY <1>0, <1>i, <2>2 DEF Claim, MayClaim, Ready, Busy, HasWork,
       session, link, provider
  <2>3. CASE Submit
    BY <1>0, <1>i, <2>3 DEF Submit, store, link, provider
  <2>4. CASE SubmitSuppressed
    BY <1>0, <1>i, <2>4 DEF SubmitSuppressed, store, session, link, provider
  <2>5. CASE SubmitRefused
    BY <1>0, <1>i, <2>5 DEF SubmitRefused, store, session, link, provider
  <2>6. CASE FenceDispatch
    BY <1>0, <1>i, <2>6 DEF FenceDispatch, store, session, link, provider
  <2>7. CASE FenceFailed
    BY <1>0, <1>i, <2>7 DEF FenceFailed, store, link, provider
  <2>8. CASE ExecuteEffects
    BY <1>0, <1>i, <1>s, <2>8 DEF ExecuteEffects, store, session, link
  <2> QED
    BY <1>2, <2>1, <2>2, <2>3, <2>4, <2>5, <2>6, <2>7, <2>8 DEF Tick
<1>3. ASSUME Owner PROVE SessionInv'
  <2>1. ASSUME NEW p \in OwnerPrompts, SendPrompt(p) PROVE SessionInv'
    BY <1>0, <1>i, <1>s, <2>1 DEF SendPrompt, StartOwner, Busy, HasWork, tick,
       link
  <2>2. ASSUME NEW p \in OwnerPrompts, EnqueuePrompt(p) PROVE SessionInv'
    BY <1>0, <1>i, <2>2 DEF EnqueuePrompt, tick, session, link, provider
  <2>3. ASSUME NEW p \in OwnerPrompts, RemoveQueuedPrompt(p) PROVE SessionInv'
    <3>1. /\ step = "idle" /\ step' = step /\ cur' = cur /\ outgoing' = outgoing
          /\ engine # "absent" /\ engine' = engine /\ connected' = connected
          /\ active' = active /\ cancelling' = cancelling /\ replay' = replay
      BY <2>3 DEF RemoveQueuedPrompt, tick, link
    <3>2. \/ Busy /\ starting' = starting /\ inflight' = inflight
          \/ ~Busy /\ \E q \in Seq(OwnerPrompts) : DrainQueue(q)
      <4>1. PICK i \in DOMAIN queue :
              LET q == SubSeq(queue, 1, i - 1) \o SubSeq(queue, i + 1, Len(queue))
              IN IF Busy
                 THEN queue' = q
                      /\ UNCHANGED <<accepted, starting, transcript, inflight>>
                 ELSE DrainQueue(q)
        BY <2>3 DEF RemoveQueuedPrompt
      <4>2. SubSeq(queue, 1, i - 1) \o SubSeq(queue, i + 1, Len(queue))
              \in Seq(OwnerPrompts)
        BY <1>0
      <4> QED BY <4>1, <4>2
    <3>3. \/ Busy /\ starting' = starting /\ inflight' = inflight
          \/ ~Busy /\ starting' \in Prompts /\ inflight' = Sent(starting')
          \/ ~Busy /\ starting' = None /\ inflight' = Idle
      <4>1. ASSUME NEW q \in Seq(OwnerPrompts), DrainQueue(q)
            PROVE  \/ starting' \in Prompts /\ inflight' = Sent(starting')
                   \/ starting' = None /\ inflight' = Idle
        <5>1. q # <<>> => Head(q) \in OwnerPrompts
          OBVIOUS
        <5> QED BY <1>0, <4>1, <5>1 DEF DrainQueue, StartOwner
      <4> QED BY <3>2, <4>1
    <3> QED BY <1>0, <1>i, <1>s, <3>1, <3>3 DEF Busy, HasWork
  <2>4. CASE RetryBlockedPrompt
    BY <1>0, <1>i, <1>s, <2>4 DEF RetryBlockedPrompt, StartOwner, HasWork, tick,
       link
  <2>5. CASE Stop
    BY <1>0, <1>i, <2>5 DEF Stop, tick, link, provider
  <2>6. CASE SteerFollowups
    BY <1>0, <1>i, <2>6 DEF SteerFollowups, tick, link, provider
  <2> QED BY <1>3, <2>1, <2>2, <2>3, <2>4, <2>5, <2>6 DEF Owner
<1>4. ASSUME Provider PROVE SessionInv'
  <2>1. ASSUME NEW t \in TurnIds, TurnAccepted(t) PROVE SessionInv'
    BY <1>0, <1>i, <2>1, FlightFields DEF TurnAccepted, Hears, tick, session, link
  <2>2. CASE TurnStarted
    BY <1>0, <1>i, <2>2, FlightFields DEF TurnStarted, Hears, tick, link
  <2>3. CASE TurnCompleted
    BY <1>0, <1>i, <1>s, <2>3 DEF TurnCompleted, DrainQueue, StartOwner, Hears,
       tick, link
  <2>4. CASE TurnRejected
    BY <1>0, <1>i, <2>4 DEF TurnRejected, Hears, tick, link
  <2>5. CASE InterruptFailed
    BY <1>0, <1>i, <2>5 DEF InterruptFailed, Hears, tick, link, provider
  <2>6. CASE Disconnect
    BY <1>0, <1>i, <2>6 DEF Disconnect, tick
  <2>7. CASE Reconnect
    BY <1>0, <1>i, <2>7 DEF Reconnect, tick, session, provider
  <2> QED
    BY <1>4, <2>1, <2>2, <2>3, <2>4, <2>5, <2>6, <2>7 DEF Provider, Answers
<1>5. ASSUME Recover PROVE SessionInv'
  <2>1. CASE Crash
    BY <1>0, <1>i, <2>1 DEF Crash
  <2>2. CASE Restart
    BY <1>0, <1>i, <2>2 DEF Restart, session, link, provider
  <2>3. CASE OpenSession \/ ReopenForInbox
    BY <1>0, <1>i, <2>3, FlightFields DEF OpenSession, ReopenForInbox, tick,
       session
  <2>4. CASE Resumed
    BY <1>0, <1>i, <1>s, <2>4 DEF Resumed, tick
  <2> QED BY <1>5, <2>1, <2>2, <2>3, <2>4 DEF Recover
<1>6. ASSUME NEW g \in GateStates, GateChanges(g) PROVE SessionInv'
  BY <1>0, <1>i, <1>6 DEF GateChanges, store, tick, session, link, provider
<1>7. CASE UNCHANGED vars
  BY <1>0, <1>i, <1>7 DEF vars, store, tick, session, link, provider
<1> QED BY <1>1, <1>2, <1>3, <1>4, <1>5, <1>6, <1>7 DEF Next

\* The agreement holds in every state of every behaviour.
LEMMA SessionAlways == Spec => []SessionInv
<1>1. Init => SessionInv
  BY DEF Init, SessionInv, FlightInv, EngineInv, CarryInv, TickHasTheSession,
     SessionTracksProvider, Idle
<1> QED BY <1>1, SessionStep, TypeCorrect, PTL DEF Spec

\* TickHasTheSession: whoever carries a batch past its fence runs beside no
\* turn, no queued prompt and no Stop, whatever arrives between two ticks.
THEOREM TickHasSessionAlways == Spec => []TickHasTheSession
BY SessionAlways, PTL DEF SessionInv

\* SessionTracksProvider: no sequence of events, losses and recoveries makes
\* the reducer wait for a turn that does not run, or forget one that does.
THEOREM SessionTracksAlways == Spec => []SessionTracksProvider
BY SessionAlways, PTL DEF SessionInv

\* StopHoldsDelivery: a provider command for a batch leaves only while the
\* inbox is not paused, although the pause is read at the claim.
THEOREM StopHoldsAlways == Spec => StopHoldsDelivery
<1>1. ASSUME TypeOK, SessionInv, [Next]_vars, paused PROVE sends' = sends
  <2>1. ~(step = "fenced")
    BY <1>1 DEF SessionInv, TickHasTheSession
  <2>2. ASSUME Tick PROVE sends' = sends
    BY <2>1, <2>2 DEF Tick, Reclaim, Claim, Submit, SubmitSuppressed,
       SubmitRefused, FenceDispatch, FenceFailed, ExecuteEffects
  <2> QED
    BY <1>1, <2>2, LedgerSteps
       DEF ledgerView, RemoveFollowup, Settling, Crash, Restart
<1>2. TypeOK /\ SessionInv /\ [Next]_vars => [paused => sends' = sends]_vars
  BY <1>1
<1> QED BY <1>2, TypeCorrect, SessionAlways, PTL DEF Spec, StopHoldsDelivery

-----------------------------------------------------------------------------
(* Acknowledgement by turn. *)

\* The history of turns agrees with the turn in flight, with the convention of
\* the provider for turn ids, and with the turn each batch has on record.
RunInv ==
  /\ inflight.stage \in {"accepted", "started"} => ran[inflight.turn] = inflight.prompt
  /\ Echo => \A t \in TurnIds : ran[t] \in {None, t}
  /\ ~Echo => \A p \in Prompts : ran[p] = None
  /\ \A b \in Batches : turnOf[b] # None => ran[turnOf[b]] = b
  /\ \A b \in Batches : state[b] = "consumed" => turnOf[b] # None

\* A turn in flight carries only the batch it was opened for.
LEMMA CarriesItsOwn ==
  ASSUME TypeOK, SessionInv, RunInv, inflight.stage \in {"accepted", "started"},
         NEW b \in Carries(inflight.turn)
  PROVE  ran[inflight.turn] = b
<1>1. /\ None \notin TurnIds /\ Batches \subseteq Prompts /\ Prompts \subseteq TurnIds
      /\ Echo \in BOOLEAN
  BY InboxAssumption DEF TurnIds, Prompts
<1>2. inflight.turn \in TurnIds /\ inflight.prompt \in Prompts
  BY DEF SessionInv, FlightInv
<1>3. b \in Batches /\ inflight.turn \in {b, turnOf[b]}
  BY DEF Carries
<1> QED BY <1>1, <1>2, <1>3 DEF RunInv

\* No step breaks the record of which prompt each provider turn was opened for.
LEMMA RunStep ==
  ASSUME TypeOK, SessionInv, RunInv, [Next]_vars
  PROVE  RunInv'
<1> USE DEF RunInv
<1>0. /\ None \notin TurnIds /\ Batches \subseteq Prompts /\ Prompts \subseteq TurnIds
      /\ Prompts \cap Turns = {} /\ Turns \subseteq TurnIds /\ Echo \in BOOLEAN
      /\ state \in [Batches -> {"none", "claimed", "dispatching", "consumed"}]
      /\ turnOf \in [Batches -> TurnIds \cup {None}]
      /\ ran \in [TurnIds -> Prompts \cup {None}]
  BY InboxAssumption DEF TypeOK, LedgerOK, ProviderOK, TurnIds, Prompts
\* A step that opens no turn may only forget the one in flight.
<1>k. ASSUME UNCHANGED <<state, turnOf, ran>>,
             inflight' = inflight \/ ~(inflight'.stage \in {"accepted", "started"})
      PROVE  RunInv'
  BY <1>k
<1>i. /\ ~(Idle.stage \in {"accepted", "started"})
      /\ [Idle EXCEPT !.stage = "resume"].stage = "resume"
      /\ \A p : ~(Sent(p).stage \in {"accepted", "started"})
  BY FlightFields DEF Idle, Sent
<1>t. ASSUME Settle(inflight.turn), inflight.stage \in {"accepted", "started"},
             ran' = ran
      PROVE  /\ \A b \in Batches : turnOf'[b] # None => ran'[turnOf'[b]] = b
             /\ \A b \in Batches : state'[b] = "consumed" => turnOf'[b] # None
  <2>1. \A b \in Carries(inflight.turn) : ran[inflight.turn] = b
    BY <1>t, CarriesItsOwn
  <2>2. inflight.turn \in TurnIds
    BY <1>t DEF SessionInv, FlightInv
  <2> QED BY <1>0, <1>t, <2>1, <2>2 DEF Settle
<1>1. ASSUME Produce PROVE RunInv'
  <2>1. UNCHANGED <<state, turnOf, ran, inflight>>
    BY <1>1 DEF Produce, Admit, Readmit, RemoveFollowup, SetFollowupPaused,
       ledger, provider
  <2> QED BY <1>k, <2>1
<1>2. ASSUME Tick PROVE RunInv'
  <2>1. ASSUME NEW b \in Batches, NEW m \in Messages, Claim(b, m) PROVE RunInv'
    BY <1>0, <2>1 DEF Claim, provider
  <2>2. CASE FenceDispatch
    BY <1>0, <2>2 DEF FenceDispatch, provider
  <2>3. CASE ExecuteEffects
    BY <1>k, <1>i, <2>3 DEF ExecuteEffects, ledger
  <2>4. ASSUME UNCHANGED <<state, turnOf, provider>> PROVE RunInv'
    BY <1>k, <2>4 DEF provider
  <2> QED
    BY <1>2, <2>1, <2>2, <2>3, <2>4 DEF Tick, Reclaim, Submit, SubmitSuppressed,
       SubmitRefused, FenceFailed, ledger
<1>3. ASSUME Owner PROVE RunInv'
  <2>1. UNCHANGED <<state, turnOf, ran>>
    BY <1>3 DEF Owner, SendPrompt, EnqueuePrompt, RemoveQueuedPrompt,
       RetryBlockedPrompt, Stop, SteerFollowups, ledger, provider
  <2>2. inflight' = inflight \/ ~(inflight'.stage \in {"accepted", "started"})
    BY <1>3, <1>i DEF Owner, SendPrompt, EnqueuePrompt, RemoveQueuedPrompt,
       RetryBlockedPrompt, Stop, SteerFollowups, StartOwner, DrainQueue, provider
  <2> QED BY <1>k, <2>1, <2>2
<1>4. ASSUME NEW t \in TurnIds, TurnAccepted(t) PROVE RunInv'
  <2>1. /\ ran' = [ran EXCEPT ![t] = inflight.prompt]
        /\ starting = inflight.prompt /\ inflight.prompt \in Prompts
        /\ inflight'.stage = "accepted" /\ inflight'.turn = t
        /\ inflight'.prompt = inflight.prompt
        /\ state' = state
        /\ IF Echo THEN t = inflight.prompt ELSE t \in Turns /\ ran[t] = None
    BY <1>4, FlightFields
       DEF TurnAccepted, Hears, SessionInv, FlightInv, SessionTracksProvider
  <2>2. \/ turnOf' = turnOf
        \/ starting \in Batches /\ turnOf' = [turnOf EXCEPT ![starting] = t]
    BY <1>4 DEF TurnAccepted, Correlates
  <2>3. \A b \in Batches : turnOf[b] # None => ran'[turnOf[b]] = b
    BY <1>0, <2>1
  <2>4. \A b \in Batches : turnOf'[b] # None => ran'[turnOf'[b]] = b
    BY <1>0, <2>1, <2>2, <2>3
  <2>5. /\ Echo => \A u \in TurnIds : ran'[u] \in {None, u}
        /\ ~Echo => \A p \in Prompts : ran'[p] = None
    BY <1>0, <2>1
  <2>6. \A b \in Batches : state'[b] = "consumed" => turnOf'[b] # None
    BY <1>0, <2>1, <2>2
  <2>7. ran'[inflight'.turn] = inflight'.prompt
    BY <1>0, <2>1
  <2> QED BY <2>4, <2>5, <2>6, <2>7
<1>5. ASSUME TurnStarted \/ TurnCompleted PROVE RunInv'
  <2>1. inflight.stage \in {"accepted", "started"} /\ ran' = ran
    BY <1>5 DEF TurnStarted, TurnCompleted
  <2>2. Settle(inflight.turn) \/ UNCHANGED <<state, turnOf>>
    BY <1>5 DEF TurnStarted, TurnCompleted, Acknowledge, ledger
  <2>3. \/ ~(inflight'.stage \in {"accepted", "started"})
        \/ inflight'.turn = inflight.turn /\ inflight'.prompt = inflight.prompt
    <3>1. CASE TurnStarted
      BY <3>1, FlightFields DEF TurnStarted
    <3>2. CASE TurnCompleted
      BY <1>i, <3>2 DEF TurnCompleted, DrainQueue, StartOwner
    <3> QED BY <1>5, <3>1, <3>2
  <2> QED BY <1>t, <2>1, <2>2, <2>3
<1>6. CASE TurnRejected
  <2>1. ran' = ran /\ inflight' = Idle
    BY <1>6 DEF TurnRejected
  <2>2. \/ inflight.stage \in {"accepted", "started"} /\ Settle(inflight.turn)
        \/ UNCHANGED <<state, turnOf>>
    BY <1>6 DEF TurnRejected, ledger
  <2> QED BY <1>i, <1>t, <2>1, <2>2
<1>7. ASSUME InterruptFailed \/ Disconnect \/ Reconnect PROVE RunInv'
  BY <1>i, <1>k, <1>7 DEF InterruptFailed, Disconnect, Reconnect, ledger, provider
<1>8. ASSUME Recover PROVE RunInv'
  <2>1. UNCHANGED <<state, turnOf, ran>>
    BY <1>8 DEF Recover, Crash, Restart, OpenSession, ReopenForInbox, Resumed,
       ledger, provider
  <2>2. inflight' = inflight \/ ~(inflight'.stage \in {"accepted", "started"})
    BY <1>8, <1>i DEF Recover, Crash, Restart, OpenSession, ReopenForInbox,
       Resumed, provider
  <2> QED BY <1>k, <2>1, <2>2
<1>9. ASSUME NEW g \in GateStates, GateChanges(g) PROVE RunInv'
  BY <1>k, <1>9 DEF GateChanges, ledger, provider
<1>10. CASE UNCHANGED vars
  BY <1>k, <1>10 DEF vars, ledger, provider
<1> QED
  BY <1>1, <1>2, <1>3, <1>4, <1>5, <1>6, <1>7, <1>8, <1>9, <1>10
     DEF Next, Provider, Answers

\* ConsumedByItsOwnTurn: under either convention for turn ids a message counts
\* as delivered only by the turn its batch was sent for.
THEOREM ConsumedByItsOwnAlways == Spec => []ConsumedByItsOwnTurn
<1>1. Init => RunInv
  <2>1. Batches \subseteq Prompts /\ Prompts \subseteq TurnIds
    BY DEF TurnIds, Prompts
  <2> QED BY <2>1 DEF Init, RunInv, Idle
<1>2. RunInv => ConsumedByItsOwnTurn
  BY DEF RunInv, ConsumedByItsOwnTurn
<1> QED BY <1>1, <1>2, RunStep, TypeCorrect, SessionAlways, PTL DEF Spec

=============================================================================
