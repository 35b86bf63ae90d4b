------------------------ MODULE FollowupInboxProofs ------------------------
(***************************************************************************)
(* Safety of FollowupInbox for every set of messages, keys, batches,       *)
(* prompts and turns and every bound.                                      *)
(***************************************************************************)
EXTENDS FollowupInbox, TLAPS

\* Every step of Next keeps every variable in its type.
LEMMA TypeStep == TypeOK /\ [Next]_vars => TypeOK'
<1> USE InboxAssumption DEF Prompts, TurnIds
<1> SUFFICES ASSUME TypeOK, [Next]_vars PROVE TypeOK'
  OBVIOUS
<1>0. StoreOK /\ LedgerOK /\ RuntimeOK /\ ProviderOK
  BY DEF TypeOK
<1>c. /\ \A m \in Messages, b \in Bodies : Enqueue(m, b) \in AllCommands
      /\ \A m \in Messages : Remove(m) \in AllCommands
      /\ \A v \in BOOLEAN : SetPaused(v) \in AllCommands
  BY DEF Enqueue, Remove, SetPaused, AllCommands
<1>k. step \in {"claimed", "persisted", "fenced"} => cur \in Batches
  BY <1>0 DEF RuntimeOK
<1>r. /\ Idle \in Flights /\ [Idle EXCEPT !.stage = "resume"] \in Flights
      /\ \A p \in Prompts : Sent(p) \in Flights
  BY DEF Idle, Sent, Flights
<1>f. /\ inflight.prompt \in Prompts \cup {None}
      /\ inflight.turn \in TurnIds \cup {None}
      /\ \A t \in TurnIds :
           [inflight EXCEPT !.stage = "accepted", !.turn = t] \in Flights
      /\ [inflight EXCEPT !.stage = "started"] \in Flights
  BY <1>0 DEF ProviderOK, Flights
<1>p. replay # None => replay \in Prompts
  BY <1>0 DEF RuntimeOK
<1>q. ASSUME NEW q \in Seq(OwnerPrompts), q # <<>>
      PROVE Head(q) \in OwnerPrompts /\ Tail(q) \in Seq(OwnerPrompts)
  BY <1>q
<1>d. ASSUME NEW q \in Seq(OwnerPrompts), DrainQueue(q)
      PROVE /\ queue' \in Seq(OwnerPrompts)
            /\ accepted' \in [Prompts -> {"none", "pending", "settled"}]
            /\ starting' \in Prompts \cup {None} /\ transcript' \subseteq Prompts
            /\ inflight' \in Flights
  <2>1. CASE q # <<>> /\ connected /\ replay = None
    <3>1. Head(q) \in Prompts /\ Tail(q) \in Seq(OwnerPrompts)
      BY <2>1, <1>q
    <3>2. StartOwner(Head(q)) /\ queue' = Tail(q)
      BY <1>d, <2>1 DEF DrainQueue
    <3>3. inflight' \in Flights
      BY <3>1, <3>2, <1>r DEF StartOwner
    <3> QED BY <1>0, <3>1, <3>2, <3>3 DEF StartOwner, LedgerOK, RuntimeOK
  <2>2. CASE ~(q # <<>> /\ connected /\ replay = None)
    BY <1>0, <1>d, <1>r, <2>2 DEF DrainQueue, LedgerOK, RuntimeOK
  <2> QED BY <2>1, <2>2
<1>1. ASSUME Produce PROVE TypeOK'
  <2>1. ASSUME NEW k \in Keys, NEW m \in Messages, NEW b \in Bodies,
               Admit(k, m, b)
        PROVE TypeOK'
    <3>1. StoreOK' BY <1>0, <2>1, <1>c DEF StoreOK, Admit, Accepts, Receipt, store
    <3>2. LedgerOK' BY <1>0, <2>1 DEF LedgerOK, Admit, ledger
    <3>3. RuntimeOK' BY <1>0, <2>1 DEF RuntimeOK, Admit, tick, session, link
    <3>4. ProviderOK' BY <1>0, <2>1 DEF ProviderOK, Admit, provider
    <3> QED BY <3>1, <3>2, <3>3, <3>4 DEF TypeOK
  <2>2. ASSUME NEW k \in Keys, NEW m \in Messages, NEW b \in Bodies,
               Readmit(k, m, b)
        PROVE TypeOK'
    <3>1. StoreOK' BY <1>0, <2>2, <1>c DEF StoreOK, Readmit, Accepts, Receipt, store
    <3>2. LedgerOK' BY <1>0, <2>2 DEF LedgerOK, Readmit, ledger
    <3>3. RuntimeOK' BY <1>0, <2>2 DEF RuntimeOK, Readmit, tick, session, link
    <3>4. ProviderOK' BY <1>0, <2>2 DEF ProviderOK, Readmit, provider
    <3> QED BY <3>1, <3>2, <3>3, <3>4 DEF TypeOK
  <2>3. ASSUME NEW k \in Keys, NEW m \in Messages, RemoveFollowup(k, m)
        PROVE TypeOK'
    <3>1. StoreOK'
      BY <1>0, <2>3, <1>c DEF StoreOK, RemoveFollowup, Accepts, Receipt, store
    <3>2. LedgerOK' BY <1>0, <2>3 DEF LedgerOK, RemoveFollowup, ledger
    <3>3. RuntimeOK' BY <1>0, <2>3 DEF RuntimeOK, RemoveFollowup, tick, session, link
    <3>4. ProviderOK' BY <1>0, <2>3 DEF ProviderOK, RemoveFollowup, provider
    <3> QED BY <3>1, <3>2, <3>3, <3>4 DEF TypeOK
  <2>4. ASSUME NEW k \in Keys, NEW v \in BOOLEAN, SetFollowupPaused(k, v)
        PROVE TypeOK'
    <3>1. StoreOK'
      BY <1>0, <2>4, <1>c DEF StoreOK, SetFollowupPaused, Accepts, Receipt, store
    <3>2. LedgerOK' BY <1>0, <2>4 DEF LedgerOK, SetFollowupPaused, ledger
    <3>3. RuntimeOK'
      BY <1>0, <2>4 DEF RuntimeOK, SetFollowupPaused, tick, session, link
    <3>4. ProviderOK' BY <1>0, <2>4 DEF ProviderOK, SetFollowupPaused, provider
    <3> QED BY <3>1, <3>2, <3>3, <3>4 DEF TypeOK
  <2> QED BY <1>1, <2>1, <2>2, <2>3, <2>4 DEF Produce
<1>2. ASSUME Tick PROVE TypeOK'
  <2>1. ASSUME NEW b \in Batches, Reclaim(b) PROVE TypeOK'
    <3>1. StoreOK' BY <1>0, <2>1 DEF StoreOK, Reclaim, store
    <3>2. LedgerOK' BY <1>0, <2>1 DEF LedgerOK, Reclaim, ledger
    <3>3. RuntimeOK' BY <1>0, <2>1 DEF RuntimeOK, Reclaim, tick, session, link
    <3>4. ProviderOK' BY <1>0, <2>1 DEF ProviderOK, Reclaim, provider
    <3> QED BY <3>1, <3>2, <3>3, <3>4 DEF TypeOK
  <2>2. ASSUME NEW b \in Batches, NEW m \in Messages, Claim(b, m) PROVE TypeOK'
    <3>1. StoreOK' BY <1>0, <2>2 DEF StoreOK, Claim, store
    <3>2. LedgerOK' BY <1>0, <2>2 DEF LedgerOK, Claim, ledger
    <3>3. RuntimeOK' BY <1>0, <2>2 DEF RuntimeOK, Claim, tick, session, link
    <3>4. ProviderOK' BY <1>0, <2>2 DEF ProviderOK, Claim, provider
    <3> QED BY <3>1, <3>2, <3>3, <3>4 DEF TypeOK
  <2>3. CASE Submit
    <3>1. StoreOK' BY <1>0, <2>3 DEF StoreOK, Submit, store
    <3>2. LedgerOK' BY <1>0, <2>3, <1>k DEF LedgerOK, Submit, ledger
    <3>3. RuntimeOK' BY <1>0, <2>3, <1>k DEF RuntimeOK, Submit, tick, session, link
    <3>4. ProviderOK' BY <1>0, <2>3, <1>k DEF ProviderOK, Submit, provider
    <3> QED BY <3>1, <3>2, <3>3, <3>4 DEF TypeOK
  <2>4. CASE SubmitSuppressed
    <3>1. StoreOK' BY <1>0, <2>4 DEF StoreOK, SubmitSuppressed, store
    <3>2. LedgerOK' BY <1>0, <2>4, <1>k DEF LedgerOK, SubmitSuppressed, ledger
    <3>3. RuntimeOK'
      BY <1>0, <2>4, <1>k DEF RuntimeOK, SubmitSuppressed, tick, session, link
    <3>4. ProviderOK' BY <1>0, <2>4, <1>k DEF ProviderOK, SubmitSuppressed, provider
    <3> QED BY <3>1, <3>2, <3>3, <3>4 DEF TypeOK
  <2>5. CASE SubmitRefused
    <3>1. StoreOK' BY <1>0, <2>5 DEF StoreOK, SubmitRefused, store
    <3>2. LedgerOK' BY <1>0, <2>5, <1>k DEF LedgerOK, SubmitRefused, ledger
    <3>3. RuntimeOK'
      BY <1>0, <2>5, <1>k DEF RuntimeOK, SubmitRefused, tick, session, link
    <3>4. ProviderOK'
      BY <1>0, <2>5, <1>k DEF ProviderOK, SubmitRefused, Fault, provider
    <3> QED BY <3>1, <3>2, <3>3, <3>4 DEF TypeOK
  <2>6. CASE FenceDispatch
    <3>1. StoreOK' BY <1>0, <2>6 DEF StoreOK, FenceDispatch, store
    <3>2. LedgerOK' BY <1>0, <2>6, <1>k DEF LedgerOK, FenceDispatch, ledger
    <3>3. RuntimeOK'
      BY <1>0, <2>6, <1>k DEF RuntimeOK, FenceDispatch, tick, session, link
    <3>4. ProviderOK' BY <1>0, <2>6, <1>k DEF ProviderOK, FenceDispatch, provider
    <3> QED BY <3>1, <3>2, <3>3, <3>4 DEF TypeOK
  <2>7. CASE FenceFailed
    <3>1. StoreOK' BY <1>0, <2>7 DEF StoreOK, FenceFailed, store
    <3>2. LedgerOK' BY <1>0, <2>7, <1>k DEF LedgerOK, FenceFailed, ledger
    <3>3. RuntimeOK'
      BY <1>0, <2>7, <1>k DEF RuntimeOK, FenceFailed, tick, session, link
    <3>4. ProviderOK'
      BY <1>0, <2>7, <1>k DEF ProviderOK, FenceFailed, Fault, provider
    <3> QED BY <3>1, <3>2, <3>3, <3>4 DEF TypeOK
  <2>8. CASE ExecuteEffects
    <3>1. StoreOK' BY <1>0, <2>8 DEF StoreOK, ExecuteEffects, store
    <3>2. LedgerOK' BY <1>0, <2>8, <1>k DEF LedgerOK, ExecuteEffects, ledger
    <3>3. RuntimeOK'
      BY <1>0, <2>8, <1>k DEF RuntimeOK, ExecuteEffects, tick, session, link
    <3>4. ProviderOK'
      BY <1>0, <2>8, <1>r, <1>k DEF ProviderOK, ExecuteEffects, provider
    <3> QED BY <3>1, <3>2, <3>3, <3>4 DEF TypeOK
  <2> QED BY <1>2, <2>1, <2>2, <2>3, <2>4, <2>5, <2>6, <2>7, <2>8 DEF Tick
<1>3. ASSUME Owner PROVE TypeOK'
  <2>1. ASSUME NEW p \in OwnerPrompts, SendPrompt(p) PROVE TypeOK'
    <3>1. StoreOK' BY <1>0, <2>1 DEF StoreOK, SendPrompt, store
    <3>2. LedgerOK' BY <1>0, <2>1 DEF LedgerOK, SendPrompt, StartOwner, ledger
    <3>3. RuntimeOK'
      BY <1>0, <2>1 DEF RuntimeOK, SendPrompt, StartOwner, tick, session, link
    <3>4. ProviderOK'
      BY <1>0, <2>1, <1>r DEF ProviderOK, SendPrompt, StartOwner, provider
    <3> QED BY <3>1, <3>2, <3>3, <3>4 DEF TypeOK
  <2>2. ASSUME NEW p \in OwnerPrompts, EnqueuePrompt(p) PROVE TypeOK'
    <3>1. StoreOK' BY <1>0, <2>2 DEF StoreOK, EnqueuePrompt, store
    <3>2. LedgerOK' BY <1>0, <2>2 DEF LedgerOK, EnqueuePrompt, ledger
    <3>3. RuntimeOK' BY <1>0, <2>2 DEF RuntimeOK, EnqueuePrompt, tick, session, link
    <3>4. ProviderOK' BY <1>0, <2>2 DEF ProviderOK, EnqueuePrompt, provider
    <3> QED BY <3>1, <3>2, <3>3, <3>4 DEF TypeOK
  <2>3. ASSUME NEW p \in OwnerPrompts, RemoveQueuedPrompt(p) PROVE TypeOK'
    <3>1. PICK i \in DOMAIN queue :
            LET q == SubSeq(queue, 1, i - 1) \o SubSeq(queue, i + 1, Len(queue))
            IN IF Busy
               THEN queue' = q /\ UNCHANGED <<accepted, starting, transcript, inflight>>
               ELSE DrainQueue(q)
      BY <2>3 DEF RemoveQueuedPrompt
    <3> DEFINE q == SubSeq(queue, 1, i - 1) \o SubSeq(queue, i + 1, Len(queue))
    <3>2. q \in Seq(OwnerPrompts)
      BY <1>0 DEF LedgerOK
    <3>3. /\ queue' \in Seq(OwnerPrompts)
          /\ accepted' \in [Prompts -> {"none", "pending", "settled"}]
          /\ starting' \in Prompts \cup {None} /\ transcript' \subseteq Prompts
          /\ inflight' \in Flights
      <4> HIDE DEF q
      <4>1. CASE Busy
        BY <1>0, <3>1, <3>2, <4>1 DEF q, LedgerOK, RuntimeOK, ProviderOK
      <4>2. CASE ~Busy
        <5>1. DrainQueue(q) BY <3>1, <4>2 DEF q
        <5> QED BY <1>d, <3>2, <5>1
      <4> QED BY <4>1, <4>2
    <3>4. StoreOK' BY <1>0, <2>3 DEF StoreOK, RemoveQueuedPrompt, store
    <3>5. LedgerOK' BY <1>0, <2>3, <3>3 DEF LedgerOK, RemoveQueuedPrompt, ledger
    <3>6. RuntimeOK'
      BY <1>0, <2>3, <3>3 DEF RuntimeOK, RemoveQueuedPrompt, tick, link
    <3>7. ProviderOK' BY <1>0, <2>3, <3>3 DEF ProviderOK, RemoveQueuedPrompt
    <3> QED BY <3>4, <3>5, <3>6, <3>7 DEF TypeOK
  <2>4. CASE RetryBlockedPrompt
    <3>1. replay \in Prompts
      BY <1>p, <2>4 DEF RetryBlockedPrompt
    <3>2. StoreOK' BY <1>0, <2>4 DEF StoreOK, RetryBlockedPrompt, store
    <3>3. LedgerOK'
      BY <1>0, <2>4, <3>1 DEF LedgerOK, RetryBlockedPrompt, StartOwner, ledger
    <3>4. RuntimeOK'
      BY <1>0, <2>4, <3>1 DEF RuntimeOK, RetryBlockedPrompt, StartOwner, tick, link
    <3>5. inflight' \in Flights
      BY <1>r, <2>4, <3>1 DEF RetryBlockedPrompt, StartOwner
    <3>6. ProviderOK' BY <1>0, <2>4, <3>5 DEF ProviderOK, RetryBlockedPrompt
    <3> QED BY <3>2, <3>3, <3>4, <3>6 DEF TypeOK
  <2>5. CASE Stop
    <3>1. StoreOK' BY <1>0, <2>5 DEF StoreOK, Stop, store
    <3>2. LedgerOK' BY <1>0, <2>5, <1>k DEF LedgerOK, Stop, ledger
    <3>3. RuntimeOK' BY <1>0, <2>5, <1>k DEF RuntimeOK, Stop, tick, session, link
    <3>4. ProviderOK' BY <1>0, <2>5, <1>k DEF ProviderOK, Stop, provider
    <3> QED BY <3>1, <3>2, <3>3, <3>4 DEF TypeOK
  <2>6. CASE SteerFollowups
    <3>1. StoreOK' BY <1>0, <2>6 DEF StoreOK, SteerFollowups, store
    <3>2. LedgerOK' BY <1>0, <2>6, <1>k DEF LedgerOK, SteerFollowups, ledger
    <3>3. RuntimeOK'
      BY <1>0, <2>6, <1>k DEF RuntimeOK, SteerFollowups, tick, session, link
    <3>4. ProviderOK' BY <1>0, <2>6, <1>k DEF ProviderOK, SteerFollowups, provider
    <3> QED BY <3>1, <3>2, <3>3, <3>4 DEF TypeOK
  <2> QED BY <1>3, <2>1, <2>2, <2>3, <2>4, <2>5, <2>6 DEF Owner
<1>4. ASSUME Provider PROVE TypeOK'
  <2>1. ASSUME NEW t \in TurnIds, TurnAccepted(t) PROVE TypeOK'
    <3>1. StoreOK' BY <1>0, <2>1 DEF StoreOK, TurnAccepted, store
    <3>2. LedgerOK'
      BY <1>0, <2>1 DEF LedgerOK, TurnAccepted, Correlates, ledger
    <3>3. RuntimeOK' BY <1>0, <2>1 DEF RuntimeOK, TurnAccepted, tick, session, link
    <3>4. inflight' \in Flights /\ sends' = sends
      BY <1>f, <2>1 DEF TurnAccepted
    <3>5. ran' \in [TurnIds -> Prompts \cup {None}]
      BY <1>0, <1>f, <2>1 DEF TurnAccepted, ProviderOK
    <3>6. faults' \in Nat
      BY <1>0, <2>1 DEF TurnAccepted, Fault, ProviderOK
    <3>7. ProviderOK' BY <1>0, <3>4, <3>5, <3>6 DEF ProviderOK
    <3> QED BY <3>1, <3>2, <3>3, <3>7 DEF TypeOK
  <2>2. CASE TurnStarted
    <3>1. StoreOK' BY <1>0, <2>2 DEF StoreOK, TurnStarted, store
    <3>2. LedgerOK'
      <4>1. queue' = queue /\ gate' = gate
        BY <2>2 DEF TurnStarted
      <4>2. accepted' \in [Prompts -> {"none", "pending", "settled"}]
        BY <1>0, <2>2 DEF LedgerOK, TurnStarted
      <4>3. Acknowledge(inflight.turn) \/ UNCHANGED ledger
        BY <2>2 DEF TurnStarted
      <4> QED
        BY <1>0, <1>f, <4>1, <4>2, <4>3 DEF LedgerOK, Acknowledge, Settle, ledger
    <3>3. replay' \in Prompts \cup {None}
      BY <1>0, <2>2 DEF RuntimeOK, TurnStarted
    <3>4. RuntimeOK'
      BY <1>0, <1>f, <2>2, <3>3 DEF RuntimeOK, TurnStarted, tick, link
    <3>5. inflight' \in Flights /\ ran' = ran /\ sends' = sends
      BY <1>f, <2>2 DEF TurnStarted
    <3>6. faults' \in Nat
      BY <1>0, <2>2 DEF TurnStarted, Acknowledge, Fault, ProviderOK
    <3>7. ProviderOK' BY <1>0, <3>5, <3>6 DEF ProviderOK
    <3> QED BY <3>1, <3>2, <3>4, <3>7 DEF TypeOK
  <2>3. CASE TurnCompleted
    <3>1. queue \in Seq(OwnerPrompts) /\ DrainQueue(queue)
      BY <1>0, <2>3 DEF LedgerOK, TurnCompleted
    <3>2. /\ queue' \in Seq(OwnerPrompts)
          /\ accepted' \in [Prompts -> {"none", "pending", "settled"}]
          /\ starting' \in Prompts \cup {None} /\ transcript' \subseteq Prompts
          /\ inflight' \in Flights
      BY <1>d, <3>1
    <3>3. Acknowledge(inflight.turn)
      BY <2>3 DEF TurnCompleted
    <3>4. StoreOK' BY <1>0, <2>3 DEF StoreOK, TurnCompleted, store
    <3>5. gate' = gate
      BY <2>3 DEF TurnCompleted
    <3>6. LedgerOK'
      BY <1>0, <1>f, <3>2, <3>3, <3>5 DEF LedgerOK, Acknowledge, Settle, ledger
    <3>7. RuntimeOK' BY <1>0, <2>3, <3>2 DEF RuntimeOK, TurnCompleted, tick, link
    <3>8. ran' = ran /\ sends' = sends
      BY <2>3 DEF TurnCompleted
    <3>9. faults' \in Nat
      BY <1>0, <3>3 DEF Acknowledge, Fault, ProviderOK
    <3>10. ProviderOK' BY <1>0, <3>2, <3>8, <3>9 DEF ProviderOK
    <3> QED BY <3>4, <3>6, <3>7, <3>10 DEF TypeOK
  <2>4. CASE TurnRejected
    <3>1. StoreOK' BY <1>0, <2>4 DEF StoreOK, TurnRejected, store
    <3>2. LedgerOK'
      BY <1>0, <2>4, <1>k DEF LedgerOK, TurnRejected, Settle, Carries, ledger
    <3>3. RuntimeOK'
      BY <1>0, <2>4, <1>k DEF RuntimeOK, TurnRejected, tick, session, link
    <3>4. ProviderOK'
      BY <1>0, <2>4, <1>r, <1>k DEF ProviderOK, TurnRejected, Fault, provider
    <3> QED BY <3>1, <3>2, <3>3, <3>4 DEF TypeOK
  <2>5. CASE InterruptFailed
    <3>1. StoreOK' BY <1>0, <2>5 DEF StoreOK, InterruptFailed, store
    <3>2. LedgerOK' BY <1>0, <2>5, <1>k DEF LedgerOK, InterruptFailed, ledger
    <3>3. RuntimeOK'
      BY <1>0, <2>5, <1>k DEF RuntimeOK, InterruptFailed, tick, session, link
    <3>4. ProviderOK' BY <1>0, <2>5, <1>k DEF ProviderOK, InterruptFailed, provider
    <3> QED BY <3>1, <3>2, <3>3, <3>4 DEF TypeOK
  <2>6. CASE Reconnect
    <3>1. StoreOK' BY <1>0, <2>6 DEF StoreOK, Reconnect, store
    <3>2. LedgerOK' BY <1>0, <2>6, <1>k DEF LedgerOK, Reconnect, ledger
    <3>3. RuntimeOK'
      BY <1>0, <2>6, <1>k DEF RuntimeOK, Reconnect, tick, session, link
    <3>4. ProviderOK' BY <1>0, <2>6, <1>k DEF ProviderOK, Reconnect, provider
    <3> QED BY <3>1, <3>2, <3>3, <3>4 DEF TypeOK
  <2>7. CASE Disconnect
    <3>1. StoreOK' BY <1>0, <2>7 DEF StoreOK, Disconnect, store
    <3>2. LedgerOK' BY <1>0, <2>7, <1>k DEF LedgerOK, Disconnect, ledger
    <3>3. RuntimeOK'
      BY <1>0, <2>7, <1>k DEF RuntimeOK, Disconnect, tick, session, link
    <3>4. ProviderOK'
      BY <1>0, <2>7, <1>r, <1>k DEF ProviderOK, Disconnect, Fault, provider
    <3> QED BY <3>1, <3>2, <3>3, <3>4 DEF TypeOK
  <2> QED
      BY <1>4, <2>1, <2>2, <2>3, <2>4, <2>5, <2>6, <2>7 DEF Provider, Answers
<1>5. ASSUME Recover PROVE TypeOK'
  <2>1. CASE Crash
    <3>1. StoreOK' BY <1>0, <2>1 DEF StoreOK, Crash, store
    <3>2. LedgerOK' BY <1>0, <2>1, <1>k DEF LedgerOK, Crash, ledger
    <3>3. RuntimeOK' BY <1>0, <2>1, <1>k DEF RuntimeOK, Crash, tick, session, link
    <3>4. ProviderOK'
      BY <1>0, <2>1, <1>r, <1>k DEF ProviderOK, Crash, Fault, provider
    <3> QED BY <3>1, <3>2, <3>3, <3>4 DEF TypeOK
  <2>2. CASE Restart
    <3>1. StoreOK' BY <1>0, <2>2 DEF StoreOK, Restart, store
    <3>2. LedgerOK' BY <1>0, <2>2, <1>k DEF LedgerOK, Restart, ledger
    <3>3. RuntimeOK' BY <1>0, <2>2, <1>k DEF RuntimeOK, Restart, tick, session, link
    <3>4. ProviderOK' BY <1>0, <2>2, <1>k DEF ProviderOK, Restart, provider
    <3> QED BY <3>1, <3>2, <3>3, <3>4 DEF TypeOK
  <2>3. CASE OpenSession \/ ReopenForInbox
    <3>1. StoreOK' BY <1>0, <2>3 DEF StoreOK, OpenSession, ReopenForInbox, store
    <3>2. LedgerOK'
      BY <1>0, <2>3, <1>k DEF LedgerOK, OpenSession, ReopenForInbox, ledger
    <3>3. RuntimeOK'
      BY <1>0, <2>3, <1>k DEF RuntimeOK, OpenSession, ReopenForInbox, tick, session,
        link
    <3>4. ProviderOK'
      BY <1>0, <2>3, <1>r, <1>k DEF ProviderOK, OpenSession, ReopenForInbox,
        provider
    <3> QED BY <3>1, <3>2, <3>3, <3>4 DEF TypeOK
  <2>4. CASE Resumed
    <3> DEFINE replays == {p \in Prompts : accepted[p] = "pending"}
               rows    == {p \in Prompts : accepted[p] # "none"}
               Good    == /\ queue' \in Seq(OwnerPrompts)
                          /\ accepted' \in [Prompts -> {"none", "pending", "settled"}]
                          /\ starting' \in Prompts \cup {None}
                          /\ replay' \in Prompts \cup {None}
                          /\ transcript' \subseteq Prompts
                          /\ inflight' \in Flights
    <3>1. ASSUME NEW p \in replays,
                 starting' = p /\ transcript' = rows /\ inflight' = Sent(p),
                 replay' \in IF replays = {p} THEN {None} ELSE replays \ {p},
                 UNCHANGED <<accepted, queue>>
          PROVE Good
      BY <1>0, <1>r, <3>1 DEF LedgerOK
    <3>2. ASSUME replay' = None, queue = <<>>, transcript' = rows,
                 inflight' = Idle, UNCHANGED <<starting, accepted, queue>>
          PROVE Good
      BY <1>0, <1>r, <3>2 DEF LedgerOK, RuntimeOK
    <3>3. ASSUME replay' = None, queue # <<>>,
                 starting' = Head(queue), queue' = Tail(queue),
                 transcript' = rows \cup {Head(queue)},
                 inflight' = Sent(Head(queue)),
                 accepted' = [accepted EXCEPT ![Head(queue)] =
                                IF @ = "none" THEN "pending" ELSE @]
          PROVE Good
      <4>1. queue \in Seq(OwnerPrompts)
        BY <1>0 DEF LedgerOK
      <4>2. Head(queue) \in Prompts /\ Tail(queue) \in Seq(OwnerPrompts)
        BY <1>q, <3>3, <4>1
      <4>3. inflight' \in Flights
        BY <1>r, <3>3, <4>2
      <4>4. accepted' \in [Prompts -> {"none", "pending", "settled"}]
        BY <1>0, <3>3 DEF LedgerOK
      <4> HIDE DEF replays
      <4> QED BY <3>3, <4>2, <4>3, <4>4
    <3>4. Good
      <4> HIDE DEF Good
      <4> QED BY <2>4, <3>1, <3>2, <3>3 DEF Resumed
    <3>5. StoreOK' BY <1>0, <2>4 DEF StoreOK, Resumed, store
    <3>6. LedgerOK' BY <1>0, <2>4, <3>4 DEF LedgerOK, Resumed, ledger
    <3>7. RuntimeOK' BY <1>0, <2>4, <3>4 DEF RuntimeOK, Resumed, tick
    <3>8. ProviderOK' BY <1>0, <2>4, <3>4 DEF ProviderOK, Resumed
    <3> QED BY <3>5, <3>6, <3>7, <3>8 DEF TypeOK
  <2> QED BY <1>5, <2>1, <2>2, <2>3, <2>4 DEF Recover
<1>6. ASSUME NEW g \in GateStates, GateChanges(g) PROVE TypeOK'
  BY <1>0, <1>6 DEF GateChanges, TypeOK, StoreOK, LedgerOK, RuntimeOK, ProviderOK, AllGates, store, ledger, tick, session, link, provider
<1>7. CASE UNCHANGED vars
  BY <1>0, <1>7 DEF TypeOK, StoreOK, LedgerOK, RuntimeOK, ProviderOK, vars, store, ledger, tick, session, link, provider
<1> QED BY <1>1, <1>2, <1>3, <1>4, <1>5, <1>6, <1>7 DEF Next

\* TypeOK: what the tables and the reducer hold is always of its type.
THEOREM TypeCorrect == Spec => []TypeOK
<1>1. Init => TypeOK
  <2> SUFFICES ASSUME Init PROVE TypeOK
    OBVIOUS
  <2>1. StoreOK
    BY DEF Init, StoreOK
  <2>2. LedgerOK
    BY DEF Init, LedgerOK, AllGates
  <2>3. RuntimeOK
    BY DEF Init, RuntimeOK
  <2>4. ProviderOK
    BY DEF Init, ProviderOK, Idle, Flights
  <2> QED BY <2>1, <2>2, <2>3, <2>4 DEF TypeOK
<1> QED BY <1>1, TypeStep, PTL DEF Spec
=============================================================================
