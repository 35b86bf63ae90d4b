----------------------- MODULE BackgroundTasksProofs -----------------------
(***************************************************************************)
(* Safety of BackgroundTasks for every set of tasks and owners and every   *)
(* number of crashes, failed listings and dropped calls.                   *)
(***************************************************************************)
EXTENDS BackgroundTasks, TLAPS

Launching(t) == launching # None /\ launching.task = t

\* A launch has its row to itself, and its phase says how far the process is.
LaunchOK ==
  \A t \in Tasks : Launching(t) =>
    /\ row[t] # None /\ row[t].state = "launching"
    /\ t \notin receipts /\ t \notin stopping
    /\ launching.phase = "row" => world[t] = "absent"
    /\ launching.phase = "gate" => world[t] \in {"gated", "gone"}
    /\ launching.phase = "identified" => world[t] \in {"gated", "gone"} /\ row[t].id = "full"
    /\ launching.phase = "released" => world[t] \in {"live", "orphaned", "gone"}

\* Only a launch keeps a gate, and a process that was identified was there.
ProcessesOK ==
  \A t \in Tasks :
    /\ world[t] = "gated" => Launching(t)
    /\ row[t] # None /\ row[t].id # "none" => world[t] # "absent"

\* A claimed row is stopping, until its stop or an older listing removes it.
ClaimsOK ==
  \A t \in stopping : IF row[t] = None THEN t \in receipts ELSE row[t].state = "stopping"

\* A row that is stopping says why.
ReasonsOK == \A t \in Tasks : row[t] # None /\ row[t].state = "stopping" => row[t].reason # "none"

\* A stop knows the process of its row, and its verdict is final.
StopsOK ==
  \A t \in Tasks : stops[t] # None =>
    /\ t \in stopping
    /\ stops[t].phase = "over" => stops[t].rec.state # "stopping"
    /\ row[t] # None => stops[t].rec.id = row[t].id
    /\ stops[t].rec.id # "none" => world[t] # "absent"
    /\ stops[t].phase = "over" /\ stops[t].rec.state \in Ended => world[t] = "gone"

\* What the monitor saw empty stays empty.
SightOK == \A t \in Tasks : seen[t] # None /\ seen[t].kind = "empty" => world[t] = "gone"

\* A deletion under way is fenced, and not durable before its commit.
DeletionOK ==
  \A o \in Owners : /\ deletion[o] # "none" => o \in fenced
                    /\ deletion[o] = "begun" => o \in session

IInv ==
  /\ TypeOK /\ LaunchOK /\ ProcessesOK /\ ReasonsOK /\ ClaimsOK /\ StopsOK /\ SightOK /\ DeletionOK
  /\ EndedIsGone /\ RunningIsFindable /\ MarksFollowDeletion

-----------------------------------------------------------------------------
(* Types of what the steps compute.                                        *)

\* The record updates that occur in steps yield records and change what they say.
LEMMA SetState ==
  ASSUME NEW r \in Row, NEW s \in States
  PROVE  /\ [r EXCEPT !.state = s] \in Row
         /\ [r EXCEPT !.state = s].state = s
         /\ [r EXCEPT !.state = s].id = r.id
         /\ [r EXCEPT !.state = s].marked = r.marked
BY DEF Row

\* A deletion mark changes nothing else of a record.
LEMMA SetMark ==
  ASSUME NEW r \in Row, NEW b \in BOOLEAN
  PROVE  /\ [r EXCEPT !.marked = b] \in Row
         /\ [r EXCEPT !.marked = b].state = r.state
         /\ [r EXCEPT !.marked = b].id = r.id
         /\ [r EXCEPT !.marked = b].reason = r.reason
         /\ [r EXCEPT !.marked = b].marked = b
BY DEF Row

\* Adoption keeps the identity and the mark of a record.
LEMMA AdoptedRow ==
  ASSUME NEW r \in Row
  PROVE  /\ Adopted(r) \in Row /\ Adopted(r).state = "running"
         /\ Adopted(r).id = r.id /\ Adopted(r).marked = r.marked
BY DEF Row, States, Adopted

\* A launch at a phase is under way.
LEMMA AtPhase ==
  ASSUME NEW t \in Tasks, NEW phase \in {"row", "gate", "identified", "released"},
         At(t, phase)
  PROVE  Launching(t) /\ launching.phase = phase
<1>1. launching \in LaunchState
  BY DEF At, LaunchState
<1> QED BY <1>1, NoneAssumption DEF At, Launching

\* Spending a budget leaves a natural number.
LEMMA SpendType ==
  ASSUME TypeOK, NEW kind \in {"crash", "fault", "cancel"}, Spend(kind)
  PROVE  budget' \in [{"crash", "fault", "cancel"} -> Nat]
BY DEF TypeOK, Spend

\* Reconciliation keeps everything of a row but its state and supervision; it
\* takes a row for ended only when its command does not run.
LEMMA ReconciledRow ==
  ASSUME TypeOK, ReasonsOK, EndedIsGone, RunningIsFindable, NEW t \in Rows, NEW doubted,
         NEW r, r = Reconciled(t, doubted)
  PROVE  /\ r \in Row
         /\ r.id = row[t].id /\ r.marked = row[t].marked
         /\ r.state \notin {"launching", "stopping"}
         /\ r.state \in Ended => ~Runs(t)
         /\ StopOwed(t, r) \in Reasons \cup {None}
<1> DEFINE o == row[t]
           Fine == /\ r \in Row /\ r.id = o.id /\ r.marked = o.marked
                   /\ r.state \notin {"launching", "stopping"}
                   /\ r.state \in Ended => ~Runs(t)
<1>1. o \in Row /\ t \in Tasks /\ o # None
  BY DEF TypeOK, Rows
<1>a. /\ Adopted(o) \in Row /\ Adopted(o).id = o.id /\ Adopted(o).marked = o.marked
      /\ Adopted(o).state = "running"
  BY <1>1, AdoptedRow
<1>s. \A s \in States : /\ [o EXCEPT !.state = s] \in Row
                        /\ [o EXCEPT !.state = s].id = o.id
                        /\ [o EXCEPT !.state = s].marked = o.marked
                        /\ [o EXCEPT !.state = s].state = s
  BY <1>1, SetState
<1>2. o.id = "none" => ~Runs(t)
  BY <1>1 DEF RunningIsFindable
<1>3. ~Present(t) => ~Runs(t)
  BY DEF Present, Runs
<1>4. /\ "failed_to_start" \in States /\ "exited" \in States /\ "unknown" \in States
      /\ "stopped" \in States
  BY DEF States
<1>5. o.state \in States
  BY <1>1 DEF Row
<1>b. ASSUME NEW s \in {"failed_to_start", "exited", "unknown", "stopped"},
             s = "unknown" \/ ~Runs(t), r = [o EXCEPT !.state = s]
      PROVE  Fine
  <2>1. r \in Row /\ r.id = o.id /\ r.marked = o.marked /\ r.state = s
    BY <1>b, <1>s, <1>4
  <2>2. r.state \notin {"launching", "stopping"}
    BY <2>1
  <2>3. r.state \in Ended => ~Runs(t)
    BY <1>b, <2>1 DEF Ended
  <2> QED BY <2>1, <2>2, <2>3
<1>6. ASSUME o.state = "launching" PROVE Fine
  <2>1. r = LaunchReconciled(t, o)
    BY <1>6 DEF Reconciled, Ended
  <2>2. CASE o.id = "none"
    <3>1. r = [o EXCEPT !.state = "failed_to_start"]
      BY <2>1, <2>2 DEF LaunchReconciled
    <3>2. ~Runs(t)
      BY <1>2, <2>2
    <3> QED BY <3>1, <3>2, <1>b
  <2>3. CASE o.id # "none" /\ ~Present(t)
    <3>1. r = [o EXCEPT !.state = "exited"]
      BY <2>1, <2>3 DEF LaunchReconciled
    <3>2. ~Runs(t)
      BY <1>3, <2>3
    <3> QED BY <3>1, <3>2, <1>b
  <2>4. CASE o.id # "none" /\ Present(t)
    <3>1. r = Adopted(o)
      BY <2>1, <2>4 DEF LaunchReconciled
    <3> QED BY <3>1, <1>a DEF Ended
  <2> QED BY <2>2, <2>3, <2>4
<1>7. ASSUME o.state \in {"running", "cleanup_failed", "unknown"} PROVE Fine
  <2>1. r = RunReconciled(t, o)
    BY <1>7 DEF Reconciled, Ended
  <2>2. CASE ~Identified(o)
    <3>1. r = [o EXCEPT !.state = "unknown"]
      BY <2>1, <2>2 DEF RunReconciled
    <3> QED BY <3>1, <1>b
  <2>3. CASE Identified(o) /\ ~Present(t)
    <3>1. \E s \in {"stopped", "exited"} : r = [o EXCEPT !.state = s]
      BY <2>1, <2>3 DEF RunReconciled
    <3>2. ~Runs(t)
      BY <1>3, <2>3
    <3> QED BY <3>1, <3>2, <1>b
  <2>4. CASE Identified(o) /\ Present(t)
    <3>1. (r = o /\ o.state = "cleanup_failed") \/ r = Adopted(o)
      BY <2>1, <2>4 DEF RunReconciled
    <3> QED BY <3>1, <1>1, <1>a DEF Ended
  <2> QED BY <2>2, <2>3, <2>4
<1>8. ASSUME o.state = "stopping" PROVE Fine
  <2>1. r = Adopted(o)
    BY <1>8 DEF Reconciled, Ended
  <2> QED BY <2>1, <1>a DEF Ended
<1>9. ASSUME o.state \in Ended PROVE Fine
  <2>1. r = o \/ r = [o EXCEPT !.state = "unknown"]
    BY <1>9 DEF Reconciled, Ended
  <2>2. ~Runs(t)
    BY <1>1, <1>9 DEF EndedIsGone, Rows
  <2>3. CASE r = o
    BY <2>2, <2>3, <1>1, <1>9 DEF Ended
  <2>4. CASE r = [o EXCEPT !.state = "unknown"]
    BY <2>4, <1>b
  <2> QED BY <2>1, <2>3, <2>4
<1>10. StopOwed(t, r) \in Reasons \cup {None}
  <2>1. o.state = "stopping" => o.reason \in Reasons
    BY <1>1 DEF Row, ReasonsOK
  <2>2. CASE o.state = "stopping"
    BY <2>1, <2>2 DEF StopOwed
  <2>3. CASE o.state # "stopping"
    BY <2>3 DEF StopOwed, Reasons
  <2> QED BY <2>2, <2>3
<1> QED BY <1>5, <1>6, <1>7, <1>8, <1>9, <1>10 DEF States, Ended

-----------------------------------------------------------------------------
(* Every step of Next keeps every variable in its type.                    *)

\* Every step keeps the variables in their types.
LEMMA TypeStep == IInv /\ [Next]_vars => TypeOK'
<1> SUFFICES ASSUME IInv, [Next]_vars PROVE TypeOK'
  OBVIOUS
<1> USE TaskAssumption
<1>0. TypeOK /\ ReasonsOK /\ StopsOK /\ EndedIsGone /\ RunningIsFindable
  BY DEF IInv
<1>r. \A t \in Tasks : row[t] # None => row[t] \in Row
  BY <1>0 DEF TypeOK
<1>s. /\ \A s \in {"failed_to_start", "exited", "unknown", "stopped", "running",
                   "stopping", "cleanup_failed"} : s \in States
      /\ \A e \in Exits : e \in {"none", "zero", "other"}
  BY DEF States, Exits
<1>1. ASSUME NEW t \in Tasks, Start(t) PROVE TypeOK'
  <2>1. Fresh \in Row /\ [task |-> t, phase |-> "row"] \in LaunchState
    BY DEF Fresh, Row, States, Exits, LaunchState
  <2> QED BY <1>0, <1>1, <2>1 DEF Start, TypeOK, procs, deleting
<1>2. ASSUME NEW t \in Tasks, Launch(t) PROVE TypeOK'
  <2>1. ASSUME NEW phase \in {"row", "gate", "identified", "released"}, At(t, phase)
        PROVE  \A q \in {"row", "gate", "identified", "released"} :
                 [launching EXCEPT !.phase = q] \in LaunchState
    BY <2>1 DEF At, LaunchState
  <2>2. CASE SpawnFails(t) \/ IdentifyFails(t)
    <3>1. row' \in [Tasks -> Row \cup {None}]
      <4>1. row[t] # None
        BY <2>2, AtPhase DEF IInv, LaunchOK, SpawnFails, IdentifyFails
      <4>2. \E id \in {"none", "pid", "full"} :
              row' = [row EXCEPT ![t] = [row[t] EXCEPT !.state = "failed_to_start", !.id = id]]
        BY <2>2 DEF SpawnFails, IdentifyFails, LaunchFails
      <4>3. \A id \in {"none", "pid", "full"} :
              [row[t] EXCEPT !.state = "failed_to_start", !.id = id] \in Row
        BY <1>r, <1>s, <4>1 DEF Row
      <4> QED BY <1>0, <4>2, <4>3 DEF TypeOK
    <3>2. /\ launching' = None
          /\ world' \in [Tasks -> Worlds] /\ status' \in [Tasks -> Exits]
          /\ budget' \in [{"crash", "fault", "cancel"} -> Nat]
      BY <1>0, <2>2, SpendType
         DEF SpawnFails, IdentifyFails, LaunchFails, procs, TypeOK, Worlds, Exits
    <3> QED BY <1>0, <2>2, <3>1, <3>2 DEF SpawnFails, IdentifyFails, TypeOK, procs, deleting
  <2>3. CASE Spawn(t)
    BY <1>0, <2>1, <2>3 DEF Spawn, TypeOK, durable, deleting, Worlds
  <2>4. CASE Identify(t)
    <3>1. row[t] # None
      BY <2>4, AtPhase DEF IInv, LaunchOK, Identify
    <3>2. [row[t] EXCEPT !.id = "full"] \in Row
      BY <1>r, <3>1 DEF Row
    <3>3. row' = [row EXCEPT ![t] = [row[t] EXCEPT !.id = "full"]]
      BY <2>4 DEF Identify
    <3> QED BY <1>0, <2>1, <2>4, <3>2, <3>3 DEF Identify, TypeOK, procs, deleting
  <2>5. CASE Release(t)
    BY <1>0, <2>1, <2>5 DEF Release, TypeOK, durable, deleting, Worlds
  <2>6. CASE Launched(t)
    <3>1. row[t] # None
      BY <2>6, AtPhase DEF IInv, LaunchOK, Launched
    <3>2. row' \in [Tasks -> Row \cup {None}]
      <4>1. [row[t] EXCEPT !.state = "running"] \in Row
        BY <1>r, <1>s, <3>1, SetState
      <4>2. row' = row \/ row' = [row EXCEPT ![t] = [row[t] EXCEPT !.state = "running"]]
        BY <2>6 DEF Launched
      <4> QED BY <1>0, <4>1, <4>2 DEF TypeOK
    <3>3. budget' \in [{"crash", "fault", "cancel"} -> Nat]
      BY <1>0, <2>6, SpendType DEF Launched, TypeOK
    <3> QED BY <1>0, <2>6, <3>2, <3>3 DEF Launched, TypeOK, procs, deleting
  <2> QED BY <1>2, <2>2, <2>3, <2>4, <2>5, <2>6 DEF Launch
<1>3. ASSUME NEW t \in Tasks, CancelStart(t) PROVE TypeOK'
  <2>1. budget' \in [{"crash", "fault", "cancel"} -> Nat]
    BY <1>0, <1>3, SpendType DEF CancelStart
  <2> QED BY <1>0, <1>3, <2>1 DEF CancelStart, TypeOK, durable, deleting, Worlds
<1>4. ASSUME NEW t \in Tasks, NEW s \in Exits, LeaderEnds(t, s) PROVE TypeOK'
  BY <1>0, <1>4 DEF LeaderEnds, TypeOK, durable, volatile, deleting, Worlds
<1>5. ASSUME NEW t \in Tasks, SurvivorsEnd(t) \/ Reap(t) PROVE TypeOK'
  BY <1>0, <1>5 DEF SurvivorsEnd, Reap, TypeOK, durable, procs, volatile, deleting, Worlds
<1>b. ASSUME NEW t \in Tasks, NEW why \in Reasons, NEW call \in BOOLEAN,
             BeginStop(t, why, call)
      PROVE  /\ row' \in [Tasks -> Row \cup {None}] /\ stopping' \subseteq Tasks
             /\ stops' \in [Tasks -> StopState \cup {None}]
  <2> DEFINE r == [row[t] EXCEPT !.state = "stopping", !.reason = why]
  <2>1. row[t] \in Row
    BY <1>b, <1>r DEF BeginStop, Stoppable, Unclaimed, Rows
  <2>2. r \in Row
    BY <2>1, <1>s DEF Row
  <2>3. [rec |-> r, phase |-> "term", call |-> call] \in StopState
    BY <2>2 DEF StopState
  <2>4. /\ row' = [row EXCEPT ![t] = r] /\ stopping' = stopping \cup {t}
        /\ stops' = [stops EXCEPT ![t] = [rec |-> r, phase |-> "term", call |-> call]]
    BY <1>b DEF BeginStop
  <2> HIDE DEF r
  <2> QED BY <1>0, <2>2, <2>3, <2>4 DEF TypeOK
<1>m. ASSUME NEW t \in Tasks, Remove(t)
      PROVE  /\ row' \in [Tasks -> Row \cup {None}] /\ receipts' \subseteq Tasks
             /\ exits' \in [Tasks -> Exits]
  BY <1>0, <1>m DEF Remove, TypeOK, Exits
<1>6. ASSUME NEW t \in Tasks, NEW call \in BOOLEAN, Stop(t, call) PROVE TypeOK'
  <2>1. BeginStop(t, "requested", call)
    BY <1>6 DEF Stop
  <2> QED BY <1>0, <1>6, <1>b, <2>1 DEF Stop, Reasons, TypeOK, procs, deleting
<1>7. ASSUME NEW t \in Tasks, ResumeStop(t) PROVE TypeOK'
  <2>1. resume[t] \in Reasons
    BY <1>0, <1>7 DEF ResumeStop, TypeOK
  <2>2. /\ row' \in [Tasks -> Row \cup {None}] /\ stopping' \subseteq Tasks
        /\ stops' \in [Tasks -> StopState \cup {None}]
    BY <1>0, <1>7, <1>b, <2>1 DEF ResumeStop, TypeOK
  <2> QED BY <1>0, <1>7, <2>2 DEF ResumeStop, TypeOK, procs, deleting
<1>8. ASSUME NEW t \in Tasks, Terminate(t) PROVE TypeOK'
  <2> DEFINE r == stops[t].rec
  <2>1. stops[t] \in StopState /\ r \in Row
    BY <1>0, <1>8 DEF Terminate, Signalling, TypeOK, StopState
  <2>2. /\ [r EXCEPT !.state = "cleanup_failed"] \in Row
        /\ [r EXCEPT !.state = "stopped", !.exit = exits[t]] \in Row
    BY <1>0, <1>s, <2>1 DEF Row, TypeOK
  <2>3. \A q \in Row : [stops[t] EXCEPT !.rec = q, !.phase = "over"] \in StopState
    BY <2>1 DEF StopState
  <2>4. [stops[t] EXCEPT !.phase = "kill"] \in StopState
    BY <2>1 DEF StopState
  <2>5. \/ \E q \in Row : stops' = [stops EXCEPT ![t] = [stops[t] EXCEPT !.rec = q, !.phase = "over"]]
        \/ stops' = [stops EXCEPT ![t] = [stops[t] EXCEPT !.phase = "kill"]]
    BY <1>8, <2>2 DEF Terminate, Verdict
  <2>6. PICK next \in StopState : stops' = [stops EXCEPT ![t] = next]
    <3>1. CASE \E q \in Row : stops' = [stops EXCEPT ![t] = [stops[t] EXCEPT !.rec = q, !.phase = "over"]]
      BY <2>3, <3>1, Zenon
    <3>2. CASE stops' = [stops EXCEPT ![t] = [stops[t] EXCEPT !.phase = "kill"]]
      BY <2>4, <3>2, Zenon
    <3> QED BY <2>5, <3>1, <3>2
  <2>7. stops \in [Tasks -> StopState \cup {None}]
    BY <1>0 DEF TypeOK
  <2>8. stops' \in [Tasks -> StopState \cup {None}]
    BY <2>6, <2>7
  <2>9. budget' \in [{"crash", "fault", "cancel"} -> Nat]
    BY <1>0, <1>8, SpendType DEF Terminate, TypeOK
  <2> QED BY <1>0, <1>8, <2>9, <2>8 DEF Terminate, TypeOK, durable, procs, deleting
<1>9. ASSUME NEW t \in Tasks, EndStop(t) PROVE TypeOK'
  <2> DEFINE r == Refreshed(t, stops[t].rec)
  <2>1. stops[t].rec \in Row
    BY <1>0, <1>9 DEF EndStop, TypeOK, StopState
  <2>2. row[t] # None => row[t].marked \in BOOLEAN
    BY <1>r DEF Row
  <2>3. r \in Row
    BY <2>1, <2>2, SetMark DEF Refreshed
  <2>4. Remove(t) \/ Save(t, r) \/ Save(t, None)
    BY <1>9 DEF EndStop
  <2> HIDE DEF r
  <2>5. /\ row' \in [Tasks -> Row \cup {None}] /\ receipts' \subseteq Tasks
        /\ exits' \in [Tasks -> Exits]
    BY <1>0, <1>m, <2>3, <2>4 DEF Save, TypeOK
  <2>6. /\ stops' \in [Tasks -> StopState \cup {None}] /\ stopping' \subseteq Tasks
    BY <1>0, <1>9 DEF EndStop, TypeOK
  <2> QED BY <1>0, <1>9, <2>5, <2>6 DEF EndStop, TypeOK, procs, deleting
<1>10. ASSUME NEW t \in Tasks, CancelStop(t) PROVE TypeOK'
  <2>1. budget' \in [{"crash", "fault", "cancel"} -> Nat]
    BY <1>0, <1>10, SpendType DEF CancelStop
  <2> QED BY <1>0, <1>10, <2>1 DEF CancelStop, TypeOK, durable, procs, deleting
<1>11. ASSUME NEW t \in Tasks, Dismiss(t) PROVE TypeOK'
  <2>1. Remove(t)
    BY <1>11 DEF Dismiss
  <2> QED BY <1>0, <1>11, <1>m, <2>1 DEF Dismiss, TypeOK, procs, deleting
<1>12. ASSUME NEW o \in Owners,
              BeginOwnerDeletion(o) \/ CommitDeletion(o) \/ DeletionFails(o) \/ ListForCleanup(o)
       PROVE  TypeOK'
  <2>1. \A b \in BOOLEAN : Marked(o, b) \in [Tasks -> Row \cup {None}]
    BY <1>0, <1>r, SetMark DEF Marked, Rows, TypeOK
  <2>2. CASE BeginOwnerDeletion(o)
    BY <1>0, <2>1, <2>2 DEF BeginOwnerDeletion, TypeOK, procs
  <2>3. CASE CommitDeletion(o)
    BY <1>0, <2>3 DEF CommitDeletion, TypeOK, procs
  <2>4. CASE DeletionFails(o)
    BY <1>0, <2>1, <2>4 DEF DeletionFails, TypeOK, procs
  <2>5. CASE ListForCleanup(o)
    BY <1>0, <2>5 DEF ListForCleanup, TypeOK, durable, procs
  <2> QED BY <1>12, <2>2, <2>3, <2>4, <2>5
<1>13. ASSUME NEW t \in Tasks, CleanUp(t) PROVE TypeOK'
  <2>1. \/ Remove(t) /\ UNCHANGED <<stopping, stops>>
        \/ BeginStop(t, "owner_deleted", FALSE) /\ UNCHANGED <<receipts, exits>>
        \/ UNCHANGED <<row, receipts, exits, stopping, stops>>
    BY <1>13 DEF CleanUp
  <2>2. /\ row' \in [Tasks -> Row \cup {None}] /\ receipts' \subseteq Tasks
        /\ exits' \in [Tasks -> Exits] /\ stopping' \subseteq Tasks
        /\ stops' \in [Tasks -> StopState \cup {None}]
    BY <1>0, <1>b, <1>m, <2>1 DEF Reasons, TypeOK
  <2>3. budget' \in [{"crash", "fault", "cancel"} -> Nat]
    BY <1>0, <1>13, SpendType DEF CleanUp, TypeOK
  <2>4. cleanup' \in [Tasks -> Row \cup {None}]
    BY <1>0, <1>13 DEF CleanUp, TypeOK
  <2> QED BY <1>0, <1>13, <2>2, <2>3, <2>4 DEF CleanUp, TypeOK, procs
<1>14. ASSUME Observe PROVE TypeOK'
  <2>1. \A t \in Tasks : Sight(t) \in Sighting \cup {None}
    <3> SUFFICES ASSUME NEW t \in Tasks PROVE Sight(t) \in Sighting \cup {None}
      OBVIOUS
    <3>1. exits[t] \in Exits /\ "none" \in Exits
      BY <1>0 DEF TypeOK, Exits
    <3>2. CASE ~Present(t)
      BY <3>1, <3>2 DEF Sight, Sighting
    <3>3. CASE Present(t)
      BY <3>1, <3>3 DEF Sight, Sighting
    <3> QED BY <3>2, <3>3
  <2>2. [kind |-> "unlisted", exit |-> "none"] \in Sighting
    BY DEF Sighting, Exits
  <2>3. seen' \in [Tasks -> Sighting \cup {None}]
    BY <1>14, <2>1, <2>2 DEF Observe
  <2>4. budget' \in [{"crash", "fault", "cancel"} -> Nat]
    BY <1>0, <1>14, SpendType DEF Observe, TypeOK
  <2> QED BY <1>0, <1>14, <2>3, <2>4 DEF Observe, TypeOK, durable, procs, deleting
<1>15. ASSUME NEW t \in Tasks, Apply(t) PROVE TypeOK'
  <2>1. seen[t] \in Sighting /\ seen[t].exit \in Exits /\ exits[t] \in Exits
    BY <1>0, <1>15 DEF Apply, TypeOK, Sighting
  <2>2. row[t] # None => row[t] \in Row
    BY <1>r
  <2>3. row[t] # None =>
          /\ \A s \in {"unknown", "running"} : [row[t] EXCEPT !.state = s] \in Row
          /\ \A e \in Exits : [row[t] EXCEPT !.state = "exited", !.exit = e] \in Row
    BY <2>2, <1>s DEF Row
  <2>4. StillAsSeen(t) => row[t] # None
    BY DEF StillAsSeen, Unclaimed, Rows
  <2>5. \/ Remove(t)
        \/ \E r \in Row : Save(t, r)
        \/ UNCHANGED <<row, receipts, exits>>
    <3>1. CASE ~StillAsSeen(t)
      BY <1>15, <3>1 DEF Apply
    <3>2. CASE StillAsSeen(t) /\ seen[t].kind \in {"unlisted", "alive"}
      BY <1>15, <2>3, <2>4, <3>2 DEF Apply
    <3>3. CASE StillAsSeen(t) /\ seen[t].kind = "empty"
      <4>1. PICK e \in Exits : SettleExit(t, e)
        BY <1>15, <2>1, <3>3 DEF Apply
      <4> QED BY <2>3, <2>4, <3>3, <4>1 DEF SettleExit
    <3> QED BY <2>1, <3>1, <3>2, <3>3 DEF Sighting
  <2>6. /\ row' \in [Tasks -> Row \cup {None}] /\ receipts' \subseteq Tasks
        /\ exits' \in [Tasks -> Exits]
    BY <1>0, <1>m, <2>5 DEF Save, TypeOK
  <2>7. seen' \in [Tasks -> Sighting \cup {None}]
    BY <1>0, <1>15 DEF Apply, TypeOK
  <2> QED BY <1>0, <1>15, <2>6, <2>7 DEF Apply, TypeOK, procs, deleting
<1>16. ASSUME Crash PROVE TypeOK'
  <2>1. budget' \in [{"crash", "fault", "cancel"} -> Nat]
    BY <1>0, <1>16, SpendType DEF Crash
  <2> QED BY <1>0, <1>16, <2>1 DEF Crash, TypeOK, durable, Nothing, Worlds, Exits
<1>17. ASSUME Restart PROVE TypeOK'
  BY <1>0, <1>17 DEF Restart, TypeOK, durable, procs, volatile, deleting
<1>18. ASSUME ReconcileUnlisted PROVE TypeOK'
  <2>1. budget' \in [{"crash", "fault", "cancel"} -> Nat]
    BY <1>0, <1>18, SpendType DEF ReconcileUnlisted
  <2>2. row' \in [Tasks -> Row \cup {None}]
    <3>1. \A t \in Rows : [row[t] EXCEPT !.state = "unknown"] \in Row
      BY <1>r, <1>s, SetState DEF Rows
    <3> QED BY <1>0, <1>18, <3>1 DEF ReconcileUnlisted, TypeOK
  <2> QED BY <1>0, <1>18, <2>1, <2>2 DEF ReconcileUnlisted, TypeOK, procs, volatile, deleting
<1>19. ASSUME Reconcile PROVE TypeOK'
  <2>1. PICK doubted \in SUBSET {t \in Rows : row[t].state \in Ended} :
          LET now  == [t \in Unclaimed |-> Reconciled(t, doubted)]
              over == {t \in Unclaimed : Acknowledged(now[t])} IN
          /\ IF doubted = {} THEN UNCHANGED budget ELSE Spend("fault")
          /\ row' = [t \in Tasks |-> IF t \in over THEN None
                                     ELSE IF t \in Unclaimed THEN now[t] ELSE row[t]]
          /\ receipts' = receipts \cup over
          /\ exits' = [t \in Tasks |-> IF t \in over THEN "none" ELSE exits[t]]
          /\ resume' = [t \in Tasks |-> IF t \in Unclaimed \ over THEN StopOwed(t, now[t])
                                        ELSE resume[t]]
    BY <1>19 DEF Reconcile
  <2>2. \A t \in Unclaimed : /\ Reconciled(t, doubted) \in Row
                             /\ StopOwed(t, Reconciled(t, doubted)) \in Reasons \cup {None}
    BY <1>0, ReconciledRow DEF Unclaimed
  <2>3. budget' \in [{"crash", "fault", "cancel"} -> Nat]
    BY <1>0, <2>1, SpendType DEF TypeOK
  <2>4. Unclaimed \subseteq Tasks
    BY DEF Unclaimed, Rows
  <2>5. /\ row' \in [Tasks -> Row \cup {None}] /\ receipts' \subseteq Tasks
        /\ exits' \in [Tasks -> Exits] /\ resume' \in [Tasks -> Reasons \cup {None}]
    BY <1>0, <2>1, <2>2, <2>4 DEF TypeOK, Exits
  <2> QED BY <1>0, <1>19, <2>3, <2>5 DEF Reconcile, TypeOK, procs, deleting
<1>20. CASE UNCHANGED vars
  BY <1>0, <1>20 DEF vars, durable, procs, volatile, deleting, TypeOK
<1> QED
  BY <1>1, <1>2, <1>3, <1>4, <1>5, <1>6, <1>7, <1>8, <1>9, <1>10, <1>11, <1>12, <1>13,
     <1>14, <1>15, <1>16, <1>17, <1>18, <1>19, <1>20 DEF Next

-----------------------------------------------------------------------------
(* Steps that write rows preserve what IInv says of rows and processes.    *)

\* A step of the launch of t gives its row the value q.
LEMMA LaunchWrite ==
  ASSUME IInv, TypeOK', NEW t \in Tasks, NEW q \in Row,
         row' = [row EXCEPT ![t] = q], t \notin stopping, t \notin receipts,
         UNCHANGED <<receipts, session, stopping, stops, fenced, deletion, seen>>,
         q.state # "stopping", q.state \in Ended => world'[t] \notin {"live", "orphaned"},
         world'[t] \in {"live", "orphaned"} => q.id = "full",
         q.id # "none" => world'[t] # "absent",
         world[t] = "gone" => world'[t] = "gone",
         \A u \in Tasks : u # t => world'[u] = world[u],
         \A u \in Tasks : world'[u] = "gated" => Launching(u)',
         \/ row[t] # None /\ q.marked = row[t].marked
         \/ OwnerOf[t] \in session /\ OwnerOf[t] \notin fenced
  PROVE  /\ ProcessesOK' /\ ReasonsOK' /\ ClaimsOK' /\ StopsOK' /\ SightOK' /\ DeletionOK'
         /\ EndedIsGone' /\ RunningIsFindable' /\ MarksFollowDeletion'
<1>0. /\ TypeOK /\ ProcessesOK /\ ReasonsOK /\ ClaimsOK /\ StopsOK /\ SightOK /\ DeletionOK
      /\ EndedIsGone /\ RunningIsFindable /\ MarksFollowDeletion
  BY DEF IInv
<1>1. row'[t] = q /\ q # None /\ \A u \in Tasks : u # t => row'[u] = row[u]
  BY <1>0, NoneAssumption DEF TypeOK
<1>2. stopping \subseteq Tasks
  BY <1>0 DEF TypeOK
<1>3. stops[t] = None
  BY <1>0 DEF StopsOK
<1>4. ProcessesOK'
  BY <1>0, <1>1 DEF ProcessesOK
<1>5. ReasonsOK'
  BY <1>0, <1>1 DEF ReasonsOK
<1>6. ClaimsOK'
  BY <1>0, <1>1, <1>2 DEF ClaimsOK
<1>7. StopsOK'
  BY <1>0, <1>1, <1>3 DEF StopsOK
<1>8. SightOK'
  BY <1>0 DEF SightOK
<1>9. DeletionOK'
  BY <1>0 DEF DeletionOK
<1>10. EndedIsGone'
  BY <1>0, <1>1 DEF EndedIsGone, Rows, Runs
<1>11. RunningIsFindable'
  BY <1>0, <1>1 DEF RunningIsFindable, Rows, Runs
<1>12. MarksFollowDeletion'
  <2> SUFFICES ASSUME NEW o \in Owners, deletion[o] # "none" \/ o \notin session,
                      NEW u \in Tasks, OwnerOf[u] = o, row'[u] # None
               PROVE  row'[u].marked
    BY DEF MarksFollowDeletion, Of, Rows
  <2>1. row[u] # None => row[u].marked
    BY <1>0 DEF MarksFollowDeletion, Of, Rows
  <2>2. OwnerOf[u] \in fenced \/ OwnerOf[u] \notin session
    BY <1>0 DEF DeletionOK
  <2> QED BY <1>1, <2>1, <2>2
<1> QED BY <1>4, <1>5, <1>6, <1>7, <1>8, <1>9, <1>10, <1>11, <1>12

\* What a step under the lock may do to the row of u: leave it, remove it when
\* nothing of the task runs, or change the verdict but not the identity or the mark.
RowMoves(u) ==
  \/ row'[u] = row[u]
  \/ row'[u] = None /\ ~Runs(u)
  \/ /\ row[u] # None /\ row'[u] # None
     /\ row'[u].id = row[u].id /\ row'[u].marked = row[u].marked
     /\ row'[u].state \in Ended => ~Runs(u)
     /\ row'[u].state = "stopping" => row'[u].reason # "none"

\* Under the lock, such moves keep what IInv says of rows and processes.
LEMMA LockedWrite ==
  ASSUME IInv, Unlocked, UNCHANGED <<world, launching, session, fenced, deletion>>,
         \A u \in Tasks : RowMoves(u),
         \A u \in receipts' : u \in receipts \/ ~Runs(u)
  PROVE  /\ LaunchOK' /\ ProcessesOK' /\ ReasonsOK' /\ DeletionOK'
         /\ EndedIsGone' /\ RunningIsFindable' /\ MarksFollowDeletion'
<1>0. /\ ProcessesOK /\ ReasonsOK /\ DeletionOK
      /\ EndedIsGone /\ RunningIsFindable /\ MarksFollowDeletion
  BY DEF IInv
<1>1. LaunchOK'
  BY DEF LaunchOK, Launching, Unlocked
<1>2. ProcessesOK'
  BY <1>0 DEF ProcessesOK, RowMoves, Launching
<1>3. ReasonsOK'
  BY <1>0 DEF ReasonsOK, RowMoves
<1>4. DeletionOK'
  BY <1>0 DEF DeletionOK
<1>5. EndedIsGone'
  BY <1>0 DEF EndedIsGone, RowMoves, Rows, Runs
<1>6. RunningIsFindable'
  BY <1>0 DEF RunningIsFindable, RowMoves, Rows, Runs
<1>7. MarksFollowDeletion'
  BY <1>0 DEF MarksFollowDeletion, RowMoves, Rows, Of
<1> QED BY <1>1, <1>2, <1>3, <1>4, <1>5, <1>6, <1>7

\* Removing the row of a task that does not run is such a move.
LEMMA RemoveMoves ==
  ASSUME IInv, NEW t \in Tasks, Remove(t), ~Runs(t)
  PROVE  /\ \A u \in Tasks : RowMoves(u)
         /\ \A u \in receipts' : u \in receipts \/ ~Runs(u)
         /\ row'[t] = None /\ t \in receipts' /\ receipts \subseteq receipts'
         /\ \A u \in Tasks : u # t => row'[u] = row[u]
BY DEF IInv, TypeOK, Remove, RowMoves

\* So is saving a verdict that keeps identity and mark.
LEMMA SaveMoves ==
  ASSUME IInv, NEW t \in Tasks, NEW q \in Row, Save(t, q),
         row[t] # None, q.id = row[t].id, q.marked = row[t].marked,
         q.state \in Ended => ~Runs(t), q.state # "stopping"
  PROVE  /\ \A u \in Tasks : RowMoves(u)
         /\ \A u \in receipts' : u \in receipts \/ ~Runs(u)
         /\ row'[t] = q /\ receipts' = receipts
         /\ \A u \in Tasks : u # t => row'[u] = row[u]
BY NoneAssumption DEF IInv, TypeOK, Save, RowMoves

\* The first half of a stop: the claim and the durable intent.
LEMMA BeginStopStep ==
  ASSUME IInv, TypeOK', NEW t \in Tasks, NEW why \in Reasons, NEW call \in BOOLEAN,
         BeginStop(t, why, call),
         UNCHANGED <<receipts, session, world, launching, fenced, deletion, seen>>
  PROVE  IInv'
<1> DEFINE r == [row[t] EXCEPT !.state = "stopping", !.reason = why]
<1>0. TypeOK /\ ProcessesOK /\ ClaimsOK /\ StopsOK /\ SightOK
  BY DEF IInv
<1>1. row[t] \in Row /\ t \notin stopping /\ row[t] # None
  BY <1>0 DEF BeginStop, Stoppable, Unclaimed, Rows, TypeOK
<1>2. /\ r \in Row /\ r.state = "stopping" /\ r.id = row[t].id /\ r.marked = row[t].marked
      /\ r.reason = why /\ why # "none"
  BY <1>1 DEF Row, States, Reasons
<1>3. /\ row' = [row EXCEPT ![t] = r] /\ stopping' = stopping \cup {t}
      /\ stops' = [stops EXCEPT ![t] = [rec |-> r, phase |-> "term", call |-> call]]
      /\ Unlocked
  BY DEF BeginStop
<1> HIDE DEF r
<1>4. row'[t] = r /\ r # None /\ \A u \in Tasks : u # t => row'[u] = row[u]
  BY <1>0, <1>2, <1>3, NoneAssumption DEF TypeOK
<1>5. \A u \in Tasks : RowMoves(u)
  BY <1>1, <1>2, <1>4 DEF RowMoves, Ended
<1>6. /\ LaunchOK' /\ ProcessesOK' /\ ReasonsOK' /\ DeletionOK'
      /\ EndedIsGone' /\ RunningIsFindable' /\ MarksFollowDeletion'
  BY <1>3, <1>5, LockedWrite
<1>7. ClaimsOK'
  BY <1>0, <1>2, <1>3, <1>4 DEF ClaimsOK, TypeOK
<1>8. /\ stops'[t].rec = r /\ stops'[t].phase = "term"
      /\ \A u \in Tasks : u # t => stops'[u] = stops[u]
  BY <1>0, <1>3 DEF TypeOK
<1>9. StopsOK'
  BY <1>0, <1>1, <1>2, <1>3, <1>4, <1>8 DEF StopsOK, ProcessesOK
<1>10. SightOK'
  BY <1>0 DEF SightOK
<1> QED BY <1>6, <1>7, <1>9, <1>10 DEF IInv

\* A step that neither begins a stop nor changes what one has found keeps the
\* claims, as long as claimed rows are at most removed.
LEMMA ClaimsKept ==
  ASSUME IInv, UNCHANGED world, receipts \subseteq receipts',
         stopping' \subseteq stopping,
         \A u \in Tasks : stops'[u] = None \/ (stops'[u] = stops[u] /\ u \in stopping'),
         \A u \in stopping' : row'[u] = row[u] \/ (row'[u] = None /\ u \in receipts')
  PROVE  ClaimsOK' /\ StopsOK'
<1>0. ClaimsOK /\ StopsOK
  BY DEF IInv
<1>1. ClaimsOK'
  BY <1>0 DEF ClaimsOK
<1>2. StopsOK'
  BY <1>0 DEF StopsOK
<1> QED BY <1>1, <1>2

-----------------------------------------------------------------------------
(* The invariant is inductive.                                             *)

\* Nothing is started yet.
LEMMA InitInv == Init => IInv
<1> SUFFICES ASSUME Init PROVE IInv
  OBVIOUS
<1>1. TypeOK
  BY TaskAssumption DEF Init, TypeOK, Nothing, Exits, Worlds
<1>2. /\ launching = None /\ stopping = {} /\ receipts = {}
      /\ \A t \in Tasks : row[t] = None /\ world[t] = "absent" /\ stops[t] = None /\ seen[t] = None
      /\ \A o \in Owners : deletion[o] = "none" /\ o \in session
  BY DEF Init, Nothing
<1>3. LaunchOK /\ ProcessesOK /\ ReasonsOK /\ ClaimsOK /\ StopsOK /\ SightOK /\ DeletionOK
  BY <1>2 DEF LaunchOK, Launching, ProcessesOK, ReasonsOK, ClaimsOK, StopsOK, SightOK, DeletionOK
<1>4. EndedIsGone /\ RunningIsFindable /\ MarksFollowDeletion
  BY <1>2 DEF EndedIsGone, RunningIsFindable, MarksFollowDeletion, Rows, Runs, Of
<1> QED BY <1>1, <1>3, <1>4 DEF IInv

\* A launch, from the durable row to the released command.
LEMMA LaunchStep ==
  ASSUME IInv, TypeOK', NEW t \in Tasks, Start(t) \/ Launch(t)
  PROVE  IInv'
<1>0. /\ TypeOK /\ LaunchOK /\ ProcessesOK /\ ClaimsOK /\ RunningIsFindable
  BY DEF IInv
<1>2. CASE Start(t)
  <2>1. /\ Fresh \in Row /\ Fresh.state = "launching" /\ Fresh.id = "none"
    BY DEF Fresh, Row, States, Exits
  <2>2. /\ row' = [row EXCEPT ![t] = Fresh] /\ world' = world /\ world[t] = "absent"
        /\ row[t] = None /\ t \notin receipts /\ launching = None
        /\ launching' = [task |-> t, phase |-> "row"]
        /\ OwnerOf[t] \in session /\ OwnerOf[t] \notin fenced
        /\ UNCHANGED <<receipts, session, stopping, stops, fenced, deletion, seen>>
    BY <1>2 DEF Start, Unlocked, procs, deleting
  <2>3. t \notin stopping
    BY <1>0, <2>2 DEF ClaimsOK
  <2>4. \A u \in Tasks : world[u] # "gated"
    BY <1>0, <2>2 DEF ProcessesOK, Launching
  <2>5. /\ ProcessesOK' /\ ReasonsOK' /\ ClaimsOK' /\ StopsOK' /\ SightOK' /\ DeletionOK'
        /\ EndedIsGone' /\ RunningIsFindable' /\ MarksFollowDeletion'
    BY <2>1, <2>2, <2>3, <2>4, LaunchWrite DEF Ended
  <2>6. row'[t] = Fresh /\ Fresh # None
    BY <1>0, <2>1, <2>2, NoneAssumption DEF TypeOK
  <2>7. LaunchOK'
    BY <2>1, <2>2, <2>3, <2>6 DEF LaunchOK, Launching
  <2> QED BY <2>5, <2>7 DEF IInv
<1>3. CASE Launch(t)
  <2>1. Launching(t) /\ launching.phase \in {"row", "gate", "identified", "released"}
    BY <1>3, AtPhase DEF Launch, SpawnFails, Spawn, Identify, IdentifyFails, Release, Launched
  <2>2. /\ row[t] # None /\ row[t] \in Row /\ row[t].state = "launching"
        /\ t \notin receipts /\ t \notin stopping
    BY <1>0, <2>1 DEF LaunchOK, TypeOK
  <2>3. \A u \in Tasks : world[u] = "gated" => u = t
    BY <1>0, <2>1 DEF ProcessesOK, Launching
  <2>4. row = [row EXCEPT ![t] = row[t]]
    BY <1>0 DEF TypeOK
  <2>5. \A s \in {"failed_to_start", "running"}, id \in {"none", "pid", "full"} :
          /\ [row[t] EXCEPT !.state = s, !.id = id] \in Row
          /\ [row[t] EXCEPT !.state = s, !.id = id].state = s
          /\ [row[t] EXCEPT !.state = s, !.id = id].id = id
          /\ [row[t] EXCEPT !.state = s, !.id = id].marked = row[t].marked
    BY <2>2 DEF Row, States
  <2>6. /\ [row[t] EXCEPT !.id = "full"] \in Row
        /\ [row[t] EXCEPT !.id = "full"].state = "launching"
        /\ [row[t] EXCEPT !.id = "full"].id = "full"
        /\ [row[t] EXCEPT !.id = "full"].marked = row[t].marked
    BY <2>2 DEF Row
  <2>7. /\ [row[t] EXCEPT !.state = "running"] \in Row
        /\ [row[t] EXCEPT !.state = "running"].state = "running"
        /\ [row[t] EXCEPT !.state = "running"].id = row[t].id
        /\ [row[t] EXCEPT !.state = "running"].marked = row[t].marked
    BY <2>2, SetState DEF States
  <2> DEFINE Rest == /\ ProcessesOK' /\ ReasonsOK' /\ ClaimsOK' /\ StopsOK' /\ SightOK'
                     /\ DeletionOK' /\ EndedIsGone' /\ RunningIsFindable' /\ MarksFollowDeletion'
             NewPhase(q) == /\ launching' \in LaunchState /\ launching'.task = t
                            /\ launching'.phase = q /\ Launching(t)'
  <2>8. ASSUME NEW q \in {"row", "gate", "identified", "released"},
               launching' = [launching EXCEPT !.phase = q]
        PROVE  NewPhase(q)
    <3>1. launching \in LaunchState /\ launching.task = t
      BY <1>0, <2>1 DEF TypeOK, Launching
    <3>2. launching' \in LaunchState /\ launching'.task = t /\ launching'.phase = q
      BY <2>8, <3>1 DEF LaunchState
    <3> QED BY <3>2, NoneAssumption DEF Launching
  <2>9. CASE SpawnFails(t)
    <3>1. world[t] = "absent"
      BY <1>0, <2>9, AtPhase DEF SpawnFails, LaunchOK
    <3>2. /\ row' = [row EXCEPT ![t] = [row[t] EXCEPT !.state = "failed_to_start", !.id = "none"]]
          /\ launching' = None /\ world' = world
          /\ UNCHANGED <<receipts, session, stopping, stops, fenced, deletion, seen>>
      BY <2>9 DEF SpawnFails, LaunchFails, procs, deleting
    <3>3. \A u \in Tasks : world[u] # "gated"
      BY <2>3, <3>1
    <3>4. PICK q \in Row : /\ row' = [row EXCEPT ![t] = q] /\ q.state = "failed_to_start"
                          /\ q.id = "none" /\ q.marked = row[t].marked
      BY <2>5, <3>2
    <3>5. Rest
      BY <2>2, <3>1, <3>2, <3>3, <3>4, LaunchWrite
    <3> QED BY <3>2, <3>5 DEF IInv, LaunchOK, Launching
  <2>10. CASE IdentifyFails(t)
    <3>1. PICK id \in {"pid", "full"} : LaunchFails(t, id)
      BY <2>10 DEF IdentifyFails
    <3>2. /\ row' = [row EXCEPT ![t] = [row[t] EXCEPT !.state = "failed_to_start", !.id = id]]
          /\ launching' = None
      BY <3>1 DEF LaunchFails
    <3>3. /\ world' = [world EXCEPT ![t] = "gone"]
          /\ UNCHANGED <<receipts, session, stopping, stops, fenced, deletion, seen>>
      BY <2>10 DEF IdentifyFails, deleting
    <3>4. world'[t] = "gone" /\ \A u \in Tasks : u # t => world'[u] = world[u]
      BY <1>0, <3>3 DEF TypeOK
    <3>5. \A u \in Tasks : world'[u] # "gated"
      BY <2>3, <3>4
    <3>6. PICK q \in Row : /\ row' = [row EXCEPT ![t] = q] /\ q.state = "failed_to_start"
                          /\ q.marked = row[t].marked
      BY <2>5, <3>2
    <3>7. Rest
      BY <2>2, <3>3, <3>4, <3>5, <3>6, LaunchWrite
    <3> QED BY <3>2, <3>7 DEF IInv, LaunchOK, Launching
  <2>11. CASE Spawn(t)
    <3>1. /\ world[t] = "absent" /\ world' = [world EXCEPT ![t] = "gated"] /\ row' = row
          /\ NewPhase("gate")
          /\ UNCHANGED <<receipts, session, stopping, stops, fenced, deletion, seen>>
      BY <1>0, <2>8, <2>11, AtPhase DEF Spawn, LaunchOK, durable, deleting
    <3>2. world'[t] = "gated" /\ \A u \in Tasks : u # t => world'[u] = world[u]
      BY <1>0, <3>1 DEF TypeOK
    <3>3. Rest
      BY <2>2, <2>3, <2>4, <3>1, <3>2, LaunchWrite DEF Ended
    <3> QED BY <2>2, <3>1, <3>2, <3>3 DEF IInv, LaunchOK, Launching
  <2>12. CASE Identify(t)
    <3>1. /\ world[t] \in {"gated", "gone"} /\ world' = world
          /\ row' = [row EXCEPT ![t] = [row[t] EXCEPT !.id = "full"]]
          /\ NewPhase("identified")
          /\ UNCHANGED <<receipts, session, stopping, stops, fenced, deletion, seen>>
      BY <1>0, <2>8, <2>12, AtPhase DEF Identify, LaunchOK, procs, deleting
    <3>2. Rest
      BY <2>2, <2>3, <2>6, <3>1, LaunchWrite DEF Ended
    <3>3. row'[t] = [row[t] EXCEPT !.id = "full"] /\ row'[t] # None
      BY <1>0, <2>6, <3>1, NoneAssumption DEF TypeOK
    <3> QED BY <2>2, <2>6, <3>1, <3>2, <3>3 DEF IInv, LaunchOK, Launching
  <2>13. CASE Release(t)
    <3>1. /\ world[t] \in {"gated", "gone"} /\ row[t].id = "full" /\ row' = row
          /\ world' = [world EXCEPT ![t] = IF world[t] = "gated" THEN "live" ELSE world[t]]
          /\ NewPhase("released")
          /\ UNCHANGED <<receipts, session, stopping, stops, fenced, deletion, seen>>
      BY <1>0, <2>8, <2>13, AtPhase DEF Release, LaunchOK, durable, deleting
    <3>2. world'[t] \in {"live", "gone"} /\ \A u \in Tasks : u # t => world'[u] = world[u]
      BY <1>0, <3>1 DEF TypeOK
    <3>3. Rest
      BY <2>2, <2>3, <2>4, <3>1, <3>2, LaunchWrite DEF Ended
    <3> QED BY <2>2, <3>1, <3>2, <3>3 DEF IInv, LaunchOK, Launching
  <2>14. CASE Launched(t)
    <3>1. /\ world[t] \in {"live", "orphaned", "gone"} /\ world' = world /\ launching' = None
          /\ UNCHANGED <<receipts, session, stopping, stops, fenced, deletion, seen>>
      BY <1>0, <2>14, AtPhase DEF Launched, LaunchOK, procs, deleting
    <3>2. world[t] \in {"live", "orphaned"} => row[t].id = "full"
      BY <1>0 DEF RunningIsFindable, Runs
    <3>3. \/ row' = [row EXCEPT ![t] = [row[t] EXCEPT !.state = "running"]]
          \/ row' = [row EXCEPT ![t] = row[t]]
      BY <2>4, <2>14 DEF Launched
    <3>4. Rest
      <4>1. CASE row' = [row EXCEPT ![t] = [row[t] EXCEPT !.state = "running"]]
        BY <2>2, <2>3, <2>7, <3>1, <3>2, <4>1, LaunchWrite DEF Ended
      <4>2. CASE row' = [row EXCEPT ![t] = row[t]]
        BY <2>2, <2>3, <3>1, <3>2, <4>2, LaunchWrite DEF Ended
      <4> QED BY <3>3, <4>1, <4>2
    <3> QED BY <3>1, <3>4 DEF IInv, LaunchOK, Launching
  <2> QED BY <1>3, <2>9, <2>10, <2>11, <2>12, <2>13, <2>14 DEF Launch
<1> QED BY <1>2, <1>3

\* A stop, from its claim to its verdict, resumed or dropped.
LEMMA StopStep ==
  ASSUME IInv, TypeOK', NEW t \in Tasks,
         \/ \E call \in BOOLEAN : Stop(t, call)
         \/ ResumeStop(t) \/ Terminate(t) \/ EndStop(t) \/ CancelStop(t)
  PROVE  IInv'
<1>0. /\ TypeOK /\ LaunchOK /\ ProcessesOK /\ ReasonsOK /\ ClaimsOK /\ StopsOK /\ SightOK
      /\ DeletionOK /\ EndedIsGone /\ RunningIsFindable /\ MarksFollowDeletion
  BY DEF IInv
<1>1. ASSUME NEW call \in BOOLEAN, Stop(t, call) PROVE IInv'
  BY <1>1, BeginStopStep DEF Stop, Reasons, procs, deleting
<1>2. CASE ResumeStop(t)
  <2>1. CASE BeginStop(t, resume[t], FALSE)
    <3>1. resume[t] \in Reasons
      BY <1>0, <1>2 DEF ResumeStop, TypeOK
    <3> QED BY <1>2, <2>1, <3>1, BeginStopStep DEF ResumeStop, procs, deleting
  <2>2. CASE UNCHANGED <<row, stopping, stops>>
    <3>1. UNCHANGED <<row, receipts, session, world, launching, stopping, stops, fenced,
                      deletion, seen>>
      BY <1>2, <2>2 DEF ResumeStop, procs, deleting
    <3> QED BY <1>0, <3>1 DEF IInv, LaunchOK, Launching, ProcessesOK, ReasonsOK, ClaimsOK,
              StopsOK, SightOK, DeletionOK, EndedIsGone, RunningIsFindable,
              MarksFollowDeletion, Rows, Runs, Of
  <2> QED BY <1>2, <2>1, <2>2 DEF ResumeStop
<1>3. ASSUME UNCHANGED <<row, receipts, session, world, launching, stopping, fenced,
                         deletion, seen>>,
             StopsOK'
      PROVE  IInv'
  BY <1>0, <1>3 DEF IInv, LaunchOK, Launching, ProcessesOK, ReasonsOK, ClaimsOK, SightOK,
     DeletionOK, EndedIsGone, RunningIsFindable, MarksFollowDeletion, Rows, Runs, Of
<1>4. CASE Terminate(t)
  <2> DEFINE r == stops[t].rec
  <2>1. stops[t] \in StopState /\ stops[t] # None /\ stops[t].phase # "over" /\ r \in Row
    BY <1>0, <1>4 DEF Terminate, Signalling, TypeOK, StopState
  <2>2. \/ \E q \in Row : /\ stops' = [stops EXCEPT ![t] = [stops[t] EXCEPT !.rec = q, !.phase = "over"]]
                          /\ q.id = r.id /\ q.state # "stopping"
                          /\ q.state \in Ended => r.id # "none" /\ ~Present(t)
        \/ stops' = [stops EXCEPT ![t] = [stops[t] EXCEPT !.phase = "kill"]]
    <3>1. /\ [r EXCEPT !.state = "cleanup_failed"] \in Row
          /\ [r EXCEPT !.state = "cleanup_failed"].id = r.id
          /\ [r EXCEPT !.state = "cleanup_failed"].state = "cleanup_failed"
      BY <2>1, SetState DEF States
    <3>2. /\ [r EXCEPT !.state = "stopped", !.exit = exits[t]] \in Row
          /\ [r EXCEPT !.state = "stopped", !.exit = exits[t]].id = r.id
          /\ [r EXCEPT !.state = "stopped", !.exit = exits[t]].state = "stopped"
      BY <1>0, <2>1 DEF TypeOK, Row, States
    <3>3. "cleanup_failed" \notin Ended
      BY DEF Ended
    <3>4. \/ Verdict(t, [r EXCEPT !.state = "cleanup_failed"])
          \/ Verdict(t, [r EXCEPT !.state = "stopped", !.exit = exits[t]])
               /\ r.id # "none" /\ ~Present(t)
          \/ stops' = [stops EXCEPT ![t] = [stops[t] EXCEPT !.phase = "kill"]]
      BY <1>4 DEF Terminate
    <3>5. CASE Verdict(t, [r EXCEPT !.state = "cleanup_failed"])
      BY <3>1, <3>3, <3>5 DEF Verdict
    <3>6. CASE Verdict(t, [r EXCEPT !.state = "stopped", !.exit = exits[t]])
               /\ r.id # "none" /\ ~Present(t)
      BY <3>2, <3>6 DEF Verdict
    <3> QED BY <3>4, <3>5, <3>6
  <2>3. UNCHANGED <<row, receipts, session, world, launching, stopping, fenced, deletion, seen>>
    BY <1>4 DEF Terminate, durable, procs, deleting
  <2>4. StopsOK'
    <3>1. t \in stopping /\ (row[t] # None => r.id = row[t].id)
          /\ (r.id # "none" => world[t] # "absent")
      BY <1>0, <2>1 DEF StopsOK
    <3>2. world[t] \in Worlds
      BY <1>0 DEF TypeOK
    <3>3. CASE stops' = [stops EXCEPT ![t] = [stops[t] EXCEPT !.phase = "kill"]]
      <4>1. stops'[t].rec = r /\ stops'[t].phase = "kill"
            /\ \A u \in Tasks : u # t => stops'[u] = stops[u]
        BY <1>0, <2>1, <3>3 DEF TypeOK, StopState
      <4> QED BY <1>0, <2>3, <3>1, <4>1 DEF StopsOK
    <3>4. ASSUME NEW q \in Row,
                 stops' = [stops EXCEPT ![t] = [stops[t] EXCEPT !.rec = q, !.phase = "over"]],
                 q.id = r.id, q.state # "stopping",
                 q.state \in Ended => r.id # "none" /\ ~Present(t)
          PROVE  StopsOK'
      <4>1. stops'[t].rec = q /\ stops'[t].phase = "over"
            /\ \A u \in Tasks : u # t => stops'[u] = stops[u]
        BY <1>0, <2>1, <3>4 DEF TypeOK, StopState
      <4>2. q.state \in Ended => world[t] = "gone"
        BY <3>1, <3>2, <3>4 DEF Present, Worlds
      <4> QED BY <1>0, <2>3, <3>1, <3>4, <4>1, <4>2 DEF StopsOK
    <3> QED BY <2>2, <3>3, <3>4
  <2> QED BY <1>3, <2>3, <2>4
<1>5. CASE EndStop(t)
  <2> DEFINE r == Refreshed(t, stops[t].rec)
  <2>1. /\ stops[t] # None /\ stops[t].rec \in Row /\ Unlocked
        /\ stops[t].phase = "over" /\ t \in stopping
        /\ UNCHANGED <<world, launching, session, fenced, deletion, seen>>
        /\ stops' = [stops EXCEPT ![t] = None] /\ stopping' = stopping \ {t}
    BY <1>0, <1>5 DEF EndStop, TypeOK, StopState, StopsOK, procs, deleting
  <2>2. /\ r \in Row /\ r.state = stops[t].rec.state /\ r.id = stops[t].rec.id
        /\ row[t] # None => r.marked = row[t].marked
    <3>1. row[t] # None => row[t].marked \in BOOLEAN
      BY <1>0 DEF TypeOK, Row
    <3> QED BY <2>1, <3>1, SetMark DEF Refreshed
  <2>3. /\ r.state \in Ended => world[t] = "gone"
        /\ row[t] # None => r.id = row[t].id
        /\ r.state # "stopping"
    BY <1>0, <2>1, <2>2 DEF StopsOK
  <2>4. IF r.state \in Ended THEN Remove(t) ELSE Save(t, IF row[t] = None THEN None ELSE r)
    BY <1>5 DEF EndStop
  <2> HIDE DEF r
  <2>5. /\ \A u \in Tasks : RowMoves(u)
        /\ \A u \in receipts' : u \in receipts \/ ~Runs(u)
        /\ receipts \subseteq receipts'
        /\ \A u \in Tasks : u # t => row'[u] = row[u]
    <3>1. CASE r.state \in Ended
      BY <2>3, <2>4, <3>1, RemoveMoves DEF Runs
    <3>2. CASE r.state \notin Ended /\ row[t] # None
      BY <2>2, <2>3, <2>4, <3>2, SaveMoves
    <3>3. CASE r.state \notin Ended /\ row[t] = None
      BY <1>0, <2>4, <3>3 DEF Save, TypeOK, RowMoves
    <3> QED BY <3>1, <3>2, <3>3
  <2>6. /\ LaunchOK' /\ ProcessesOK' /\ ReasonsOK' /\ DeletionOK'
        /\ EndedIsGone' /\ RunningIsFindable' /\ MarksFollowDeletion'
    BY <2>1, <2>5, LockedWrite
  <2>7. ClaimsOK' /\ StopsOK'
    <3>1. \A u \in Tasks : stops'[u] = None \/ (stops'[u] = stops[u] /\ u \in stopping')
      BY <1>0, <2>1 DEF TypeOK, StopsOK
    <3>2. \A u \in stopping' : row'[u] = row[u]
      BY <1>0, <2>1, <2>5 DEF TypeOK
    <3> QED BY <2>1, <2>5, <3>1, <3>2, ClaimsKept
  <2>8. SightOK'
    BY <1>0, <2>1 DEF SightOK
  <2> QED BY <2>6, <2>7, <2>8 DEF IInv
<1>6. CASE CancelStop(t)
  <2>1. UNCHANGED <<row, receipts, session, world, launching, stopping, fenced, deletion, seen>>
    BY <1>6 DEF CancelStop, durable, procs, deleting
  <2>2. StopsOK'
    BY <1>0, <1>6, <2>1 DEF CancelStop, TypeOK, StopsOK
  <2> QED BY <1>3, <2>1, <2>2
<1> QED BY <1>1, <1>2, <1>4, <1>5, <1>6

\* Steps that touch nothing IInv speaks of beyond its types.
LEMMA QuietStep ==
  ASSUME IInv, TypeOK',
         UNCHANGED <<row, receipts, session, world, launching, stopping, stops, fenced, deletion>>,
         SightOK'
  PROVE  IInv'
BY DEF IInv, LaunchOK, Launching, ProcessesOK, ReasonsOK, ClaimsOK, StopsOK,
   DeletionOK, EndedIsGone, RunningIsFindable, MarksFollowDeletion, Rows, Runs, Of

\* Processes end, a launch is dropped.
LEMMA ProcessStep ==
  ASSUME IInv, TypeOK', NEW t \in Tasks,
         CancelStart(t) \/ (\E s \in Exits : LeaderEnds(t, s)) \/ SurvivorsEnd(t) \/ Reap(t)
  PROVE  IInv'
<1>0. /\ TypeOK /\ LaunchOK /\ ProcessesOK /\ ReasonsOK /\ ClaimsOK /\ StopsOK /\ SightOK
      /\ DeletionOK /\ EndedIsGone /\ RunningIsFindable /\ MarksFollowDeletion
  BY DEF IInv
<1>1. ASSUME UNCHANGED <<row, receipts, session, stopping, stops, fenced, deletion, seen>>,
             \A u \in Tasks : u # t => world'[u] = world[u],
             world[t] # "absent", world'[t] # "absent", world'[t] # "gated" \/ Launching(t)',
             Runs(t)' => Runs(t), world[t] = "gone" => world'[t] = "gone",
             LaunchOK', \A u \in Tasks : u # t /\ world[u] = "gated" => Launching(u)'
      PROVE  IInv'
  <2>1. ProcessesOK'
    BY <1>0, <1>1 DEF ProcessesOK
  <2>2. ReasonsOK' /\ ClaimsOK' /\ DeletionOK'
    BY <1>0, <1>1 DEF ReasonsOK, ClaimsOK, DeletionOK
  <2>3. StopsOK'
    BY <1>0, <1>1 DEF StopsOK
  <2>4. SightOK'
    BY <1>0, <1>1 DEF SightOK
  <2>5. EndedIsGone' /\ RunningIsFindable' /\ MarksFollowDeletion'
    BY <1>0, <1>1 DEF EndedIsGone, RunningIsFindable, MarksFollowDeletion, Rows, Runs, Of
  <2> QED BY <1>1, <2>1, <2>2, <2>3, <2>4, <2>5 DEF IInv
<1>2. CASE CancelStart(t)
  <2>1. Launching(t) /\ launching.phase \in {"gate", "identified"}
    BY <1>2, AtPhase DEF CancelStart
  <2>2. world[t] \in {"gated", "gone"}
    BY <1>0, <2>1 DEF LaunchOK
  <2>3. /\ launching' = None
        /\ world' = [world EXCEPT ![t] = IF world[t] = "gated" THEN "shut" ELSE world[t]]
        /\ UNCHANGED <<row, receipts, session, stopping, stops, fenced, deletion, seen>>
    BY <1>2 DEF CancelStart, durable, deleting
  <2>4. world'[t] \in {"shut", "gone"} /\ (world[t] = "gone" => world'[t] = "gone")
        /\ \A u \in Tasks : u # t => world'[u] = world[u]
    BY <1>0, <2>2, <2>3 DEF TypeOK
  <2>5. \A u \in Tasks : u # t => world[u] # "gated"
    BY <1>0, <2>1 DEF ProcessesOK, Launching
  <2>6. LaunchOK'
    BY <2>3 DEF LaunchOK, Launching
  <2> QED BY <1>1, <2>2, <2>3, <2>4, <2>5, <2>6 DEF Runs
<1>3. ASSUME UNCHANGED <<row, receipts, session, launching, stopping, stops, fenced, deletion, seen>>,
             world[t] \in {"gated", "shut", "live", "orphaned"},
             world'[t] = "gone" \/ (world'[t] = "orphaned" /\ world[t] = "live"),
             \A u \in Tasks : u # t => world'[u] = world[u]
      PROVE  IInv'
  <2>1. LaunchOK'
    BY <1>0, <1>3 DEF LaunchOK, Launching
  <2>2. \A u \in Tasks : u # t /\ world[u] = "gated" => Launching(u)'
    BY <1>0, <1>3 DEF ProcessesOK, Launching
  <2> QED BY <1>1, <1>3, <2>1, <2>2 DEF Runs
<1>4. CASE \E s \in Exits : LeaderEnds(t, s)
  <2>1. PICK s \in Exits : LeaderEnds(t, s)
    BY <1>4
  <2>2. /\ world[t] \in {"gated", "shut", "live"}
        /\ UNCHANGED <<row, receipts, session, launching, stopping, stops, fenced, deletion, seen>>
        /\ \E w \in {"orphaned", "gone"} : /\ world' = [world EXCEPT ![t] = w]
                                           /\ w = "orphaned" => world[t] = "live"
    BY <2>1 DEF LeaderEnds, durable, volatile, deleting
  <2>3. /\ world'[t] = "gone" \/ (world'[t] = "orphaned" /\ world[t] = "live")
        /\ \A u \in Tasks : u # t => world'[u] = world[u]
    BY <1>0, <2>2 DEF TypeOK
  <2> QED BY <1>3, <2>2, <2>3
<1>5. CASE SurvivorsEnd(t)
  <2>1. /\ world'[t] = "gone" /\ world[t] = "orphaned"
        /\ UNCHANGED <<row, receipts, session, launching, stopping, stops, fenced, deletion, seen>>
        /\ \A u \in Tasks : u # t => world'[u] = world[u]
    BY <1>0, <1>5 DEF SurvivorsEnd, TypeOK, durable, volatile, deleting
  <2> QED BY <1>3, <2>1
<1>6. CASE Reap(t)
  <2>1. SightOK'
    BY <1>0, <1>6 DEF Reap, procs, SightOK
  <2> QED BY <1>6, <2>1, QuietStep DEF Reap, durable, procs, deleting
<1> QED BY <1>2, <1>4, <1>5, <1>6

\* A verdict under the lock on a row that no stop has claimed, or a removal.
LEMMA VerdictStep ==
  ASSUME IInv, TypeOK', NEW t \in Tasks, Unlocked,
         UNCHANGED <<world, launching, session, fenced, deletion, stopping, stops>>,
         SightOK',
         \/ Remove(t) /\ ~Runs(t)
         \/ \E q \in Row : /\ Save(t, q) /\ row[t] # None /\ t \notin stopping
                           /\ q.id = row[t].id /\ q.marked = row[t].marked
                           /\ q.state \in Ended => ~Runs(t)
                           /\ q.state # "stopping"
  PROVE  IInv'
<1> DEFINE Moves == /\ \A u \in Tasks : RowMoves(u)
                    /\ \A u \in receipts' : u \in receipts \/ ~Runs(u)
                    /\ receipts \subseteq receipts'
                    /\ \A u \in Tasks : u # t => row'[u] = row[u]
                    /\ t \in stopping => row'[t] = None /\ t \in receipts'
<1>1. Moves
  <2>1. CASE Remove(t) /\ ~Runs(t)
    BY <2>1, RemoveMoves
  <2>2. ASSUME NEW q \in Row, Save(t, q), row[t] # None, t \notin stopping,
               q.id = row[t].id, q.marked = row[t].marked,
               q.state \in Ended => ~Runs(t), q.state # "stopping"
        PROVE  Moves
    BY <2>2, SaveMoves
  <2> QED BY <2>1, <2>2
<1>2. stopping \subseteq Tasks /\ StopsOK
  BY DEF IInv, TypeOK
<1>3. ClaimsOK' /\ StopsOK'
  <2>1. \A u \in Tasks : stops'[u] = None \/ (stops'[u] = stops[u] /\ u \in stopping')
    BY <1>2 DEF StopsOK
  <2>2. \A u \in stopping' : row'[u] = row[u] \/ (row'[u] = None /\ u \in receipts')
    BY <1>1, <1>2
  <2> QED BY <1>1, <2>1, <2>2, ClaimsKept
<1> QED BY <1>1, <1>3, LockedWrite DEF IInv

\* An acknowledged failure has no processes left.
LEMMA DismissStep ==
  ASSUME IInv, TypeOK', NEW t \in Tasks, Dismiss(t)
  PROVE  IInv'
<1>1. /\ Unlocked /\ Remove(t) /\ ~Present(t)
      /\ UNCHANGED <<world, launching, session, fenced, deletion, stopping, stops, seen>>
  BY DEF Dismiss, ConfirmedGone, procs, deleting
<1>2. SightOK'
  BY <1>1 DEF IInv, SightOK
<1> QED BY <1>1, <1>2, VerdictStep DEF Present, Runs

\* The cleanup after a deletion stops, removes or passes over a row.
LEMMA CleanUpStep ==
  ASSUME IInv, TypeOK', NEW t \in Tasks, CleanUp(t)
  PROVE  IInv'
<1>1. /\ Unlocked
      /\ UNCHANGED <<world, launching, session, fenced, deletion, seen>>
  BY DEF CleanUp, procs
<1>2. SightOK'
  BY <1>1 DEF IInv, SightOK
<1>3. \/ Remove(t) /\ ~Present(t) /\ UNCHANGED <<stopping, stops>>
      \/ BeginStop(t, "owner_deleted", FALSE) /\ UNCHANGED receipts
      \/ UNCHANGED <<row, receipts, stopping, stops>>
  BY DEF CleanUp, ConfirmedGone
<1>4. CASE Remove(t) /\ ~Present(t) /\ UNCHANGED <<stopping, stops>>
  BY <1>1, <1>2, <1>4, VerdictStep DEF Present, Runs
<1>5. CASE BeginStop(t, "owner_deleted", FALSE) /\ UNCHANGED receipts
  BY <1>1, <1>5, BeginStopStep DEF Reasons
<1>6. CASE UNCHANGED <<row, receipts, stopping, stops>>
  BY <1>1, <1>2, <1>6, QuietStep
<1> QED BY <1>3, <1>4, <1>5, <1>6

\* What a deletion writes beside the state of its owner's rows.
LEMMA DeletionStep ==
  ASSUME IInv, TypeOK', NEW o \in Owners,
         BeginOwnerDeletion(o) \/ CommitDeletion(o) \/ DeletionFails(o) \/ ListForCleanup(o)
  PROVE  IInv'
<1> DEFINE Same(u) == /\ (row'[u] = None) <=> (row[u] = None)
                      /\ row[u] # None => /\ row'[u].state = row[u].state
                                          /\ row'[u].id = row[u].id
                                          /\ row'[u].reason = row[u].reason
           Carries(u, b) == row[u] # None =>
                              /\ OwnerOf[u] = o => row'[u].marked = b
                              /\ OwnerOf[u] # o => row'[u].marked = row[u].marked
<1>0. /\ TypeOK /\ LaunchOK /\ ProcessesOK /\ ReasonsOK /\ ClaimsOK /\ StopsOK /\ SightOK
      /\ DeletionOK /\ EndedIsGone /\ RunningIsFindable /\ MarksFollowDeletion
  BY DEF IInv
<1>1. ASSUME UNCHANGED <<receipts, world, launching, stopping, stops, seen>>,
             \A u \in Tasks : Same(u),
             DeletionOK', MarksFollowDeletion'
      PROVE  IInv'
  <2>1. LaunchOK'
    BY <1>0, <1>1 DEF LaunchOK, Launching
  <2>2. ProcessesOK' /\ ReasonsOK' /\ SightOK'
    BY <1>0, <1>1 DEF ProcessesOK, ReasonsOK, SightOK, Launching
  <2>3. ClaimsOK'
    BY <1>0, <1>1 DEF ClaimsOK, TypeOK
  <2>4. StopsOK'
    BY <1>0, <1>1 DEF StopsOK
  <2>5. EndedIsGone' /\ RunningIsFindable'
    BY <1>0, <1>1 DEF EndedIsGone, RunningIsFindable, Rows, Runs
  <2> QED BY <1>1, <2>1, <2>2, <2>3, <2>4, <2>5 DEF IInv
<1>2. ASSUME NEW b \in BOOLEAN, row' = Marked(o, b)
      PROVE  \A u \in Tasks : Same(u) /\ Carries(u, b)
  <2> SUFFICES ASSUME NEW u \in Tasks PROVE Same(u) /\ Carries(u, b)
    OBVIOUS
  <2>1. row'[u] = IF OwnerOf[u] = o /\ row[u] # None THEN [row[u] EXCEPT !.marked = b] ELSE row[u]
    BY <1>2 DEF Marked, Of, Rows
  <2>2. row[u] # None => row[u] \in Row
    BY <1>0 DEF TypeOK
  <2> QED BY <2>1, <2>2, SetMark, NoneAssumption
<1>3. CASE BeginOwnerDeletion(o)
  <2>1. /\ row' = Marked(o, TRUE) /\ o \in session /\ session' = session
        /\ deletion' = [deletion EXCEPT ![o] = "begun"] /\ fenced' = fenced \cup {o}
        /\ UNCHANGED <<receipts, world, launching, stopping, stops, seen>>
    BY <1>3 DEF BeginOwnerDeletion, procs
  <2>2. \A p \in Owners : p # o => deletion'[p] = deletion[p]
    BY <1>0, <2>1 DEF TypeOK
  <2>3. DeletionOK'
    BY <1>0, <2>1, <2>2 DEF DeletionOK, TypeOK
  <2>4. \A u \in Tasks : Same(u) /\ Carries(u, TRUE)
    BY <1>2, <2>1
  <2>5. MarksFollowDeletion'
    <3> SUFFICES ASSUME NEW p \in Owners, deletion'[p] # "none" \/ p \notin session,
                        NEW u \in Tasks, OwnerOf[u] = p, row'[u] # None
                 PROVE  row'[u].marked
      BY <2>1 DEF MarksFollowDeletion, Of, Rows
    <3>1. row[u] # None /\ (p # o => row'[u].marked = row[u].marked)
      BY <2>4
    <3>2. p # o => row[u].marked
      BY <1>0, <2>2, <3>1 DEF MarksFollowDeletion, Of, Rows
    <3>3. p = o => row'[u].marked
      BY <2>4, <3>1
    <3> QED BY <3>1, <3>2, <3>3
  <2>6. \A u \in Tasks : Same(u)
    BY <2>4
  <2> HIDE DEF Same
  <2> QED BY <1>1, <2>1, <2>3, <2>5, <2>6
<1>4. CASE CommitDeletion(o)
  <2>1. /\ row' = row /\ session' = session \ {o} /\ fenced' = fenced
        /\ deletion[o] = "begun" /\ deletion' = [deletion EXCEPT ![o] = "committed"]
        /\ UNCHANGED <<receipts, world, launching, stopping, stops, seen>>
    BY <1>4 DEF CommitDeletion, procs
  <2>2. DeletionOK'
    BY <1>0, <2>1 DEF DeletionOK, TypeOK
  <2>3. MarksFollowDeletion'
    BY <1>0, <2>1 DEF MarksFollowDeletion, Of, Rows, TypeOK
  <2> QED BY <1>1, <2>1, <2>2, <2>3
<1>5. CASE DeletionFails(o)
  <2>1. /\ row' = Marked(o, FALSE) /\ session' = session /\ deletion[o] = "begun"
        /\ deletion' = [deletion EXCEPT ![o] = "none"] /\ fenced' = fenced \ {o}
        /\ UNCHANGED <<receipts, world, launching, stopping, stops, seen>>
    BY <1>5 DEF DeletionFails, procs
  <2>2. /\ deletion'[o] = "none" /\ o \in session
        /\ \A p \in Owners : p # o => deletion'[p] = deletion[p]
    BY <1>0, <2>1 DEF TypeOK, DeletionOK
  <2>3. DeletionOK'
    BY <1>0, <2>1, <2>2 DEF DeletionOK
  <2>4. \A u \in Tasks : Same(u) /\ Carries(u, FALSE)
    BY <1>2, <2>1
  <2>5. MarksFollowDeletion'
    <3> SUFFICES ASSUME NEW p \in Owners, deletion'[p] # "none" \/ p \notin session,
                        NEW u \in Tasks, OwnerOf[u] = p, row'[u] # None
                 PROVE  row'[u].marked
      BY <2>1 DEF MarksFollowDeletion, Of, Rows
    <3>1. row[u] # None /\ (p # o => row'[u].marked = row[u].marked)
      BY <2>4
    <3>2. p # o => row[u].marked
      BY <1>0, <2>2, <3>1 DEF MarksFollowDeletion, Of, Rows
    <3>3. p = o => row'[u].marked
      BY <2>2
    <3> QED BY <3>1, <3>2, <3>3
  <2>6. \A u \in Tasks : Same(u)
    BY <2>4
  <2> HIDE DEF Same
  <2> QED BY <1>1, <2>1, <2>3, <2>5, <2>6
<1>6. CASE ListForCleanup(o)
  <2>1. /\ row' = row /\ session' = session /\ fenced' = fenced
        /\ deletion[o] = "committed" /\ deletion' = [deletion EXCEPT ![o] = "done"]
        /\ UNCHANGED <<receipts, world, launching, stopping, stops, seen>>
    BY <1>6 DEF ListForCleanup, durable, procs
  <2>2. DeletionOK'
    BY <1>0, <2>1 DEF DeletionOK, TypeOK
  <2>3. MarksFollowDeletion'
    BY <1>0, <2>1 DEF MarksFollowDeletion, Of, Rows, TypeOK
  <2> QED BY <1>1, <2>1, <2>2, <2>3
<1> QED BY <1>3, <1>4, <1>5, <1>6

\* The monitor looks without the lock and applies under it.
LEMMA MonitorStep ==
  ASSUME IInv, TypeOK', Observe \/ \E t \in Tasks : Apply(t)
  PROVE  IInv'
<1>0. TypeOK /\ ProcessesOK /\ SightOK
  BY DEF IInv
<1>1. CASE Observe
  <2>1. SightOK'
    <3> SUFFICES ASSUME NEW t \in Tasks, seen'[t] # None, seen'[t].kind = "empty"
                 PROVE  world[t] = "gone"
      BY <1>1 DEF SightOK, Observe, procs
    <3>1. Watched(t) /\ row[t].id = "full" /\ seen'[t] = Sight(t)
      BY <1>1 DEF Observe
    <3>2. ~Present(t)
      BY <3>1 DEF Sight
    <3>3. world[t] # "absent" /\ world[t] \in Worlds
      BY <1>0, <3>1 DEF Watched, Rows, ProcessesOK, TypeOK
    <3> QED BY <3>2, <3>3 DEF Present, Worlds
  <2> QED BY <1>1, <2>1, QuietStep DEF Observe, durable, procs, deleting
<1>2. ASSUME NEW t \in Tasks, Apply(t) PROVE IInv'
  <2>1. /\ Unlocked /\ seen[t] # None /\ seen' = [seen EXCEPT ![t] = None]
        /\ UNCHANGED <<world, launching, session, fenced, deletion, stopping, stops>>
    BY <1>2 DEF Apply, procs, deleting
  <2>2. SightOK'
    BY <1>0, <2>1 DEF SightOK, TypeOK
  <2>3. StillAsSeen(t) => row[t] # None /\ t \notin stopping /\ row[t] \in Row
    BY <1>0 DEF StillAsSeen, Unclaimed, Rows, TypeOK
  <2>4. CASE UNCHANGED <<row, receipts>>
    BY <2>1, <2>2, <2>4, QuietStep
  <2>5. CASE StillAsSeen(t) /\ Save(t, [row[t] EXCEPT !.state = "unknown"])
    <3>1. "unknown" \in States /\ "unknown" \notin Ended
      BY DEF States, Ended
    <3> QED BY <2>1, <2>2, <2>3, <2>5, <3>1, SetState, VerdictStep
  <2>6. CASE StillAsSeen(t) /\ Save(t, [row[t] EXCEPT !.state = "running"])
    <3>1. "running" \in States /\ "running" \notin Ended
      BY DEF States, Ended
    <3> QED BY <2>1, <2>2, <2>3, <2>6, <3>1, SetState, VerdictStep
  <2>7. ASSUME StillAsSeen(t), seen[t].kind = "empty", NEW e \in Exits, SettleExit(t, e)
        PROVE  IInv'
    <3> DEFINE r == [row[t] EXCEPT !.state = "exited", !.exit = e]
    <3>1. ~Runs(t)
      BY <1>0, <2>1, <2>7 DEF SightOK, Runs
    <3>2. r \in Row /\ r.id = row[t].id /\ r.marked = row[t].marked /\ r.state = "exited"
      BY <2>3, <2>7 DEF Row, States
    <3>3. UNCHANGED <<row, receipts>> \/ Remove(t) \/ Save(t, r)
      BY <2>7 DEF SettleExit
    <3> HIDE DEF r
    <3>4. CASE Remove(t)
      BY <2>1, <2>2, <3>1, <3>4, VerdictStep
    <3>5. CASE Save(t, r)
      BY <2>1, <2>2, <2>3, <2>7, <3>1, <3>2, <3>5, VerdictStep
    <3> QED BY <2>4, <3>3, <3>4, <3>5
  <2>8. seen[t].exit \in Exits /\ exits[t] \in Exits
    BY <1>0, <2>1 DEF TypeOK, Sighting
  <2> QED BY <1>2, <2>4, <2>5, <2>6, <2>7, <2>8 DEF Apply
<1> QED BY <1>1, <1>2

\* Crash, restart and reconciliation.
LEMMA RestartStep ==
  ASSUME IInv, TypeOK', Crash \/ Restart \/ ReconcileUnlisted \/ Reconcile
  PROVE  IInv'
<1>0. /\ TypeOK /\ LaunchOK /\ ProcessesOK /\ ReasonsOK /\ ClaimsOK /\ StopsOK /\ SightOK
      /\ DeletionOK /\ EndedIsGone /\ RunningIsFindable /\ MarksFollowDeletion
  BY DEF IInv
<1>1. CASE Crash
  <2>1. /\ UNCHANGED <<row, receipts, session>> /\ launching' = None /\ stopping' = {}
        /\ \A t \in Tasks : /\ world'[t] = IF world[t] = "gated" THEN "shut" ELSE world[t]
                            /\ stops'[t] = None /\ seen'[t] = None
        /\ \A o \in Owners : deletion'[o] = "none"
    BY <1>1 DEF Crash, durable, Nothing
  <2>2. LaunchOK' /\ ClaimsOK' /\ StopsOK' /\ SightOK' /\ DeletionOK'
    BY <2>1 DEF LaunchOK, Launching, ClaimsOK, StopsOK, SightOK, DeletionOK
  <2>3. ProcessesOK' /\ ReasonsOK'
    BY <1>0, <2>1 DEF ProcessesOK, ReasonsOK
  <2>4. EndedIsGone' /\ RunningIsFindable' /\ MarksFollowDeletion'
    BY <1>0, <2>1 DEF EndedIsGone, RunningIsFindable, MarksFollowDeletion, Rows, Runs, Of
  <2> QED BY <2>2, <2>3, <2>4 DEF IInv
<1>2. CASE Restart
  <2>1. SightOK'
    BY <1>0, <1>2 DEF Restart, procs, volatile, SightOK
  <2> QED BY <1>2, <2>1, QuietStep DEF Restart, durable, procs, volatile, deleting
\* Both forms of reconciliation move rows that no stop has claimed.
<1>3. ASSUME Unlocked, receipts \subseteq receipts',
             UNCHANGED <<world, launching, session, fenced, deletion, stopping, stops, seen>>,
             \A u \in Tasks : RowMoves(u), \A u \in stopping : row'[u] = row[u],
             \A u \in receipts' : u \in receipts \/ ~Runs(u)
      PROVE  IInv'
  <2>1. ClaimsOK' /\ StopsOK'
    <3>1. \A u \in Tasks : stops'[u] = None \/ (stops'[u] = stops[u] /\ u \in stopping')
      BY <1>0, <1>3 DEF StopsOK
    <3>2. \A u \in stopping' : row'[u] = row[u] \/ (row'[u] = None /\ u \in receipts')
      BY <1>3
    <3> QED BY <1>3, <3>1, <3>2, ClaimsKept
  <2>2. SightOK'
    BY <1>0, <1>3 DEF SightOK
  <2> QED BY <1>3, <2>1, <2>2, LockedWrite DEF IInv
<1>4. CASE ReconcileUnlisted
  <2>1. /\ Unlocked /\ receipts' = receipts
        /\ UNCHANGED <<world, launching, session, fenced, deletion, stopping, stops, seen>>
        /\ row' = [u \in Tasks |-> IF u \in Rows /\ row[u].state = "running"
                                   THEN [row[u] EXCEPT !.state = "unknown"] ELSE row[u]]
    BY <1>4 DEF ReconcileUnlisted, procs, volatile, deleting
  <2>2. \A u \in Tasks : RowMoves(u)
    <3> SUFFICES ASSUME NEW u \in Tasks, row[u] # None,
                        row'[u] = [row[u] EXCEPT !.state = "unknown"]
                 PROVE  RowMoves(u)
      BY <2>1 DEF RowMoves, Rows
    <3>1. row[u] \in Row /\ "unknown" \in States
      BY <1>0 DEF TypeOK, States
    <3> QED BY <3>1, SetState, NoneAssumption DEF RowMoves, Ended
  <2>3. \A u \in stopping : row'[u] = row[u]
    BY <1>0, <2>1 DEF ClaimsOK, Rows, TypeOK
  <2> QED BY <1>3, <2>1, <2>2, <2>3
<1>5. CASE Reconcile
  <2>1. /\ Unlocked
        /\ UNCHANGED <<world, launching, session, fenced, deletion, stopping, stops, seen>>
    BY <1>5 DEF Reconcile, procs, deleting
  <2>2. PICK doubted \in SUBSET {t \in Rows : row[t].state \in Ended} :
          LET now  == [t \in Unclaimed |-> Reconciled(t, doubted)]
              over == {t \in Unclaimed : Acknowledged(now[t])} IN
          /\ row' = [t \in Tasks |-> IF t \in over THEN None
                                     ELSE IF t \in Unclaimed THEN now[t] ELSE row[t]]
          /\ receipts' = receipts \cup over
    BY <1>5 DEF Reconcile
  <2> DEFINE over == {t \in Unclaimed : Acknowledged(Reconciled(t, doubted))}
  <2>3. /\ row' = [t \in Tasks |-> IF t \in over THEN None
                                   ELSE IF t \in Unclaimed THEN Reconciled(t, doubted)
                                   ELSE row[t]]
        /\ receipts' = receipts \cup over
    BY <2>2 DEF Unclaimed, Rows
  <2>4. \A t \in Unclaimed :
          LET r == Reconciled(t, doubted) IN
          /\ r \in Row /\ r.id = row[t].id /\ r.marked = row[t].marked
          /\ r.state \notin {"launching", "stopping"} /\ (r.state \in Ended => ~Runs(t))
    BY <1>0, ReconciledRow DEF Unclaimed
  <2>5. \A t \in over : ~Runs(t)
    BY <2>4 DEF Acknowledged
  <2> HIDE DEF over
  <2>6. \A u \in Tasks : RowMoves(u)
    <3> SUFFICES ASSUME NEW u \in Tasks PROVE RowMoves(u)
      OBVIOUS
    <3>1. CASE u \in over
      BY <2>3, <2>5, <3>1 DEF RowMoves
    <3>2. CASE u \notin over /\ u \in Unclaimed
      BY <2>3, <2>4, <3>2, NoneAssumption DEF RowMoves, Unclaimed, Rows
    <3>3. CASE u \notin over /\ u \notin Unclaimed
      BY <2>3, <3>3 DEF RowMoves
    <3> QED BY <3>1, <3>2, <3>3
  <2>7. \A u \in stopping : row'[u] = row[u]
    BY <1>0, <2>3 DEF over, Unclaimed, TypeOK
  <2> QED BY <1>3, <2>1, <2>3, <2>5, <2>6, <2>7
<1> QED BY <1>1, <1>2, <1>4, <1>5

\* IInv is inductive.
LEMMA SafetyStep == IInv /\ [Next]_vars => IInv'
<1> SUFFICES ASSUME IInv, [Next]_vars PROVE IInv'
  OBVIOUS
<1>0. TypeOK'
  BY TypeStep
<1>1. CASE Next
  <2>1. ASSUME NEW t \in Tasks,
               \/ Start(t) \/ Launch(t) \/ CancelStart(t)
               \/ (\E s \in Exits : LeaderEnds(t, s)) \/ SurvivorsEnd(t) \/ Reap(t)
               \/ (\E call \in BOOLEAN : Stop(t, call)) \/ ResumeStop(t)
               \/ Terminate(t) \/ EndStop(t) \/ CancelStop(t)
               \/ Dismiss(t) \/ CleanUp(t) \/ Apply(t)
        PROVE  IInv'
    BY <1>0, <2>1, LaunchStep, ProcessStep, StopStep, DismissStep, CleanUpStep, MonitorStep
  <2>2. ASSUME NEW o \in Owners,
               BeginOwnerDeletion(o) \/ CommitDeletion(o) \/ DeletionFails(o) \/ ListForCleanup(o)
        PROVE  IInv'
    BY <1>0, <2>2, DeletionStep
  <2>3. CASE Observe \/ Crash \/ Restart \/ Reconcile \/ ReconcileUnlisted
    BY <1>0, <2>3, MonitorStep, RestartStep
  <2> QED BY <1>1, <2>1, <2>2, <2>3 DEF Next
<1>2. CASE UNCHANGED vars
  <2>1. UNCHANGED <<row, receipts, session, world, launching, stopping, stops, fenced,
                    deletion, seen>>
    BY <1>2 DEF vars, durable, procs, volatile, deleting
  <2>2. SightOK'
    BY <2>1 DEF IInv, SightOK
  <2> QED BY <1>0, <2>1, <2>2, QuietStep
<1> QED BY <1>1, <1>2

-----------------------------------------------------------------------------
(* The theorems.                                                           *)

\* The strengthening holds in every reachable state.
THEOREM Invariant == Spec => []IInv
<1>1. Init => IInv
  BY InitInv
<1>2. IInv /\ [Next]_vars => IInv'
  BY SafetyStep
<1> QED BY <1>1, <1>2, PTL DEF Spec

\* Rows, processes and the operations under way stay of their kinds, whatever
\* is interrupted.
THEOREM TypeCorrect == Spec => []TypeOK
<1>1. IInv => TypeOK
  BY DEF IInv
<1> QED BY <1>1, Invariant, PTL

\* Nothing is reported ended, and no record given up, while the command or
\* something it started runs: not after a stop, a natural exit, a failed launch,
\* a dismissal, a cleanup or a restart.
THEOREM EndedIsGoneAlways == Spec => []EndedIsGone
<1>1. IInv => EndedIsGone
  BY DEF IInv
<1> QED BY <1>1, Invariant, PTL

\* Wherever a launch is cut off, a running command has a row that names its
\* process.
THEOREM RunningIsFindableAlways == Spec => []RunningIsFindable
<1>1. IInv => RunningIsFindable
  BY DEF IInv
<1> QED BY <1>1, Invariant, PTL

\* No write of a stop, the monitor or a launch loses the mark of a deletion.
THEOREM MarksFollowDeletionAlways == Spec => []MarksFollowDeletion
<1>1. IInv => MarksFollowDeletion
  BY DEF IInv
<1> QED BY <1>1, Invariant, PTL

\* A row removed by a step that leaves it claimed is removed by a cleanup that
\* found nothing of the task.
LEMMA ClaimedRemoval ==
  ASSUME IInv, IInv', Next, NEW u \in Tasks, u \in stopping, u \in stopping',
         row[u] # None, row'[u] = None
  PROVE  ~Present(u)
<1>0. TypeOK /\ ClaimsOK /\ LaunchOK
  BY DEF IInv
<1>1. row' # row
  OBVIOUS
<1>2. ASSUME NEW t \in Tasks, NEW why, NEW call, BeginStop(t, why, call) PROVE FALSE
  <2>1. t # u
    BY <1>2 DEF BeginStop, Stoppable, Unclaimed
  <2> QED BY <1>0, <1>2, <2>1 DEF BeginStop, TypeOK
<1>3. ASSUME NEW t \in Tasks, Start(t) \/ Launch(t) PROVE FALSE
  <2>1. t # u
    <3>1. CASE Start(t)
      BY <3>1 DEF Start
    <3>2. CASE Launch(t)
      <4>1. Launching(t)
        BY <3>2, AtPhase DEF Launch, SpawnFails, Spawn, Identify, IdentifyFails, Release, Launched
      <4> QED BY <1>0, <4>1 DEF LaunchOK
    <3> QED BY <1>3, <3>1, <3>2
  <2>2. row'[u] = row[u]
    BY <1>0, <1>3, <2>1 DEF Start, Launch, SpawnFails, Spawn, Identify, IdentifyFails,
       Release, Launched, LaunchFails, durable, TypeOK
  <2> QED BY <2>2
<1>4. ASSUME NEW t \in Tasks, Remove(t) PROVE t = u
  BY <1>0, <1>4 DEF Remove, TypeOK
<1>5. ASSUME NEW t \in Tasks, t \in Unclaimed, \A v \in Tasks : v # t => row'[v] = row[v]
      PROVE  FALSE
  BY <1>5 DEF Unclaimed
<1>6. ASSUME NEW t \in Tasks,
             \/ CancelStart(t) \/ (\E s \in Exits : LeaderEnds(t, s)) \/ SurvivorsEnd(t)
             \/ Reap(t) \/ Terminate(t) \/ CancelStop(t)
      PROVE  FALSE
  BY <1>1, <1>6 DEF CancelStart, LeaderEnds, SurvivorsEnd, Reap, Terminate, CancelStop, durable
<1>7. ASSUME NEW t \in Tasks, (\E call \in BOOLEAN : Stop(t, call)) \/ ResumeStop(t) PROVE FALSE
  BY <1>1, <1>2, <1>7 DEF Stop, ResumeStop
<1>8. ASSUME NEW t \in Tasks, EndStop(t) PROVE FALSE
  <2>1. \A v \in Tasks : v # t => row'[v] = row[v]
    BY <1>0, <1>8 DEF EndStop, Remove, Save, TypeOK
  <2>2. t \notin stopping'
    BY <1>8 DEF EndStop
  <2> QED BY <2>1, <2>2
<1>9. ASSUME NEW t \in Tasks, Dismiss(t) PROVE FALSE
  BY <1>4, <1>9 DEF Dismiss, Unclaimed
<1>10. ASSUME NEW t \in Tasks, CleanUp(t) PROVE ~Present(u)
  <2>1. Remove(t) /\ ~Present(t)
    BY <1>1, <1>2, <1>10 DEF CleanUp, ConfirmedGone
  <2> QED BY <1>4, <2>1
<1>11. ASSUME NEW t \in Tasks, Apply(t) PROVE FALSE
  <2>1. CASE ~StillAsSeen(t)
    BY <1>1, <1>11, <2>1 DEF Apply
  <2>2. CASE StillAsSeen(t)
    <3>1. \A v \in Tasks : v # t => row'[v] = row[v]
      BY <1>0, <1>11 DEF Apply, SettleExit, Remove, Save, TypeOK
    <3> QED BY <1>5, <2>2, <3>1 DEF StillAsSeen
  <2> QED BY <2>1, <2>2
<1>12. ASSUME NEW o \in Owners,
              BeginOwnerDeletion(o) \/ CommitDeletion(o) \/ DeletionFails(o) \/ ListForCleanup(o)
       PROVE  FALSE
  <2>1. PICK b \in BOOLEAN : row' = Marked(o, b)
    BY <1>1, <1>12 DEF BeginOwnerDeletion, CommitDeletion, DeletionFails, ListForCleanup, durable
  <2>2. row'[u] = [row[u] EXCEPT !.marked = b] \/ row'[u] = row[u]
    BY <2>1 DEF Marked
  <2>3. row[u] \in Row
    BY <1>0 DEF TypeOK
  <2> QED BY <2>2, <2>3, SetMark, NoneAssumption
<1>13. ASSUME Observe \/ Crash \/ Restart PROVE FALSE
  BY <1>1, <1>13 DEF Observe, Crash, Restart, durable
<1>14. ASSUME ReconcileUnlisted PROVE FALSE
  <2>1. row[u].state = "stopping"
    BY <1>0 DEF ClaimsOK
  <2> QED BY <1>14, <2>1 DEF ReconcileUnlisted
<1>15. ASSUME Reconcile PROVE FALSE
  <2>1. u \notin Unclaimed
    BY DEF Unclaimed
  <2>2. PICK doubted \in SUBSET {t \in Rows : row[t].state \in Ended} :
          LET now  == [t \in Unclaimed |-> Reconciled(t, doubted)]
              over == {t \in Unclaimed : Acknowledged(now[t])} IN
          row' = [t \in Tasks |-> IF t \in over THEN None
                                  ELSE IF t \in Unclaimed THEN now[t] ELSE row[t]]
    BY <1>15 DEF Reconcile
  <2> QED BY <2>1, <2>2
<1> QED
  BY <1>3, <1>6, <1>7, <1>8, <1>9, <1>10, <1>11, <1>12, <1>13, <1>14, <1>15 DEF Next

\* A row claimed by a stop keeps saying so, whatever the monitor, a dismissal or
\* a late reconciliation had in mind for it.
THEOREM StopOwnsItsRowAlways == Spec => StopOwnsItsRow
<1> DEFINE Owned == \A t \in stopping \cap stopping' :
                      row[t] # None => IF row'[t] = None THEN ~Present(t)
                                       ELSE row'[t].state = "stopping"
<1>1. IInv /\ IInv' /\ [Next]_vars => [Owned]_vars
  <2> SUFFICES ASSUME IInv, IInv', Next, NEW t \in stopping \cap stopping', row[t] # None
               PROVE  IF row'[t] = None THEN ~Present(t) ELSE row'[t].state = "stopping"
    OBVIOUS
  <2>1. t \in Tasks
    BY DEF IInv, TypeOK
  <2>2. row'[t] # None => row'[t].state = "stopping"
    BY DEF IInv, ClaimsOK
  <2>3. row'[t] = None => ~Present(t)
    BY <2>1, ClaimedRemoval
  <2> QED BY <2>2, <2>3
<1> QED BY <1>1, Invariant, PTL DEF Spec, StopOwnsItsRow

=============================================================================
