-------------------------- MODULE SubagentsProofs --------------------------
(***************************************************************************)
(* Proofs about the delegated runs of a session.  IInv says what the      *)
(* reducer's view of the live runs and the registry's providers have in   *)
(* common after each step of the actor; it carries type correctness, the  *)
(* places, and the callers that wait.  RecordInv says what rows, display, *)
(* verdicts and answers have in common; it carries what the caller was    *)
(* told, the verdicts and the links between a run and its continuation.   *)
(***************************************************************************)
EXTENDS Subagents, TLAPS, FiniteSetTheorems

\* What the reducer executes is what it shows as active; a run with a provider
\* is live unless it was delegated during a resume; before the session is open
\* nothing else is live, and without the process nothing is.
IInv ==
  /\ TypeOK
  /\ Occupied = Live
  /\ \A r \in Runs \ early : proc[r] # None => r \in Live
  /\ mode = "resuming" => Live \subseteq early
  /\ mode = "down" => proc = NoneOf /\ waiting = NoneOf /\ Live = {}

Records == [Runs -> Run \cup {None}]

ExecOK ==
  /\ exec \in [Runs -> Execution \cup {None}]
  /\ \A r \in Runs : exec[r] # None => exec[r].target \in 1..Targets[AgentOf[r]]

-----------------------------------------------------------------------------
(* The parts actions are made of.                                          *)

LEMMA LiveRecords ==
  ASSUME IInv, NEW r \in Runs, exec[r] # None
  PROVE  /\ shown[r] \in Run /\ shown[r].status \in Active
         /\ exec[r] \in Execution /\ exec[r].target \in 1..LastTarget(r)
<1>1. r \in Occupied
  BY DEF IInv, Live
<1> QED BY <1>1 DEF IInv, TypeOK, Occupied, LastTarget

LEMMA Verdicts ==
  ASSUME NEW run, NEW response, NEW why
  PROVE  VerdictOf(run, response, why) \in Terminal
BY DEF VerdictOf, Terminal

\* Runs that end leave the executions and the places, and nothing else does.
LEMMA EndRunsFacts ==
  ASSUME IInv, NEW ended \in SUBSET Runs, NEW why, ended \subseteq Live,
         EndRuns(ended, why)
  PROVE  /\ shown' \in Records /\ ExecOK' /\ verdict' \in [Runs -> Terminal \cup {None}]
         /\ Live' = Live \ ended /\ Occupied' = Occupied \ ended
<1> DEFINE v == [r \in ended |-> VerdictOf(shown[r], exec[r].response, why)]
<1>1. /\ shown' = [r \in Runs |-> IF r \in ended THEN [shown[r] EXCEPT !.status = v[r]]
                                  ELSE shown[r]]
      /\ exec' = [r \in Runs |-> IF r \in ended THEN None ELSE exec[r]]
      /\ verdict' = [r \in Runs |-> IF r \in ended THEN v[r] ELSE verdict[r]]
  BY DEF EndRuns
<1>2. \A r \in ended : v[r] \in Terminal
  BY Verdicts
<1>3. \A r \in ended : shown[r] \in Run
  BY LiveRecords DEF Live
<1> HIDE DEF v
<1>4. /\ shown \in Records /\ exec \in [Runs -> Execution \cup {None}]
      /\ \A r \in Runs : exec[r] # None => exec[r].target \in 1..Targets[AgentOf[r]]
      /\ verdict \in [Runs -> Terminal \cup {None}]
  BY DEF IInv, TypeOK, Records
<1>5. \A r \in ended : [shown[r] EXCEPT !.status = v[r]] \in Run
                       /\ [shown[r] EXCEPT !.status = v[r]].status = v[r]
  BY <1>2, <1>3 DEF Run, Terminal
<1>6. shown' \in Records
  BY <1>1, <1>4, <1>5 DEF Records
<1>7. ExecOK'
  BY <1>1, <1>4 DEF ExecOK
<1>8. verdict' \in [Runs -> Terminal \cup {None}]
  BY <1>1, <1>2, <1>4
<1>9. Live' = Live \ ended
  BY <1>1, <1>4, NoneAssumption DEF Live
<1>10. Occupied' = Occupied \ ended
  <2>1. \A r \in ended : shown'[r].status \notin Active
    BY <1>1, <1>2, <1>5 DEF Active, Terminal
  <2>2. \A r \in Runs \ ended : shown'[r] = shown[r]
    BY <1>1
  <2> QED BY <2>1, <2>2 DEF Occupied
<1> QED BY <1>6, <1>7, <1>8, <1>9, <1>10

LEMMA FinishFacts ==
  ASSUME IInv, NEW ended \in SUBSET Runs, NEW why, ended \subseteq Live,
         Finish(ended, why)
  PROVE  /\ proc' = [r \in Runs |-> IF r \in ended THEN None ELSE proc[r]]
         /\ proc' \in [Runs -> Provider \cup {None}]
         /\ told' \in [Runs -> {"result", "error", None}]
         /\ waiting' = [r \in Runs |-> IF r \in ended THEN None ELSE waiting[r]]
         /\ waiting' \in [Runs -> Caller \cup {None}]
         /\ dropped' = dropped
<1>1. /\ proc' = [r \in Runs |-> IF r \in ended THEN None ELSE proc[r]]
      /\ waiting' = [r \in Runs |-> IF r \in ended THEN None ELSE waiting[r]]
      /\ dropped' = dropped
      /\ told' = [r \in Runs |-> IF r \notin ended \/ waiting[r] = None THEN told[r]
                    ELSE IF shown'[r].status \in Success THEN "result" ELSE "error"]
  BY DEF Finish, StopProviders, Answer
<1>2. /\ proc \in [Runs -> Provider \cup {None}] /\ waiting \in [Runs -> Caller \cup {None}]
      /\ told \in [Runs -> {"result", "error", None}]
  BY DEF IInv, TypeOK
<1>3. /\ proc' \in [Runs -> Provider \cup {None}]
      /\ waiting' \in [Runs -> Caller \cup {None}]
  BY <1>1, <1>2
<1>4. told' \in [Runs -> {"result", "error", None}]
  BY <1>1, <1>2
<1> QED BY <1>1, <1>3, <1>4

\* A launch makes its run live with a provider, or ends it unanswered.
LEMMA LaunchFacts ==
  ASSUME IInv, NEW r \in Runs, NEW display \in Records, display[r] \in Run,
         NEW k \in Nat \ {0}, Launch(r, display, k)
  PROVE  /\ shown' \in Records /\ ExecOK' /\ proc' \in [Runs -> Provider \cup {None}]
         /\ verdict' \in [Runs -> Terminal \cup {None}] /\ dropped' \subseteq Runs
         /\ \A x \in Runs \ {r} : /\ shown'[x] = display[x]
                                  /\ exec'[x] = exec[x] /\ proc'[x] = proc[x]
         /\ dropped \subseteq dropped' /\ shown'[r] # None
         /\ \/ shown'[r].status \in Active /\ exec'[r] # None
            \/ /\ shown'[r].status \notin Active /\ exec'[r] = None /\ proc'[r] = None
               /\ r \in dropped'
<1>0. /\ exec \in [Runs -> Execution \cup {None}] /\ proc \in [Runs -> Provider \cup {None}]
      /\ \A x \in Runs : exec[x] # None => exec[x].target \in 1..Targets[AgentOf[x]]
      /\ verdict \in [Runs -> Terminal \cup {None}] /\ dropped \subseteq Runs
      /\ display \in [Runs -> Run \cup {None}] /\ LastTarget(r) \in Nat
  BY SubagentAssumption DEF IInv, TypeOK, Records, LastTarget
<1>1. PICK n \in k..(LastTarget(r) + 1) :
        IF n <= LastTarget(r)
        THEN /\ shown' = [display EXCEPT ![r].status = "starting"]
             /\ exec' = [exec EXCEPT ![r] = [target |-> n, response |-> FALSE]]
             /\ proc' = [proc EXCEPT ![r] = [target |-> n, stage |-> "booting"]]
             /\ UNCHANGED <<verdict, dropped>>
        ELSE FinishUnanswered(r, display)
  BY DEF Launch
<1>2. CASE n <= LastTarget(r)
  <2>1. /\ shown' = [display EXCEPT ![r].status = "starting"]
        /\ exec' = [exec EXCEPT ![r] = [target |-> n, response |-> FALSE]]
        /\ proc' = [proc EXCEPT ![r] = [target |-> n, stage |-> "booting"]]
        /\ verdict' = verdict /\ dropped' = dropped
    BY <1>1, <1>2
  <2>2. n \in 1..LastTarget(r)
    BY <1>0, <1>1, <1>2
  <2>3. /\ [display[r] EXCEPT !.status = "starting"] \in Run
        /\ [display[r] EXCEPT !.status = "starting"].status = "starting"
    BY DEF Run, Active
  <2>4. shown' \in Records /\ shown'[r] = [display[r] EXCEPT !.status = "starting"]
    BY <1>0, <2>1, <2>3 DEF Records
  <2>5. [target |-> n, response |-> FALSE] \in Execution
    BY <2>2, <1>0 DEF Execution
  <2>6. /\ exec' \in [Runs -> Execution \cup {None}]
        /\ exec'[r] = [target |-> n, response |-> FALSE]
        /\ \A x \in Runs \ {r} : exec'[x] = exec[x]
    BY <1>0, <2>1, <2>5
  <2>7. ExecOK'
    BY <1>0, <2>2, <2>6 DEF ExecOK, LastTarget
  <2>8. proc' \in [Runs -> Provider \cup {None}]
    BY <1>0, <2>1, <2>2 DEF Provider
  <2>9. exec'[r] # None /\ shown'[r] # None
    BY <2>3, <2>4, <2>5, <2>6, NoneAssumption
  <2>10. shown'[r].status \in Active
    BY <2>3, <2>4 DEF Active
  <2>11. \A x \in Runs \ {r} : shown'[x] = display[x] /\ proc'[x] = proc[x]
    BY <1>0, <2>1
  <2> QED BY <1>0, <2>1, <2>4, <2>6, <2>7, <2>8, <2>9, <2>10, <2>11
<1>3. CASE ~(n <= LastTarget(r))
  <2> DEFINE v == VerdictOf(display[r], FALSE, "fail")
  <2>1. /\ shown' = [display EXCEPT ![r].status = v]
        /\ exec' = [exec EXCEPT ![r] = None] /\ proc' = [proc EXCEPT ![r] = None]
        /\ verdict' = [verdict EXCEPT ![r] = v] /\ dropped' = dropped \cup {r}
    BY <1>1, <1>3 DEF FinishUnanswered
  <2>2. v \in Terminal
    BY Verdicts
  <2> HIDE DEF v
  <2>3. /\ [display[r] EXCEPT !.status = v] \in Run
        /\ [display[r] EXCEPT !.status = v].status = v
    BY <2>2 DEF Run
  <2>4. shown' \in Records /\ shown'[r] = [display[r] EXCEPT !.status = v]
    BY <1>0, <2>1, <2>3 DEF Records
  <2>5. ExecOK' /\ exec'[r] = None
    BY <1>0, <2>1 DEF ExecOK
  <2>6. proc' \in [Runs -> Provider \cup {None}] /\ proc'[r] = None
    BY <1>0, <2>1
  <2>7. verdict' \in [Runs -> Terminal \cup {None}]
    BY <1>0, <2>1, <2>2
  <2>8. shown'[r].status \notin Active /\ shown'[r] # None
    BY <2>2, <2>3, <2>4, NoneAssumption DEF Active, Terminal
  <2>9. \A x \in Runs \ {r} : /\ shown'[x] = display[x]
                              /\ exec'[x] = exec[x] /\ proc'[x] = proc[x]
    BY <1>0, <2>1
  <2> QED BY <1>0, <2>1, <2>4, <2>5, <2>6, <2>7, <2>8, <2>9
<1> QED BY <1>2, <1>3

\* Whatever is written are records that are shown.
LEMMA PersistFacts ==
  ASSUME IInv, shown' \in Records, NEW groups \in SUBSET (SUBSET Runs),
         PersistGroups(groups)
  PROVE  rows' \in Records /\ unwritten' \subseteq Runs
         /\ budget' \in [{"crash", "fault"} -> Nat]
<1>1. /\ rows \in Records /\ unwritten \subseteq Runs
      /\ budget \in [{"crash", "fault"} -> Nat]
  BY DEF IInv, TypeOK, Records
<1>2. ASSUME NEW saved, Written(saved, UNION groups)
      PROVE  rows' \in Records /\ unwritten' \subseteq Runs
  <2>1. rows' \in Records
    BY <1>1, <1>2 DEF Written, Records
  <2>2. unwritten' \subseteq Runs
    BY <1>1, <1>2 DEF Written
  <2> QED BY <2>1, <2>2
<1>3. Spend("fault") \/ budget' = budget => budget' \in [{"crash", "fault"} -> Nat]
  BY <1>1 DEF Spend
<1> QED BY <1>2, <1>3 DEF PersistGroups

-----------------------------------------------------------------------------
(* Steps that start nothing: runs are handled, ended or left alone.        *)

\* Live runs may end; with a run go its provider and its caller, or it is
\* among those that ended unanswered.
Settles ==
  /\ shown' \in Records /\ ExecOK' /\ proc' \in [Runs -> Provider \cup {None}]
  /\ waiting' \in [Runs -> Caller \cup {None}]
  /\ told' \in [Runs -> {"result", "error", None}]
  /\ verdict' \in [Runs -> Terminal \cup {None}]
  /\ dropped \subseteq dropped' /\ dropped' \subseteq Runs
  /\ Occupied' = Live' /\ Live' \subseteq Live
  /\ \A x \in Runs : proc'[x] # None => proc[x] # None \/ x \in Live'
  /\ \A x \in Runs : waiting'[x] # None => waiting[x] # None
  /\ \A x \in Live \ Live' : proc'[x] = None /\ (waiting'[x] = None \/ x \in dropped')

\* How the set of live runs may change: a step that adds one had room for it.
Grows ==
  \/ Live' \subseteq Live
  \/ \E r \in Runs : Room(AgentOf[r]) /\ Live' \subseteq Live \cup {r}

Preserved == IInv' /\ Grows /\ (CallersAreAnswered => CallersAreAnswered')

LEMMA SettlesPreserves ==
  ASSUME IInv, Settles, mode # "down", mode' = mode, early' = early,
         rows' \in Records, unwritten' \subseteq Runs,
         budget' \in [{"crash", "fault"} -> Nat], inbox' \in [Runs -> Seq(Event)]
  PROVE  Preserved
<1>1. TypeOK'
  BY DEF IInv, TypeOK, Settles, Records, ExecOK
<1>2. \A r \in Runs \ early' : proc'[r] # None => r \in Live'
  <2> SUFFICES ASSUME NEW r \in Runs \ early, proc'[r] # None, r \notin Live' PROVE FALSE
    OBVIOUS
  <2>1. proc[r] # None
    BY DEF Settles
  <2>2. r \in Live
    BY <2>1 DEF IInv
  <2> QED BY <2>2 DEF Settles
<1>3. mode' = "resuming" => Live' \subseteq early'
  BY DEF IInv, Settles
<1>4. IInv'
  BY <1>1, <1>2, <1>3 DEF IInv, Settles
<1>5. CallersAreAnswered => CallersAreAnswered'
  <2> SUFFICES ASSUME CallersAreAnswered, NEW r \in Runs \ (early \cup dropped'),
                      waiting'[r] # None, r \notin Live'
               PROVE  FALSE
    BY DEF CallersAreAnswered
  <2>1. waiting[r] # None /\ r \notin early \cup dropped
    BY DEF Settles
  <2>2. r \in Live
    BY <2>1 DEF CallersAreAnswered
  <2> QED BY <2>2 DEF Settles
<1> QED BY <1>4, <1>5 DEF Preserved, Grows, Settles

LEMMA FinishSettles ==
  ASSUME IInv, NEW ended \in SUBSET Runs, NEW why, ended \subseteq Live,
         Finish(ended, why)
  PROVE  Settles
<1>1. EndRuns(ended, why)
  BY DEF Finish
<1>2. /\ shown' \in Records /\ ExecOK' /\ verdict' \in [Runs -> Terminal \cup {None}]
      /\ Live' = Live \ ended /\ Occupied' = Occupied \ ended
  BY <1>1, EndRunsFacts
<1>3. /\ proc' = [r \in Runs |-> IF r \in ended THEN None ELSE proc[r]]
      /\ proc' \in [Runs -> Provider \cup {None}]
      /\ told' \in [Runs -> {"result", "error", None}]
      /\ waiting' = [r \in Runs |-> IF r \in ended THEN None ELSE waiting[r]]
      /\ waiting' \in [Runs -> Caller \cup {None}]
      /\ dropped' = dropped
  BY FinishFacts
<1>4. Occupied = Live /\ dropped \subseteq Runs
  BY DEF IInv, TypeOK
<1> HIDE DEF Finish
<1> QED BY <1>2, <1>3, <1>4 DEF Settles

\* What a run shows besides may change while it is launched.
LEMMA LaunchSets ==
  ASSUME IInv, NEW r \in Runs, NEW display \in Records, display[r] \in Run,
         NEW k \in Nat \ {0}, Launch(r, display, k),
         \A x \in Runs \ {r} :
           (display[x] # None /\ display[x].status \in Active) <=> x \in Live
  PROVE  Occupied' = Live' /\ Live' \subseteq Live \cup {r} /\ Live \ {r} \subseteq Live'
<1>1. /\ \A x \in Runs \ {r} : shown'[x] = display[x] /\ exec'[x] = exec[x]
      /\ shown'[r] # None
      /\ \/ shown'[r].status \in Active /\ exec'[r] # None
         \/ shown'[r].status \notin Active /\ exec'[r] = None
  BY LaunchFacts
<1>2. \A x \in Runs \ {r} : (x \in Live' <=> x \in Live) /\ (x \in Occupied' <=> x \in Live)
  BY <1>1 DEF Live, Occupied
<1>3. r \in Live' <=> r \in Occupied'
  BY <1>1 DEF Live, Occupied
<1>4. Live \subseteq Runs /\ Live' \subseteq Runs /\ Occupied' \subseteq Runs
  BY DEF Live, Occupied
<1>5. \A x \in Runs : x \in Live' <=> x \in Occupied'
  BY <1>2, <1>3
<1>6. Occupied' = Live'
  BY <1>4, <1>5
<1>7. Live' \subseteq Live \cup {r}
  BY <1>2, <1>4
<1>8. Live \ {r} \subseteq Live'
  BY <1>2, <1>4
<1> QED BY <1>6, <1>7, <1>8

LEMMA LaunchSettles ==
  ASSUME IInv, NEW r \in Live, NEW display \in Records, display[r] \in Run,
         NEW k \in Nat \ {0}, Launch(r, display, k), UNCHANGED <<told, waiting>>,
         \A x \in Runs \ {r} : display[x] = shown[x]
  PROVE  Settles
<1>0. r \in Runs /\ Live \subseteq Runs
  BY DEF Live
<1>1. \A x \in Runs \ {r} : (display[x] # None /\ display[x].status \in Active) <=> x \in Live
  BY DEF IInv, Occupied
<1>2. Occupied' = Live' /\ Live' \subseteq Live \cup {r} /\ Live \ {r} \subseteq Live'
  BY <1>0, <1>1, LaunchSets
<1>3. /\ shown' \in Records /\ ExecOK' /\ proc' \in [Runs -> Provider \cup {None}]
      /\ verdict' \in [Runs -> Terminal \cup {None}] /\ dropped' \subseteq Runs
      /\ \A x \in Runs \ {r} : proc'[x] = proc[x]
      /\ dropped \subseteq dropped'
      /\ exec'[r] # None \/ (proc'[r] = None /\ r \in dropped')
  BY <1>0, LaunchFacts
<1>4. exec'[r] # None <=> r \in Live'
  BY <1>0 DEF Live
<1>5. /\ waiting' = waiting /\ waiting' \in [Runs -> Caller \cup {None}]
      /\ told' \in [Runs -> {"result", "error", None}]
  BY DEF IInv, TypeOK
<1>6. \A x \in Runs : proc'[x] # None => proc[x] # None \/ x \in Live'
  BY <1>0, <1>3, <1>4
<1>7. \A x \in Live \ Live' : proc'[x] = None /\ x \in dropped'
  BY <1>2, <1>3, <1>4
<1> QED BY <1>2, <1>3, <1>5, <1>6, <1>7 DEF Settles

LEMMA RetrySettles ==
  ASSUME IInv, NEW r \in Live, Retry(r)
  PROVE  Settles
<1>0. r \in Runs /\ exec[r] # None
  BY DEF Live
<1>1. shown[r] \in Run /\ exec[r].target \in 1..LastTarget(r)
  BY <1>0, LiveRecords
<1>2. shown \in Records /\ LastTarget(r) \in Nat
  BY <1>0, SubagentAssumption DEF IInv, TypeOK, Records, LastTarget
<1>3. CASE exec[r].target < LastTarget(r)
  <2>1. Launch(r, shown, exec[r].target + 1) /\ UNCHANGED <<told, waiting>>
    BY <1>3 DEF Retry
  <2>2. PICK d : d = shown
    OBVIOUS
  <2>3. PICK k : k = exec[r].target + 1
    OBVIOUS
  <2>4. k \in Nat \ {0} /\ d \in Records /\ d[r] \in Run
    BY <1>1, <1>2, <2>2, <2>3
  <2>5. Launch(r, d, k)
    BY <2>1, <2>2, <2>3
  <2> QED BY <2>1, <2>2, <2>4, <2>5, LaunchSettles
<1>4. CASE ~(exec[r].target < LastTarget(r))
  <2>1. Finish({r}, "fail")
    BY <1>4 DEF Retry
  <2> QED BY <1>0, <2>1, FinishSettles
<1> QED BY <1>3, <1>4

LEMMA CommandSettles ==
  ASSUME IInv, NEW r \in Live, NEW display \in Records,
         display[r] \in Run, display[r].status \in Active,
         \A x \in Runs \ {r} : display[x] = shown[x],
         NEW from, NEW to \in {"asked", "turn"}, Command(r, display, from, to)
  PROVE  Settles
<1>0. r \in Runs /\ exec[r] # None /\ Live \subseteq Runs
  BY DEF Live
<1>1. CASE ~Reachable(r)
  <2>1. Launch(r, display, exec[r].target + 1) /\ UNCHANGED <<told, waiting>>
    BY <1>1 DEF Command
  <2>2. PICK k : k = exec[r].target + 1
    OBVIOUS
  <2>3. exec[r].target \in 1..LastTarget(r) /\ LastTarget(r) \in Nat
    BY <1>0, LiveRecords, SubagentAssumption DEF LastTarget
  <2>4. k \in Nat \ {0} /\ Launch(r, display, k)
    BY <2>1, <2>2, <2>3
  <2> QED BY <2>1, <2>4, LaunchSettles
<1>2. CASE Reachable(r)
  <2>1. /\ shown' = display /\ exec' = exec /\ verdict' = verdict /\ dropped' = dropped
        /\ told' = told /\ waiting' = waiting
        /\ proc' = IF proc[r].stage = from THEN [proc EXCEPT ![r].stage = to] ELSE proc
    BY <1>2 DEF Command
  <2>2. proc[r] \in Provider /\ proc \in [Runs -> Provider \cup {None}]
    BY <1>0, <1>2 DEF Reachable, IInv, TypeOK
  <2>3. [proc[r] EXCEPT !.stage = to] \in Provider
    BY <2>2 DEF Provider
  <2>4. proc' \in [Runs -> Provider \cup {None}]
    BY <2>1, <2>2, <2>3
  <2>5. \A x \in Runs : proc'[x] # None => proc[x] # None
    BY <1>2, <2>1, <2>2 DEF Reachable
  <2>6. Live' = Live
    BY <2>1 DEF Live
  <2>7. Occupied' = Live
    <3>1. display[r] # None
      BY NoneAssumption
    <3>2. \A x \in Runs : x \in Occupied' <=> x \in Live
      BY <1>0, <2>1, <3>1 DEF IInv, Occupied
    <3> QED BY <1>0, <3>2 DEF Occupied
  <2>8. ExecOK' /\ verdict' \in [Runs -> Terminal \cup {None}] /\ dropped \subseteq Runs
        /\ waiting' \in [Runs -> Caller \cup {None}]
        /\ told' \in [Runs -> {"result", "error", None}]
    BY <2>1 DEF IInv, TypeOK, ExecOK
  <2> QED BY <2>1, <2>4, <2>5, <2>6, <2>7, <2>8 DEF Settles
<1> QED BY <1>1, <1>2

LEMMA ItemSettles ==
  ASSUME IInv, NEW r \in Live, OnItem(r)
  PROVE  Settles
<1>0. r \in Runs /\ exec[r] # None /\ Live \subseteq Runs
  BY DEF Live
<1>1. /\ shown' = [shown EXCEPT ![r].evidence = TRUE]
      /\ UNCHANGED <<exec, proc, waiting, verdict, told, dropped>>
  BY DEF OnItem
<1>2. shown[r] \in Run /\ shown[r].status \in Active /\ shown \in [Runs -> Run \cup {None}]
  BY <1>0, LiveRecords DEF IInv, TypeOK
<1>3. /\ [shown[r] EXCEPT !.evidence = TRUE] \in Run
      /\ [shown[r] EXCEPT !.evidence = TRUE].status = shown[r].status
  BY <1>2 DEF Run
<1>4. shown' \in Records
  BY <1>1, <1>2, <1>3 DEF Records
<1>5. Live' = Live
  BY <1>1 DEF Live
<1>6. Occupied' = Occupied
  <2>1. /\ shown'[r] # None /\ shown'[r].status \in Active
        /\ \A x \in Runs \ {r} : shown'[x] = shown[x]
    BY <1>0, <1>1, <1>2, <1>3, NoneAssumption
  <2>2. r \in Occupied
    BY <1>0, <1>2, NoneAssumption DEF Occupied
  <2>3. \A x \in Runs : x \in Occupied' <=> x \in Occupied
    BY <2>1, <2>2 DEF Occupied
  <2> QED BY <2>3 DEF Occupied
<1>7. /\ ExecOK' /\ verdict' \in [Runs -> Terminal \cup {None}] /\ dropped \subseteq Runs
      /\ waiting' \in [Runs -> Caller \cup {None}] /\ proc' \in [Runs -> Provider \cup {None}]
      /\ told' \in [Runs -> {"result", "error", None}] /\ Occupied = Live
  BY <1>1 DEF IInv, TypeOK, ExecOK
<1> QED BY <1>1, <1>4, <1>5, <1>6, <1>7 DEF Settles

LEMMA AnswerSettles ==
  ASSUME IInv, NEW r \in Live, OnAnswer(r)
  PROVE  Settles
<1>0. r \in Runs /\ exec[r] # None /\ Live \subseteq Runs
  BY DEF Live
<1>1. /\ exec' = [exec EXCEPT ![r].response = TRUE]
      /\ UNCHANGED <<shown, proc, waiting, verdict, told, dropped>>
  BY DEF OnAnswer
<1>2. exec[r] \in Execution /\ exec \in [Runs -> Execution \cup {None}]
  BY <1>0, LiveRecords DEF IInv, TypeOK
<1>3. /\ [exec[r] EXCEPT !.response = TRUE] \in Execution
      /\ [exec[r] EXCEPT !.response = TRUE].target = exec[r].target
  BY <1>2 DEF Execution
<1>4. /\ exec' \in [Runs -> Execution \cup {None}] /\ exec'[r] # None
      /\ exec'[r].target = exec[r].target /\ \A x \in Runs \ {r} : exec'[x] = exec[x]
  BY <1>0, <1>1, <1>2, <1>3, NoneAssumption
<1>5. ExecOK'
  BY <1>0, <1>4 DEF ExecOK, IInv, TypeOK
<1>6. Live' = Live
  BY <1>0, <1>4 DEF Live
<1>7. Occupied' = Occupied
  BY <1>1 DEF Occupied
<1>8. /\ shown' \in Records /\ verdict' \in [Runs -> Terminal \cup {None}]
      /\ waiting' \in [Runs -> Caller \cup {None}] /\ proc' \in [Runs -> Provider \cup {None}]
      /\ told' \in [Runs -> {"result", "error", None}] /\ Occupied = Live
      /\ dropped \subseteq Runs
  BY <1>1 DEF IInv, TypeOK, Records
<1> QED BY <1>1, <1>5, <1>6, <1>7, <1>8 DEF Settles

-----------------------------------------------------------------------------
(* One lemma per action.                                                   *)

LEMMA PersistTyped ==
  ASSUME IInv, shown' \in Records, NEW changed \in SUBSET Runs,
         Persist(changed) \/ NotPersisted(changed)
  PROVE  rows' \in Records /\ unwritten' \subseteq Runs
         /\ budget' \in [{"crash", "fault"} -> Nat]
<1>1. CASE Persist(changed)
  <2>1. {{x} : x \in changed} \in SUBSET (SUBSET Runs)
    OBVIOUS
  <2>2. PersistGroups({{x} : x \in changed})
    BY <1>1 DEF Persist
  <2> QED BY <2>1, <2>2, PersistFacts
<1>2. CASE NotPersisted(changed)
  BY <1>2 DEF NotPersisted, IInv, TypeOK, Records
<1> QED BY <1>1, <1>2

\* What an event does to its live run, and what of it is written.
LEMMA EventSettles ==
  ASSUME IInv, NEW r \in Live,
         \/ OnReady(r) \/ OnCreated(r) \/ OnItem(r) \/ OnAnswer(r) \/ OnLoss(r)
         \/ \E why \in {"end", "cut", "fail"} : OnEnd(r, why)
  PROVE  Settles /\ \E changed \in SUBSET Runs : Persist(changed) \/ NotPersisted(changed)
<1>0. r \in Runs /\ exec[r] # None /\ Live \subseteq Runs
  BY DEF Live
<1>1. shown[r] \in Run /\ shown \in Records
  BY <1>0, LiveRecords DEF IInv, TypeOK, Records
<1>2. ASSUME NEW status \in Active, NEW display, display = [shown EXCEPT ![r].status = status]
      PROVE  /\ display \in Records /\ display[r] \in Run /\ display[r].status \in Active
             /\ \A x \in Runs \ {r} : display[x] = shown[x]
  <2>1. /\ [shown[r] EXCEPT !.status = status] \in Run
        /\ [shown[r] EXCEPT !.status = status].status = status
    BY <1>1 DEF Run
  <2>2. display \in Records /\ display[r] = [shown[r] EXCEPT !.status = status]
    BY <1>0, <1>1, <1>2, <2>1 DEF Records
  <2>3. \A x \in Runs \ {r} : display[x] = shown[x]
    BY <1>1, <1>2 DEF Records
  <2> QED BY <2>1, <2>2, <2>3
<1>3. {r} \in SUBSET Runs /\ {} \in SUBSET Runs
  BY <1>0
<1>4. CASE OnReady(r)
  <2>1. CASE Retry(r) /\ NotPersisted(IF exec'[r] = None THEN {r} ELSE {})
    <3>1. PICK changed : changed = IF exec'[r] = None THEN {r} ELSE {}
      OBVIOUS
    <3>2. changed \in SUBSET Runs /\ NotPersisted(changed)
      BY <1>3, <2>1, <3>1
    <3>3. Settles
      BY <2>1, RetrySettles
    <3> QED BY <3>2, <3>3
  <2>2. CASE /\ Command(r, [shown EXCEPT ![r].status = "starting"], "ready", "asked")
             /\ IF Reachable(r) THEN NotPersisted({}) ELSE Persist({r})
    <3>1. PICK d : d = [shown EXCEPT ![r].status = "starting"]
      OBVIOUS
    <3>2. /\ d \in Records /\ d[r] \in Run /\ d[r].status \in Active
          /\ \A x \in Runs \ {r} : d[x] = shown[x]
      BY <1>2, <3>1 DEF Active
    <3>3. Command(r, d, "ready", "asked")
      BY <2>2, <3>1
    <3>4. Settles
      BY <3>2, <3>3, CommandSettles
    <3> QED BY <1>3, <2>2, <3>4
  <2> QED BY <1>4, <2>1, <2>2 DEF OnReady
<1>5. CASE OnCreated(r)
  <2>1. ASSUME Finish({r}, "fail") PROVE Settles
    BY <1>0, <1>3, <2>1, FinishSettles
  <2>2. ASSUME Command(r, [shown EXCEPT ![r].status = "working"], "session", "turn")
        PROVE  Settles
    <3>1. PICK d : d = [shown EXCEPT ![r].status = "working"]
      OBVIOUS
    <3>2. /\ d \in Records /\ d[r] \in Run /\ d[r].status \in Active
          /\ \A x \in Runs \ {r} : d[x] = shown[x]
      BY <1>2, <3>1 DEF Active
    <3>3. Command(r, d, "session", "turn")
      BY <2>2, <3>1
    <3> QED BY <3>2, <3>3, CommandSettles
  <2>3. Persist({r})
    BY <1>5 DEF OnCreated
  <2>4. Settles
    BY <1>5, <2>1, <2>2 DEF OnCreated
  <2> QED BY <1>3, <2>3, <2>4
<1>6. CASE OnItem(r)
  <2>1. Persist({r})
    BY <1>6 DEF OnItem
  <2>2. Settles
    BY <1>6, ItemSettles
  <2> QED BY <1>3, <2>1, <2>2
<1>7. CASE OnAnswer(r)
  <2>1. NotPersisted({})
    BY <1>7 DEF OnAnswer
  <2>2. Settles
    BY <1>7, AnswerSettles
  <2> QED BY <1>3, <2>1, <2>2
<1>8. CASE OnLoss(r)
  <2>1. Persist({r}) /\ Retry(r)
    BY <1>8 DEF OnLoss
  <2>2. Settles
    BY <2>1, RetrySettles
  <2> QED BY <1>3, <2>1, <2>2
<1>9. CASE \E why \in {"end", "cut", "fail"} : OnEnd(r, why)
  <2>1. PICK why \in {"end", "cut", "fail"} : OnEnd(r, why)
    BY <1>9
  <2>2. Finish({r}, why) /\ Persist({r})
    BY <2>1 DEF OnEnd
  <2>3. Settles
    BY <1>0, <1>3, <2>2, FinishSettles
  <2> QED BY <1>3, <2>2, <2>3
<1> QED BY <1>4, <1>5, <1>6, <1>7, <1>8, <1>9

LEMMA HandlePreserves ==
  ASSUME IInv, NEW r \in Runs, Handle(r)
  PROVE  Preserved
<1>1. /\ mode # "down" /\ mode' = mode /\ early' = early /\ inbox[r] # <<>>
      /\ inbox' = [inbox EXCEPT ![r] = Tail(@)]
  BY DEF Handle
<1>2. inbox' \in [Runs -> Seq(Event)]
  <2>1. inbox \in [Runs -> Seq(Event)] /\ inbox[r] \in Seq(Event)
    BY DEF IInv, TypeOK
  <2>2. Tail(inbox[r]) \in Seq(Event)
    BY <1>1, <2>1
  <2> QED BY <1>1, <2>1, <2>2
<1>3. CASE exec[r] = None
  <2>1. UNCHANGED <<rows, shown, exec, proc, waiting, verdict, told, unwritten, dropped, budget>>
    BY <1>3 DEF Handle, Reduces
  <2>2. Live' = Live /\ Occupied' = Occupied
    BY <2>1 DEF Live, Occupied
  <2>3. Settles
    BY <2>1, <2>2 DEF Settles, IInv, TypeOK, Records, ExecOK
  <2>4. /\ rows' \in Records /\ unwritten' \subseteq Runs
        /\ budget' \in [{"crash", "fault"} -> Nat]
    BY <2>1 DEF IInv, TypeOK, Records
  <2> QED BY <1>1, <1>2, <2>3, <2>4, SettlesPreserves
<1>4. CASE exec[r] # None
  <2>1. r \in Live
    BY <1>4 DEF Live
  <2>2. \/ OnReady(r) \/ OnCreated(r) \/ OnItem(r) \/ OnAnswer(r) \/ OnLoss(r)
        \/ \E why \in {"end", "cut", "fail"} : OnEnd(r, why)
    BY <1>4 DEF Handle, Reduces
  <2>3. Settles /\ \E changed \in SUBSET Runs : Persist(changed) \/ NotPersisted(changed)
    BY <2>1, <2>2, EventSettles
  <2>4. PICK changed \in SUBSET Runs : Persist(changed) \/ NotPersisted(changed)
    BY <2>3
  <2>5. shown' \in Records
    BY <2>3 DEF Settles
  <2>6. /\ rows' \in Records /\ unwritten' \subseteq Runs
        /\ budget' \in [{"crash", "fault"} -> Nat]
    BY <2>4, <2>5, PersistTyped
  <2> QED BY <1>1, <1>2, <2>3, <2>6, SettlesPreserves
<1> QED BY <1>3, <1>4

LEMMA InterruptPreserves ==
  ASSUME IInv, NEW ended \in SUBSET Runs, Interrupt(ended)
  PROVE  Preserved
<1>1. /\ mode # "down" /\ ended \subseteq Live /\ Finish(ended, "cut") /\ Persist(ended)
      /\ mode' = mode /\ early' = early /\ inbox' = inbox
  BY DEF Interrupt
<1>2. Settles
  BY <1>1, FinishSettles
<1>3. shown' \in Records
  BY <1>2 DEF Settles
<1>4. /\ rows' \in Records /\ unwritten' \subseteq Runs
      /\ budget' \in [{"crash", "fault"} -> Nat]
  BY <1>1, <1>3, PersistTyped
<1>5. inbox' \in [Runs -> Seq(Event)]
  BY <1>1 DEF IInv, TypeOK
<1> QED BY <1>1, <1>2, <1>4, <1>5, SettlesPreserves

LEMMA HangUpPreserves ==
  ASSUME IInv, NEW r \in Runs, HangUp(r)
  PROVE  Preserved
<1>1. /\ mode # "down" /\ mode' = mode /\ early' = early /\ inbox' = inbox
      /\ dropped' = dropped /\ told' = [told EXCEPT ![r] = "error"]
      /\ waiting' = [waiting EXCEPT ![r] = None]
  BY DEF HangUp
<1>2. /\ inbox' \in [Runs -> Seq(Event)] /\ waiting' \in [Runs -> Caller \cup {None}]
      /\ told' \in [Runs -> {"result", "error", None}] /\ dropped \subseteq Runs
      /\ \A x \in Runs : waiting'[x] # None => waiting[x] # None
      /\ waiting'[r] = None /\ proc \in [Runs -> Provider \cup {None}]
      /\ Occupied = Live
  BY <1>1 DEF IInv, TypeOK
<1>3. CASE exec[r] = None
  <2>1. UNCHANGED <<rows, shown, exec, proc, verdict, unwritten, budget>>
    BY <1>3 DEF HangUp
  <2>2. Live' = Live /\ Occupied' = Occupied
    BY <2>1 DEF Live, Occupied
  <2>3. Settles
    BY <1>1, <1>2, <2>1, <2>2 DEF Settles, IInv, TypeOK, Records, ExecOK
  <2>4. /\ rows' \in Records /\ unwritten' \subseteq Runs
        /\ budget' \in [{"crash", "fault"} -> Nat]
    BY <2>1 DEF IInv, TypeOK, Records
  <2> QED BY <1>1, <1>2, <2>3, <2>4, SettlesPreserves
<1>4. CASE exec[r] # None
  <2>1. EndRuns({r}, "cut") /\ StopProviders({r}) /\ Persist({r})
    BY <1>4 DEF HangUp
  <2>2. {r} \subseteq Live /\ {r} \in SUBSET Runs
    BY <1>4 DEF Live
  <2>3. /\ shown' \in Records /\ ExecOK' /\ verdict' \in [Runs -> Terminal \cup {None}]
        /\ Live' = Live \ {r} /\ Occupied' = Occupied \ {r}
    BY <2>1, <2>2, EndRunsFacts
  <2>4. /\ proc' \in [Runs -> Provider \cup {None}] /\ proc'[r] = None
        /\ \A x \in Runs : proc'[x] # None => proc[x] # None
    BY <1>2, <2>1 DEF StopProviders
  <2>5. Settles
    BY <1>1, <1>2, <2>3, <2>4 DEF Settles
  <2>6. /\ rows' \in Records /\ unwritten' \subseteq Runs
        /\ budget' \in [{"crash", "fault"} -> Nat]
    BY <2>1, <2>2, <2>3, PersistTyped
  <2> QED BY <1>1, <1>2, <2>5, <2>6, SettlesPreserves
<1> QED BY <1>3, <1>4

LEMMA DeletionFailsPreserves ==
  ASSUME IInv, DeletionFails
  PROVE  Preserved
<1>1. /\ mode # "down" /\ mode' = mode /\ early' = early /\ inbox' = inbox
      /\ dropped' = dropped /\ EndRuns(Live, "cut") /\ StopProviders(Runs)
      /\ told' = [r \in Runs |-> IF waiting[r] = None THEN told[r] ELSE "error"]
      /\ waiting' = NoneOf /\ rows' = rows /\ unwritten' = unwritten \cup Live
      /\ Spend("fault")
  BY DEF DeletionFails
<1>2. PICK ended : ended = Live
  OBVIOUS
<1>3. ended \in SUBSET Runs /\ ended \subseteq Live /\ EndRuns(ended, "cut")
  BY <1>1, <1>2 DEF Live
<1>4. /\ shown' \in Records /\ ExecOK' /\ verdict' \in [Runs -> Terminal \cup {None}]
      /\ Live' = Live \ ended /\ Occupied' = Occupied \ ended
  BY <1>3, EndRunsFacts
<1>5. proc' \in [Runs -> Provider \cup {None}] /\ \A x \in Runs : proc'[x] = None
  BY <1>1 DEF StopProviders
<1>6. waiting' \in [Runs -> Caller \cup {None}] /\ \A x \in Runs : waiting'[x] = None
  BY <1>1 DEF NoneOf
<1>7. /\ inbox' \in [Runs -> Seq(Event)] /\ told' \in [Runs -> {"result", "error", None}]
      /\ dropped \subseteq Runs /\ Occupied = Live
      /\ rows' \in Records /\ unwritten' \subseteq Runs
  BY <1>1, <1>2, <1>3 DEF IInv, TypeOK, Records
<1>8. budget' \in [{"crash", "fault"} -> Nat]
  BY <1>1 DEF Spend, IInv, TypeOK
<1>9. Settles
  <2>1. Live \subseteq Runs
    BY DEF Live
  <2> QED BY <1>1, <1>4, <1>5, <1>6, <1>7, <2>1 DEF Settles
<1> QED BY <1>1, <1>7, <1>8, <1>9, SettlesPreserves

LEMMA CredentialPreserves ==
  ASSUME IInv, NEW released \in SUBSET Runs, CredentialCleared(released)
  PROVE  Preserved
<1>1. /\ mode # "down" /\ Spend("fault") /\ StopProviders(released)
      /\ UNCHANGED <<rows, mode, shown, exec, inbox, waiting, verdict, told, early,
                     unwritten, dropped>>
  BY DEF CredentialCleared, history
<1>2. Live' = Live /\ Occupied' = Occupied
  BY <1>1 DEF Live, Occupied
<1>3. /\ proc' \in [Runs -> Provider \cup {None}]
      /\ \A x \in Runs : proc'[x] # None => proc[x] # None
  BY <1>1 DEF StopProviders, IInv, TypeOK
<1>4. Settles
  BY <1>1, <1>2, <1>3 DEF Settles, IInv, TypeOK, Records, ExecOK
<1>5. budget' \in [{"crash", "fault"} -> Nat]
  BY <1>1 DEF Spend, IInv, TypeOK
<1>6. rows' \in Records /\ unwritten' \subseteq Runs /\ inbox' \in [Runs -> Seq(Event)]
  BY <1>1 DEF IInv, TypeOK, Records
<1> QED BY <1>1, <1>4, <1>5, <1>6, SettlesPreserves

LEMMA EmitPreserves ==
  ASSUME IInv, NEW r \in Runs, NEW stages, NEW kind \in Event, NEW to,
         to \in {"ready", "session", "turn", "over", "dead"}, Emit(r, stages, kind, to)
  PROVE  Preserved
<1>1. /\ proc[r] # None /\ proc' = [proc EXCEPT ![r].stage = to]
      /\ inbox' = [inbox EXCEPT ![r] = Append(@, kind)]
      /\ UNCHANGED <<rows, mode, shown, exec, waiting, verdict, told, early, unwritten,
                     dropped, budget>>
  BY DEF Emit, history
<1>2. proc \in [Runs -> Provider \cup {None}] /\ proc[r] \in Provider
      /\ inbox \in [Runs -> Seq(Event)]
  BY <1>1 DEF IInv, TypeOK
<1>3. mode # "down"
  BY <1>1 DEF IInv, NoneOf
<1>4. [proc[r] EXCEPT !.stage = to] \in Provider
  BY <1>2 DEF Provider
<1>5. /\ proc' \in [Runs -> Provider \cup {None}]
      /\ \A x \in Runs : proc'[x] # None => proc[x] # None
  BY <1>1, <1>2, <1>4
<1>6. inbox' \in [Runs -> Seq(Event)]
  BY <1>1, <1>2
<1>7. Live' = Live /\ Occupied' = Occupied
  BY <1>1 DEF Live, Occupied
<1>8. Settles
  BY <1>1, <1>5, <1>7 DEF Settles, IInv, TypeOK, Records, ExecOK
<1>9. /\ rows' \in Records /\ unwritten' \subseteq Runs
      /\ budget' \in [{"crash", "fault"} -> Nat]
  BY <1>1 DEF IInv, TypeOK, Records
<1> QED BY <1>1, <1>3, <1>6, <1>8, <1>9, SettlesPreserves

LEMMA ProvidePreserves ==
  ASSUME IInv, NEW r \in Runs, Provide(r)
  PROVE  Preserved
<1>1. CASE Emit(r, {"booting"}, "ready", "ready")
  BY <1>1, EmitPreserves DEF Event
<1>2. CASE Emit(r, {"asked"}, "created", "session")
  BY <1>2, EmitPreserves DEF Event
<1>3. CASE Emit(r, {"asked"}, "refused", "ready")
  BY <1>3, EmitPreserves DEF Event
<1>4. ASSUME NEW kind \in {"item", "answer"}, Emit(r, {"turn"}, kind, "turn")
      PROVE  Preserved
  BY <1>4, EmitPreserves DEF Event
<1>5. ASSUME NEW kind \in {"done", "cut", "broken"}, Emit(r, {"turn"}, kind, "over")
      PROVE  Preserved
  BY <1>5, EmitPreserves DEF Event
<1>6. CASE Emit(r, {"booting", "ready", "asked", "session", "turn", "over"}, "lost", "dead")
  BY <1>6, EmitPreserves DEF Event
<1> QED BY <1>1, <1>2, <1>3, <1>4, <1>5, <1>6 DEF Provide

\* A run that is started takes a place there was room for.
LEMMA StartPreserves ==
  ASSUME IInv, NEW r \in Runs, NEW display \in Records, display[r] \in Run,
         Launch(r, display, 1), Room(AgentOf[r]), shown[r] = None,
         \A x \in Runs \ {r} :
           (display[x] # None /\ display[x].status \in Active) <=> x \in Live,
         mode # "down", mode' = mode, inbox' = inbox, told' = told,
         waiting' \in [Runs -> Caller \cup {None}],
         \A x \in Runs \ {r} : waiting'[x] = waiting[x],
         early' = IF mode = "resuming" THEN early \cup {r} ELSE early,
         rows' \in Records, unwritten' \subseteq Runs,
         budget' \in [{"crash", "fault"} -> Nat]
  PROVE  Preserved
<1>1. /\ shown' \in Records /\ ExecOK' /\ proc' \in [Runs -> Provider \cup {None}]
      /\ verdict' \in [Runs -> Terminal \cup {None}] /\ dropped' \subseteq Runs
      /\ \A x \in Runs \ {r} : exec'[x] = exec[x] /\ proc'[x] = proc[x]
      /\ dropped \subseteq dropped'
      /\ exec'[r] # None \/ (proc'[r] = None /\ r \in dropped')
  <2>1. 1 \in Nat \ {0}
    OBVIOUS
  <2> QED BY <2>1, LaunchFacts
<1>2. Occupied' = Live' /\ Live' \subseteq Live \cup {r} /\ Live \ {r} \subseteq Live'
  <2>1. 1 \in Nat \ {0}
    OBVIOUS
  <2> QED BY <2>1, LaunchSets
<1>3. exec'[r] # None <=> r \in Live'
  BY DEF Live
<1>4. early \subseteq early' /\ early' \subseteq Runs
  BY DEF IInv, TypeOK
<1>5. TypeOK'
  BY <1>1, <1>4 DEF IInv, TypeOK, Records, ExecOK
<1>6. \A x \in Runs \ early' : proc'[x] # None => x \in Live'
  <2> SUFFICES ASSUME NEW x \in Runs \ early', proc'[x] # None PROVE x \in Live'
    OBVIOUS
  <2>1. CASE x = r
    BY <1>1, <1>3, <2>1
  <2>2. CASE x # r
    BY <1>1, <1>2, <1>4, <2>2 DEF IInv
  <2> QED BY <2>1, <2>2
<1>7. mode' = "resuming" => Live' \subseteq early'
  BY <1>2 DEF IInv
<1>8. IInv'
  BY <1>2, <1>5, <1>6, <1>7 DEF IInv
<1>9. Grows
  BY <1>2 DEF Grows
<1>10. CallersAreAnswered => CallersAreAnswered'
  <2> SUFFICES ASSUME CallersAreAnswered, NEW x \in Runs \ (early' \cup dropped'),
                      waiting'[x] # None
               PROVE  x \in Live'
    BY DEF CallersAreAnswered
  <2>1. CASE x = r
    BY <1>1, <1>3, <2>1
  <2>2. CASE x # r
    BY <1>1, <1>2, <1>4, <2>2 DEF CallersAreAnswered
  <2> QED BY <2>1, <2>2
<1> QED BY <1>8, <1>9, <1>10 DEF Preserved

LEMMA DelegatePreserves ==
  ASSUME IInv, NEW r \in Runs, NEW p \in Runs \cup {None}, NEW native \in BOOLEAN,
         Delegate(r, p, native)
  PROVE  Preserved
<1>1. PICK depth : depth = DepthUnder(p, AgentOf[r])
  OBVIOUS
<1>2. PICK display : display = [shown EXCEPT ![r] = NewRun(p, depth, None, 0)]
  OBVIOUS
<1>3. /\ mode # "down" /\ Unused(r) /\ Room(AgentOf[r]) /\ MayDelegate(p)
      /\ native => IF p = None THEN mode = "open" ELSE proc[p] # None /\ proc[p].stage = "turn"
      /\ Persist({r}) /\ mode' = mode /\ inbox' = inbox /\ told' = told
      /\ waiting' = IF native
           THEN [waiting EXCEPT ![r] = [parent |-> p,
                                        target |-> IF p = None THEN 0 ELSE proc[p].target]]
           ELSE waiting
      /\ early' = IF mode = "resuming" THEN early \cup {r} ELSE early
  BY DEF Delegate
<1>4. Launch(r, display, 1)
  BY <1>1, <1>2 DEF Delegate
<1>5. shown[r] = None /\ shown \in [Runs -> Run \cup {None}]
  BY <1>3 DEF Unused, IInv, TypeOK
<1>6. depth \in Nat
  <2>1. MaxDepth[AgentOf[r]] \in Nat
    BY SubagentAssumption
  <2>2. CASE p = None
    BY <1>1, <2>1, <2>2 DEF DepthUnder
  <2>3. CASE p # None
    <3>1. shown[p].depth > 0 /\ shown[p] \in Run
      BY <1>3, <2>3, LiveRecords DEF MayDelegate
    <3>2. shown[p].depth - 1 \in Nat
      BY <3>1 DEF Run
    <3> QED BY <1>1, <2>1, <2>3, <3>2 DEF DepthUnder
  <2> QED BY <2>2, <2>3
<1>7. NewRun(p, depth, None, 0) \in Run
  BY <1>6 DEF NewRun, Run, Active
<1>8. /\ display \in Records /\ display[r] \in Run
      /\ \A x \in Runs \ {r} : display[x] = shown[x]
  BY <1>2, <1>5, <1>7 DEF Records
<1>9. \A x \in Runs \ {r} : (display[x] # None /\ display[x].status \in Active) <=> x \in Live
  BY <1>8 DEF IInv, Occupied
<1>10. waiting' \in [Runs -> Caller \cup {None}] /\ \A x \in Runs \ {r} : waiting'[x] = waiting[x]
  <2>1. waiting \in [Runs -> Caller \cup {None}] /\ proc \in [Runs -> Provider \cup {None}]
    BY DEF IInv, TypeOK
  <2>2. CASE native
    <3>1. PICK t : t = IF p = None THEN 0 ELSE proc[p].target
      OBVIOUS
    <3>2. t \in Nat
      <4>1. CASE p = None
        BY <3>1, <4>1
      <4>2. CASE p # None
        <5>1. proc[p] \in Provider
          BY <1>3, <2>1, <2>2, <4>2
        <5> QED BY <3>1, <4>2, <5>1 DEF Provider
      <4> QED BY <4>1, <4>2
    <3>3. [parent |-> p, target |-> t] \in Caller
      BY <3>2 DEF Caller
    <3>4. waiting' = [waiting EXCEPT ![r] = [parent |-> p, target |-> t]]
      BY <1>3, <2>2, <3>1
    <3> QED BY <2>1, <3>3, <3>4
  <2>3. CASE ~native
    BY <1>3, <2>1, <2>3
  <2> QED BY <2>2, <2>3
<1>11. /\ rows' \in Records /\ unwritten' \subseteq Runs
       /\ budget' \in [{"crash", "fault"} -> Nat]
  <2>1. shown' \in Records
    <3>1. 1 \in Nat \ {0}
      OBVIOUS
    <3> QED BY <1>4, <1>8, <3>1, LaunchFacts
  <2> QED BY <1>3, <2>1, PersistTyped
<1> QED BY <1>3, <1>4, <1>5, <1>8, <1>9, <1>10, <1>11, StartPreserves

LEMMA ContinuePreserves ==
  ASSUME IInv, NEW s \in Runs, NEW r \in Runs, Continue(s, r)
  PROVE  Preserved
<1>1. PICK new : new = NewRun(shown[s].parent, shown[s].depth, s, shown[s].level + 1)
  OBVIOUS
<1>2. PICK display : display = [shown EXCEPT ![s].heir = r, ![r] = new]
  OBVIOUS
<1>3. /\ mode = "open" /\ Unused(r) /\ Continuable(s) /\ Room(AgentOf[r])
      /\ PersistTogether({s, r})
      /\ mode' = mode /\ inbox' = inbox /\ waiting' = waiting /\ told' = told
      /\ early' = early
  BY DEF Continue
<1>4. Launch(r, display, 1)
  BY <1>1, <1>2 DEF Continue
<1>5. /\ shown[r] = None /\ shown \in [Runs -> Run \cup {None}]
      /\ shown[s] # None /\ shown[s].status \notin Active
  BY <1>3 DEF Unused, Continuable, IInv, TypeOK, Active
<1>6. s # r /\ shown[s] \in Run
  BY <1>5
<1>7. new \in Run
  BY <1>1, <1>6 DEF NewRun, Run, Active
<1>8. /\ [shown[s] EXCEPT !.heir = r] \in Run
      /\ [shown[s] EXCEPT !.heir = r].status = shown[s].status
  BY <1>6 DEF Run
<1>9. /\ display \in Records /\ display[r] \in Run
      /\ \A x \in Runs \ {s, r} : display[x] = shown[x]
      /\ display[s] = [shown[s] EXCEPT !.heir = r]
  BY <1>2, <1>5, <1>6, <1>7, <1>8 DEF Records
<1>10. \A x \in Runs \ {r} : (display[x] # None /\ display[x].status \in Active) <=> x \in Live
  <2>1. s \notin Live
    BY <1>5 DEF IInv, Occupied
  <2>2. display[s].status \notin Active
    BY <1>5, <1>8, <1>9
  <2>3. \A x \in Runs \ {s, r} :
          (display[x] # None /\ display[x].status \in Active) <=> x \in Live
    BY <1>9 DEF IInv, Occupied
  <2> QED BY <2>1, <2>2, <2>3
<1>11. waiting' \in [Runs -> Caller \cup {None}]
  BY <1>3 DEF IInv, TypeOK
<1>12. /\ rows' \in Records /\ unwritten' \subseteq Runs
       /\ budget' \in [{"crash", "fault"} -> Nat]
  <2>1. shown' \in Records
    <3>1. 1 \in Nat \ {0}
      OBVIOUS
    <3> QED BY <1>4, <1>9, <3>1, LaunchFacts
  <2>2. {{s, r}} \in SUBSET (SUBSET Runs) /\ PersistGroups({{s, r}})
    BY <1>3 DEF PersistTogether
  <2> QED BY <2>1, <2>2, PersistFacts
<1> QED BY <1>3, <1>4, <1>5, <1>9, <1>10, <1>11, <1>12, StartPreserves

LEMMA NobodyPreserves ==
  ASSUME IInv, TypeOK', exec' = NoneOf, Occupied' = {}, early' = early,
         dropped' = dropped, mode' # "down" \/ (proc' = NoneOf /\ waiting' = NoneOf),
         \A x \in Runs \ early : proc'[x] = None,
         \A x \in Runs \ (early \cup dropped) :
           waiting'[x] # None => waiting[x] # None /\ x \notin Live
  PROVE  Preserved
<1>1. Live' = {}
  BY DEF Live, NoneOf
<1>2. IInv'
  BY <1>1 DEF IInv
<1>3. CallersAreAnswered => CallersAreAnswered'
  BY <1>1 DEF CallersAreAnswered
<1> QED BY <1>1, <1>2, <1>3 DEF Preserved, Grows

LEMMA CrashPreserves ==
  ASSUME IInv, Crash
  PROVE  Preserved
<1>1. /\ Spend("crash") /\ mode' = "down" /\ shown' = NoneOf /\ exec' = NoneOf
      /\ proc' = NoneOf /\ waiting' = NoneOf /\ inbox' = [r \in Runs |-> <<>>]
      /\ UNCHANGED <<rows, verdict, told, early, unwritten, dropped>>
  BY DEF Crash, history
<1>2. budget' \in [{"crash", "fault"} -> Nat]
  BY <1>1 DEF Spend, IInv, TypeOK
<1>3. \A r \in Runs : exec'[r] = None
  BY <1>1 DEF NoneOf
<1>4. inbox' \in [Runs -> Seq(Event)]
  BY <1>1
<1>5. TypeOK'
  BY <1>1, <1>2, <1>3, <1>4 DEF IInv, TypeOK, NoneOf
<1>6. Occupied' = {}
  BY <1>1 DEF Occupied, NoneOf
<1> QED BY <1>1, <1>5, <1>6, NobodyPreserves DEF NoneOf

LEMMA LoadFacts ==
  ASSUME IInv, LoadSubagents
  PROVE  /\ shown' \in Records /\ exec' = NoneOf /\ rows' \in Records
         /\ budget' \in [{"crash", "fault"} -> Nat]
         /\ verdict' \in [Runs -> Terminal \cup {None}] /\ Occupied' = {}
<1>0. /\ rows \in [Runs -> Run \cup {None}] /\ verdict \in [Runs -> Terminal \cup {None}]
      /\ budget \in [{"crash", "fault"} -> Nat]
  BY DEF IInv, TypeOK
<1>1. \A r \in Runs : /\ Restored(r) \in Run \cup {None}
                      /\ Restored(r) # None => Restored(r).status \in Terminal
  <2> SUFFICES ASSUME NEW r \in Runs
               PROVE  /\ Restored(r) \in Run \cup {None}
                      /\ Restored(r) # None => Restored(r).status \in Terminal
    OBVIOUS
  <2>1. CASE rows[r] # None /\ rows[r].status \in Active
    <3>1. rows[r] \in Run /\ Restored(r) = [rows[r] EXCEPT !.status = "interrupted"]
      BY <1>0, <2>1 DEF Restored
    <3>2. /\ [rows[r] EXCEPT !.status = "interrupted"] \in Run
          /\ [rows[r] EXCEPT !.status = "interrupted"].status = "interrupted"
      BY <3>1 DEF Run, Terminal
    <3> QED BY <3>1, <3>2 DEF Terminal
  <2>2. CASE ~(rows[r] # None /\ rows[r].status \in Active)
    <3>1. Restored(r) = rows[r]
      BY <2>2 DEF Restored
    <3>2. rows[r] # None => rows[r].status \in Active \cup Terminal
      BY <1>0 DEF Run
    <3> QED BY <1>0, <2>2, <3>1, <3>2
  <2> QED BY <2>1, <2>2
<1>2. shown' = [r \in Runs |-> Restored(r)] /\ exec' = NoneOf
  BY DEF LoadSubagents
<1>3. shown' \in Records
  BY <1>1, <1>2 DEF Records
<1>4. rows' \in Records /\ budget' \in [{"crash", "fault"} -> Nat]
  <2>1. \E saved : rows' = [r \in Runs |-> IF r \in saved THEN Restored(r) ELSE rows[r]]
    BY DEF LoadSubagents
  <2>2. rows' \in Records
    BY <1>0, <1>1, <2>1 DEF Records
  <2>3. budget' = budget \/ Spend("fault")
    BY DEF LoadSubagents
  <2>4. budget' \in [{"crash", "fault"} -> Nat]
    BY <1>0, <2>3 DEF Spend
  <2> QED BY <2>2, <2>4
<1>5. verdict' \in [Runs -> Terminal \cup {None}]
  <2>1. verdict' = [r \in Runs |-> IF verdict[r] = None /\ Restored(r) # None
                                   THEN Restored(r).status ELSE verdict[r]]
    BY DEF LoadSubagents
  <2> QED BY <1>0, <1>1, <2>1
<1>6. Occupied' = {}
  <2>1. \A r \in Runs : shown'[r] # None => shown'[r].status \notin Active
    BY <1>1, <1>2 DEF Active, Terminal
  <2> QED BY <2>1 DEF Occupied
<1> QED BY <1>2, <1>3, <1>4, <1>5, <1>6

LEMMA OpenPreserves ==
  ASSUME IInv, Open \/ Resumed
  PROVE  Preserved
<1>1. /\ LoadSubagents /\ UNCHANGED <<proc, inbox, waiting, told, early, unwritten, dropped>>
      /\ mode' \in {"resuming", "open"}
      /\ mode = "down" \/ mode = "resuming"
  BY DEF Open, Resumed
<1>2. /\ shown' \in Records /\ exec' = NoneOf /\ rows' \in Records
      /\ budget' \in [{"crash", "fault"} -> Nat]
      /\ verdict' \in [Runs -> Terminal \cup {None}] /\ Occupied' = {}
  BY <1>1, LoadFacts
<1>3. exec' \in [Runs -> Execution \cup {None}] /\ \A r \in Runs : exec'[r] = None
  BY <1>2 DEF NoneOf
<1>4. TypeOK'
  BY <1>1, <1>2, <1>3 DEF IInv, TypeOK, Records
<1>5. Live \subseteq early
  BY <1>1 DEF IInv
<1>6. \A x \in Runs \ early : proc'[x] = None
  BY <1>1, <1>5 DEF IInv
<1> QED BY <1>1, <1>2, <1>4, <1>5, <1>6, NobodyPreserves

-----------------------------------------------------------------------------
(* The theorems.                                                           *)

LEMMA InitEstablishes == Init => IInv /\ CallersAreAnswered
<1> SUFFICES ASSUME Init PROVE IInv /\ CallersAreAnswered
  OBVIOUS
<1>1. /\ rows = NoneOf /\ mode = "open" /\ shown = NoneOf /\ exec = NoneOf /\ proc = NoneOf
      /\ inbox = [r \in Runs |-> <<>>] /\ waiting = NoneOf
      /\ verdict = NoneOf /\ told = NoneOf /\ early = {} /\ unwritten = {} /\ dropped = {}
      /\ budget = [crash |-> MaxCrashes, fault |-> MaxFaults]
  BY DEF Init
<1>2. \A r \in Runs : NoneOf[r] = None
  BY DEF NoneOf
<1>3. budget \in [{"crash", "fault"} -> Nat]
  BY <1>1, SubagentAssumption
<1>4. inbox \in [Runs -> Seq(Event)]
  BY <1>1
<1>5. TypeOK
  BY <1>1, <1>2, <1>3, <1>4 DEF TypeOK, NoneOf
<1>6. Live = {} /\ Occupied = {}
  BY <1>1, <1>2 DEF Live, Occupied
<1> QED BY <1>1, <1>2, <1>5, <1>6 DEF IInv, CallersAreAnswered

LEMMA NextPreserves ==
  ASSUME IInv, [Next]_vars
  PROVE  Preserved
<1>1. ASSUME NEW r \in Runs, NEW p \in Runs \cup {None}, NEW native \in BOOLEAN,
             Delegate(r, p, native)
      PROVE  Preserved
  BY <1>1, DelegatePreserves
<1>2. ASSUME NEW s \in Runs, NEW r \in Runs, Continue(s, r) PROVE Preserved
  BY <1>2, ContinuePreserves
<1>3. ASSUME NEW r \in Runs, Provide(r) PROVE Preserved
  BY <1>3, ProvidePreserves
<1>4. ASSUME NEW r \in Runs, Handle(r) PROVE Preserved
  BY <1>4, HandlePreserves
<1>5. ASSUME NEW r \in Runs, HangUp(r) PROVE Preserved
  BY <1>5, HangUpPreserves
<1>6. ASSUME NEW ended \in SUBSET Runs, Interrupt(ended) PROVE Preserved
  BY <1>6, InterruptPreserves
<1>7. CASE DeletionFails
  BY <1>7, DeletionFailsPreserves
<1>8. ASSUME NEW released \in SUBSET Runs, CredentialCleared(released) PROVE Preserved
  BY <1>8, CredentialPreserves
<1>9. CASE Crash
  BY <1>9, CrashPreserves
<1>10. CASE Open \/ Resumed
  BY <1>10, OpenPreserves
<1>11. CASE UNCHANGED vars
  <2>1. UNCHANGED <<rows, mode, shown, exec, proc, inbox, waiting, verdict, told, early,
                    unwritten, dropped, budget>>
    BY <1>11 DEF vars, history
  <2>2. Live' = Live /\ Occupied' = Occupied
    BY <2>1 DEF Live, Occupied
  <2>3. TypeOK'
    BY <2>1 DEF IInv, TypeOK
  <2>4. IInv'
    BY <2>1, <2>2, <2>3 DEF IInv, NoneOf
  <2>5. CallersAreAnswered => CallersAreAnswered'
    BY <2>1, <2>2 DEF CallersAreAnswered
  <2> QED BY <2>2, <2>4, <2>5 DEF Preserved, Grows
<1> QED
  BY <1>1, <1>2, <1>3, <1>4, <1>5, <1>6, <1>7, <1>8, <1>9, <1>10, <1>11 DEF Next

\* Every run keeps one record, one execution of one of its archetype's targets,
\* one provider and one caller at most (OrchestrationState, subagent_executions
\* and the provider registry).
THEOREM TypeCorrect == Spec => []TypeOK
<1>1. Init => IInv
  BY InitEstablishes
<1>2. IInv /\ [Next]_vars => IInv'
  BY NextPreserves DEF Preserved
<1>3. IInv => TypeOK
  BY DEF IInv
<1> QED BY <1>1, <1>2, <1>3, PTL DEF Spec

\* A native delegation's caller waits for a live run or is answered
\* (complete_native_delegations), unless the run was delegated during a resume
\* or ended inside the execution of its own effects.
THEOREM CallersAnsweredAlways == Spec => []CallersAreAnswered
<1>1. Init => IInv /\ CallersAreAnswered
  BY InitEstablishes
<1>2. IInv /\ CallersAreAnswered /\ [Next]_vars => IInv' /\ CallersAreAnswered'
  BY NextPreserves DEF Preserved
<1> QED BY <1>1, <1>2, PTL DEF Spec

OfAgent(a) == {r \in Live : AgentOf[r] = a}

\* validate_subagent_concurrency counts what is displayed as active; a new run
\* adds one to the sets it counted.
Counted ==
  /\ Cardinality(Live) <= Limit
  /\ \A a \in Agents : Cardinality(OfAgent(a)) <= MaxConcurrent[a]

LEMMA AtMostOneMore ==
  ASSUME NEW S, NEW T, NEW x, IsFiniteSet(T), S \subseteq T \cup {x}, NEW n \in Nat,
         Cardinality(T) < n
  PROVE  Cardinality(S) <= n
<1>0. Cardinality(T) \in Nat
  BY FS_CardinalityType
<1>1. IsFiniteSet(T \cup {x}) /\ Cardinality(T \cup {x}) <= Cardinality(T) + 1
  <2>1. /\ IsFiniteSet(T \cup {x})
        /\ \/ Cardinality(T \cup {x}) = Cardinality(T)
           \/ Cardinality(T \cup {x}) = Cardinality(T) + 1
    BY FS_AddElement
  <2> QED BY <1>0, <2>1
<1>2. IsFiniteSet(S) /\ Cardinality(S) <= Cardinality(T \cup {x})
  BY <1>1, FS_Subset
<1> QED BY <1>0, <1>1, <1>2, FS_CardinalityType

LEMMA NoMore ==
  ASSUME NEW S, NEW T, IsFiniteSet(T), S \subseteq T, NEW n \in Nat, Cardinality(T) <= n
  PROVE  Cardinality(S) <= n
<1>1. IsFiniteSet(S) /\ Cardinality(S) <= Cardinality(T)
  BY FS_Subset
<1> QED BY <1>1, FS_CardinalityType

LEMMA CountedPreserved ==
  ASSUME IInv, Counted, Grows
  PROVE  Counted'
<1>1. /\ Limit \in Nat /\ MaxConcurrent \in [Agents -> Nat] /\ IsFiniteSet(Runs)
      /\ AgentOf \in [Runs -> Agents]
  BY SubagentAssumption
<1>2. IsFiniteSet(Live) /\ \A a \in Agents : IsFiniteSet(OfAgent(a))
  <2>1. Live \subseteq Runs /\ \A a \in Agents : OfAgent(a) \subseteq Runs
    BY DEF Live, OfAgent
  <2> QED BY <1>1, <2>1, FS_Subset
<1>3. CASE Live' \subseteq Live
  <2>1. Cardinality(Live') <= Limit
    BY <1>1, <1>2, <1>3, NoMore DEF Counted
  <2>2. ASSUME NEW a \in Agents PROVE Cardinality(OfAgent(a)') <= MaxConcurrent[a]
    <3>1. OfAgent(a)' \subseteq OfAgent(a)
      BY <1>3 DEF OfAgent
    <3>2. Cardinality(OfAgent(a)) <= MaxConcurrent[a] /\ MaxConcurrent[a] \in Nat
      BY <1>1 DEF Counted
    <3> QED BY <1>2, <3>1, <3>2, NoMore
  <2> QED BY <2>1, <2>2 DEF Counted
<1>4. ASSUME NEW r \in Runs, Room(AgentOf[r]), Live' \subseteq Live \cup {r}
      PROVE  Counted'
  <2>1. /\ Cardinality(Live) < Limit
        /\ Cardinality(OfAgent(AgentOf[r])) < MaxConcurrent[AgentOf[r]]
    BY <1>4 DEF Room, IInv, OfAgent
  <2>2. Cardinality(Live') <= Limit
    BY <1>1, <1>2, <1>4, <2>1, AtMostOneMore
  <2>3. ASSUME NEW a \in Agents PROVE Cardinality(OfAgent(a)') <= MaxConcurrent[a]
    <3>1. MaxConcurrent[a] \in Nat
      BY <1>1
    <3>2. CASE a = AgentOf[r]
      <4>1. OfAgent(a)' \subseteq OfAgent(a) \cup {r}
        BY <1>4 DEF OfAgent
      <4> QED BY <1>2, <2>1, <3>1, <3>2, <4>1, AtMostOneMore
    <3>3. CASE a # AgentOf[r]
      <4>1. OfAgent(a)' \subseteq OfAgent(a)
        BY <1>4, <3>3 DEF OfAgent
      <4>2. Cardinality(OfAgent(a)) <= MaxConcurrent[a]
        BY DEF Counted
      <4> QED BY <1>2, <3>1, <4>1, <4>2, NoMore
    <3> QED BY <3>2, <3>3
  <2> QED BY <2>2, <2>3 DEF Counted
<1> QED BY <1>3, <1>4 DEF Grows

\* Only a live run takes a place, no archetype and no session takes more than
\* it has, and a provider belongs to a live run unless that was delegated
\* during a resume (validate_subagent_concurrency, release of providers).
THEOREM PlacesAreReleasedAlways == Spec => []PlacesAreReleased
<1>1. Init => IInv /\ Counted
  <2> SUFFICES ASSUME Init PROVE Counted
    BY InitEstablishes
  <2>1. Live = {} /\ \A a \in Agents : OfAgent(a) = {}
    BY DEF Init, NoneOf, Live, OfAgent
  <2>2. Cardinality({}) = 0 /\ Limit \in Nat /\ MaxConcurrent \in [Agents -> Nat]
    BY FS_EmptySet, SubagentAssumption
  <2>3. \A a \in Agents : Cardinality(OfAgent(a)) <= MaxConcurrent[a]
    BY <2>1, <2>2
  <2> QED BY <2>1, <2>2, <2>3 DEF Counted
<1>2. IInv /\ Counted /\ [Next]_vars => IInv' /\ Counted'
  BY NextPreserves, CountedPreserved DEF Preserved
<1>3. IInv /\ Counted => PlacesAreReleased
  BY DEF IInv, Counted, OfAgent, PlacesAreReleased
<1> QED BY <1>1, <1>2, <1>3, PTL DEF Spec

-----------------------------------------------------------------------------
(* Records, verdicts and links.                                            *)

\* What a restart makes of a record: a run found active was cut off.
Image(run) == IF run.status \in Active THEN [run EXCEPT !.status = "interrupted"] ELSE run

\* A run none of whose changes missed the disk: its row and what is shown of it are
\* one record up to a restart, its verdict is the one a restart would show, and
\* whatever its caller was told, unless nobody answered, is that verdict.
RunInv(r) ==
  /\ shown[r] # None => rows[r] # None /\ Image(rows[r]) = Image(shown[r])
  /\ mode # "down" /\ rows[r] # None => shown[r] # None
  /\ verdict[r] # None => rows[r] # None /\ Image(rows[r]).status = verdict[r]
  /\ r \notin dropped /\ told[r] # None =>
       verdict[r] # None /\ (told[r] = "result" <=> verdict[r] \in Success)

\* A successor in the given records is named by its source, or neither is trusted.
LinkedIn(records, r) ==
  records[r] # None /\ records[r].source # None =>
    \/ {records[r].source, r} \subseteq unwritten
    \/ records[records[r].source] # None /\ records[records[r].source].heir = r

RecordInv ==
  /\ \A r \in Runs \ unwritten : RunInv(r)
  /\ \A r \in Runs : exec[r] # None => verdict[r] = None
  /\ \A r \in Runs : LinkedIn(rows, r) /\ LinkedIn(shown, r)
  /\ early \subseteq unwritten

FullInv == IInv /\ CallersAreAnswered /\ RecordInv

LEMMA ImageFacts ==
  ASSUME NEW a \in Run
  PROVE  /\ Image(a) \in Run /\ Image(a).source = a.source /\ Image(a).heir = a.heir
         /\ Image(a).status \in Terminal /\ Image(Image(a)) = Image(a)
         /\ a.status \in Terminal => Image(a) = a
         /\ a.status \in Active => Image(a).status = "interrupted"
<1>1. CASE a.status \in Active
  <2>1. /\ Image(a) = [a EXCEPT !.status = "interrupted"] /\ Image(a) \in Run
        /\ Image(a).status = "interrupted" /\ Image(a).source = a.source
        /\ Image(a).heir = a.heir
    BY <1>1 DEF Image, Run, Terminal
  <2>2. Image(Image(a)) = Image(a) /\ Image(a).status \in Terminal /\ a.status \notin Terminal
    BY <1>1, <2>1 DEF Image, Active, Terminal
  <2> QED BY <2>1, <2>2
<1>2. CASE a.status \notin Active
  <2>1. Image(a) = a
    BY <1>2 DEF Image
  <2>2. a.status \in Terminal
    BY <1>2 DEF Run
  <2> QED BY <1>2, <2>1, <2>2
<1> QED BY <1>1, <1>2

\* Unless source and successor both missed the disk, row and display agree on a link.
LEMMA Linked ==
  ASSUME FullInv, mode # "down", NEW s \in Runs, NEW x \in Runs,
         ~({s, x} \subseteq unwritten),
         \/ rows[x] # None /\ rows[x].source = s
         \/ shown[x] # None /\ shown[x].source = s
  PROVE  /\ rows[s] # None /\ rows[s].heir = x
         /\ shown[s] # None /\ shown[s].heir = x
<1>0. s # None
  BY SubagentAssumption
<1>1. ASSUME NEW y \in Runs \ unwritten
      PROVE  /\ shown[y] # None <=> rows[y] # None
             /\ shown[y] # None => /\ shown[y].source = rows[y].source
                                   /\ shown[y].heir = rows[y].heir
  <2>1. RunInv(y)
    BY DEF FullInv, RecordInv
  <2>2. rows[y] \in Run \cup {None} /\ shown[y] \in Run \cup {None}
    BY DEF FullInv, IInv, TypeOK
  <2> QED BY <2>1, <2>2, ImageFacts DEF RunInv
<1>2. LinkedIn(rows, x) /\ LinkedIn(shown, x)
  BY DEF FullInv, RecordInv
<1>3. CASE rows[x] # None /\ rows[x].source = s
  <2>1. rows[s] # None /\ rows[s].heir = x
    BY <1>0, <1>2, <1>3 DEF LinkedIn
  <2>2. CASE s \notin unwritten
    BY <1>1, <2>1, <2>2
  <2>3. CASE x \notin unwritten
    <3>1. shown[x] # None /\ shown[x].source = s
      BY <1>1, <1>3, <2>3
    <3>2. shown[s] # None /\ shown[s].heir = x
      BY <1>0, <1>2, <2>3, <3>1 DEF LinkedIn
    <3> QED BY <2>1, <3>2
  <2> QED BY <2>2, <2>3
<1>4. CASE shown[x] # None /\ shown[x].source = s
  <2>1. shown[s] # None /\ shown[s].heir = x
    BY <1>0, <1>2, <1>4 DEF LinkedIn
  <2>2. CASE s \notin unwritten
    BY <1>1, <2>1, <2>2
  <2>3. CASE x \notin unwritten
    <3>1. rows[x] # None /\ rows[x].source = s
      BY <1>1, <1>4, <2>3
    <3>2. rows[s] # None /\ rows[s].heir = x
      BY <1>0, <1>2, <2>3, <3>1 DEF LinkedIn
    <3> QED BY <2>1, <3>2
  <2> QED BY <2>2, <2>3
<1> QED BY <1>3, <1>4

\* A step leaves a run as a restart would restore it: at most its activity changes,
\* and its caller is told something only if it cannot have waited for a verdict.
Same(x) ==
  /\ shown'[x] # None <=> shown[x] # None
  /\ shown[x] # None => Image(shown'[x]) = Image(shown[x])
  /\ verdict'[x] = verdict[x]
  /\ told'[x] = told[x] \/ x \in early \cup dropped

\* A live run goes on, or ends and tells its caller how.
Changed(x) ==
  /\ x \in Live /\ shown'[x] # None
  /\ shown'[x].source = shown[x].source /\ shown'[x].heir = shown[x].heir
  /\ \/ verdict'[x] = verdict[x] /\ told'[x] = told[x]
     \/ /\ verdict'[x] = shown'[x].status /\ shown'[x].status \in Terminal
        /\ told'[x] = told[x] \/ (told'[x] = "result" <=> verdict'[x] \in Success)

\* Nothing starts; some live runs change.
Moves(changed) ==
  /\ dropped \subseteq dropped'
  /\ \A x \in Runs : exec'[x] # None => exec[x] # None /\ verdict'[x] = verdict[x]
  /\ \A x \in Runs \ changed : Same(x)
  /\ \A x \in changed : Changed(x)

\* What changed is on disk as it is shown, or known not to be.
Files(changed) ==
  /\ unwritten \subseteq unwritten'
  /\ \A x \in Runs \ changed : rows'[x] = rows[x]
  /\ \A x \in changed : \/ rows'[x] = rows[x] /\ x \in unwritten'
                        \/ rows'[x] = shown'[x] /\ mode = "open"

LEMMA MovesKeep ==
  ASSUME FullInv, TypeOK', NEW changed \in SUBSET Runs, Moves(changed), Files(changed),
         mode # "down", mode' = mode, early' = early
  PROVE  RecordInv'
<1>0. /\ \A x \in Runs : /\ rows[x] \in Run \cup {None} /\ shown[x] \in Run \cup {None}
                         /\ rows'[x] \in Run \cup {None} /\ shown'[x] \in Run \cup {None}
      /\ unwritten \subseteq unwritten' /\ dropped \subseteq dropped'
      /\ early \subseteq unwritten
  BY DEF FullInv, IInv, RecordInv, TypeOK, Files, Moves
<1>1. ASSUME NEW x \in Runs \ unwritten' PROVE RunInv(x)'
  <2>0. RunInv(x)
    BY <1>0 DEF FullInv, RecordInv
  <2>1. CASE x \notin changed
    <3>1. rows'[x] = rows[x] /\ Same(x)
      BY <2>1 DEF Files, Moves
    <3>2. x \notin dropped' => told'[x] = told[x]
      BY <1>0, <3>1 DEF Same
    <3> QED BY <1>0, <2>0, <3>1, <3>2 DEF RunInv, Same
  <2>2. CASE x \in changed
    <3>1. rows'[x] = shown'[x] /\ Changed(x) /\ shown'[x] \in Run
      BY <1>0, <2>2 DEF Files, Moves, Changed
    <3>2. verdict[x] = None /\ (x \notin dropped => told[x] = None)
      BY <2>0, <3>1 DEF FullInv, RecordInv, RunInv, Changed, Live
    <3>3. /\ shown'[x] # None => rows'[x] # None /\ Image(rows'[x]) = Image(shown'[x])
          /\ mode' # "down" /\ rows'[x] # None => shown'[x] # None
      BY <3>1
    <3>4. verdict'[x] # None => rows'[x] # None /\ Image(rows'[x]).status = verdict'[x]
      BY <3>1, <3>2, ImageFacts, NoneAssumption DEF Changed
    <3>5. x \notin dropped' /\ told'[x] # None =>
            verdict'[x] # None /\ (told'[x] = "result" <=> verdict'[x] \in Success)
      <4>1. None \notin Terminal
        BY NoneAssumption
      <4>2. CASE verdict'[x] = verdict[x] /\ told'[x] = told[x]
        BY <1>0, <3>2, <4>2
      <4>3. CASE /\ verdict'[x] = shown'[x].status /\ shown'[x].status \in Terminal
                 /\ told'[x] = told[x] \/ (told'[x] = "result" <=> verdict'[x] \in Success)
        BY <1>0, <3>2, <4>1, <4>3
      <4> QED BY <3>1, <4>2, <4>3 DEF Changed
    <3> QED BY <3>3, <3>4, <3>5 DEF RunInv
  <2> QED BY <2>1, <2>2
<1>2. ASSUME NEW x \in Runs, exec'[x] # None PROVE verdict'[x] = None
  BY <1>2 DEF Moves, FullInv, RecordInv
<1>3. ASSUME NEW x \in Runs
      PROVE  /\ shown'[x] # None => /\ shown[x] # None /\ shown'[x].source = shown[x].source
                                    /\ shown'[x].heir = shown[x].heir
             /\ shown[x] # None => shown'[x] # None
  <2>1. CASE x \notin changed
    <3>1. Same(x)
      BY <2>1 DEF Moves
    <3> QED BY <1>0, <3>1, ImageFacts DEF Same
  <2>2. CASE x \in changed
    <3>1. Changed(x) /\ exec[x] # None
      BY <2>2 DEF Moves, Changed, Live
    <3>2. shown[x] # None
      BY <3>1, LiveRecords, NoneAssumption DEF FullInv
    <3> QED BY <3>1, <3>2 DEF Changed
  <2> QED BY <2>1, <2>2
<1>4. \A x \in Runs : rows'[x] = rows[x] \/ rows'[x] = shown'[x]
  BY DEF Files
<1>5. ASSUME NEW s \in Runs, NEW x \in Runs, ~({s, x} \subseteq unwritten'),
             \/ rows'[x] # None /\ rows'[x].source = s
             \/ shown'[x] # None /\ shown'[x].source = s
      PROVE  /\ rows'[s] # None /\ rows'[s].heir = x
             /\ shown'[s] # None /\ shown'[s].heir = x
  <2>1. \/ rows[x] # None /\ rows[x].source = s
        \/ shown[x] # None /\ shown[x].source = s
    BY <1>3, <1>4, <1>5
  <2>2. ~({s, x} \subseteq unwritten)
    BY <1>0, <1>5
  <2>3. /\ rows[s] # None /\ rows[s].heir = x
        /\ shown[s] # None /\ shown[s].heir = x
    BY <2>1, <2>2, Linked
  <2> QED BY <1>3, <1>4, <2>3
<1>6. ASSUME NEW x \in Runs PROVE LinkedIn(rows, x)' /\ LinkedIn(shown, x)'
  <2>1. rows'[x] # None => rows'[x].source \in Runs \cup {None}
    BY <1>0 DEF Run
  <2>2. shown'[x] # None => shown'[x].source \in Runs \cup {None}
    BY <1>0 DEF Run
  <2> QED BY <1>5, <2>1, <2>2 DEF LinkedIn
<1>7. early' \subseteq unwritten'
  BY <1>0
<1> QED BY <1>1, <1>2, <1>6, <1>7 DEF RecordInv

-----------------------------------------------------------------------------
(* The parts of the steps, as changes to records.                          *)

LEMMA EndMoves ==
  ASSUME FullInv, NEW ended \in SUBSET Runs, NEW why, ended \subseteq Live,
         EndRuns(ended, why), dropped' = dropped,
         \A x \in Runs \ ended : told'[x] = told[x] \/ x \in early \cup dropped,
         \A x \in ended : \/ told'[x] = told[x]
                          \/ told'[x] = "result" <=> shown'[x].status \in Success
  PROVE  Moves(ended)
<1> DEFINE v == [r \in ended |-> VerdictOf(shown[r], exec[r].response, why)]
<1>1. /\ shown' = [r \in Runs |-> IF r \in ended THEN [shown[r] EXCEPT !.status = v[r]]
                                  ELSE shown[r]]
      /\ exec' = [r \in Runs |-> IF r \in ended THEN None ELSE exec[r]]
      /\ verdict' = [r \in Runs |-> IF r \in ended THEN v[r] ELSE verdict[r]]
  BY DEF EndRuns
<1>2. \A x \in ended : v[x] \in Terminal
  BY Verdicts
<1> HIDE DEF v
<1>3. \A x \in ended : shown[x] \in Run
  BY LiveRecords DEF Live, FullInv
<1>4. \A x \in Runs \ ended : shown'[x] = shown[x] /\ verdict'[x] = verdict[x]
                              /\ exec'[x] = exec[x]
  BY <1>1
<1>5. ASSUME NEW x \in ended PROVE Changed(x)
  <2>1. shown'[x] = [shown[x] EXCEPT !.status = v[x]] /\ verdict'[x] = v[x]
    BY <1>1
  <2>2. /\ shown'[x] \in Run /\ shown'[x].status = v[x]
        /\ shown'[x].source = shown[x].source /\ shown'[x].heir = shown[x].heir
    BY <1>2, <1>3, <2>1 DEF Run
  <2>3. shown'[x] # None /\ shown'[x].status \in Terminal
    BY <1>2, <2>2, NoneAssumption
  <2> QED BY <2>1, <2>2, <2>3 DEF Changed
<1>6. \A x \in ended : exec'[x] = None
  BY <1>1
<1> QED BY <1>4, <1>5, <1>6 DEF Moves, Same

LEMMA FinishMoves ==
  ASSUME FullInv, NEW ended \in SUBSET Runs, NEW why, ended \subseteq Live,
         Finish(ended, why)
  PROVE  Moves(ended)
<1>1. /\ EndRuns(ended, why) /\ dropped' = dropped
      /\ told' = [r \in Runs |-> IF r \notin ended \/ waiting[r] = None THEN told[r]
                    ELSE IF shown'[r].status \in Success THEN "result" ELSE "error"]
  BY DEF Finish, Answer
<1>2. \A x \in Runs \ ended : told'[x] = told[x]
  BY <1>1
<1>3. \A x \in ended : \/ told'[x] = told[x]
                       \/ told'[x] = "result" <=> shown'[x].status \in Success
  BY <1>1
<1> QED BY <1>1, <1>2, <1>3, EndMoves

\* A launched run shows what it is launched with, starting or ended.
Launched(r, display, status) ==
  /\ shown' = [display EXCEPT ![r].status = status]
  /\ \A x \in Runs \ {r} : exec'[x] = exec[x]
  /\ \/ status \in Active /\ exec'[r] # None /\ verdict' = verdict /\ dropped' = dropped
     \/ /\ status \in Terminal /\ exec'[r] = None
        /\ verdict' = [verdict EXCEPT ![r] = status] /\ dropped' = dropped \cup {r}

LEMMA LaunchShape ==
  ASSUME IInv, NEW r \in Runs, NEW display \in Records, display[r] \in Run,
         NEW k \in Nat \ {0}, Launch(r, display, k)
  PROVE  \E status \in Active \cup Terminal : Launched(r, display, status)
<1>0. exec \in [Runs -> Execution \cup {None}] /\ LastTarget(r) \in Nat
  BY SubagentAssumption DEF IInv, TypeOK, LastTarget
<1>1. PICK n \in k..(LastTarget(r) + 1) :
        IF n <= LastTarget(r)
        THEN /\ shown' = [display EXCEPT ![r].status = "starting"]
             /\ exec' = [exec EXCEPT ![r] = [target |-> n, response |-> FALSE]]
             /\ proc' = [proc EXCEPT ![r] = [target |-> n, stage |-> "booting"]]
             /\ UNCHANGED <<verdict, dropped>>
        ELSE FinishUnanswered(r, display)
  BY DEF Launch
<1>2. CASE n <= LastTarget(r)
  <2>1. [target |-> n, response |-> FALSE] \in Execution
    BY <1>0 DEF Execution
  <2>2. exec'[r] # None /\ \A x \in Runs \ {r} : exec'[x] = exec[x]
    BY <1>0, <1>1, <1>2, <2>1, NoneAssumption
  <2> QED BY <1>1, <1>2, <2>2 DEF Active, Launched
<1>3. CASE ~(n <= LastTarget(r))
  <2>1. PICK v : v = VerdictOf(display[r], FALSE, "fail")
    OBVIOUS
  <2>2. v \in Terminal
    BY <2>1, Verdicts
  <2>3. /\ shown' = [display EXCEPT ![r].status = v]
        /\ exec' = [exec EXCEPT ![r] = None]
        /\ verdict' = [verdict EXCEPT ![r] = v] /\ dropped' = dropped \cup {r}
    BY <1>1, <1>3, <2>1 DEF FinishUnanswered
  <2>4. exec'[r] = None /\ \A x \in Runs \ {r} : exec'[x] = exec[x]
    BY <1>0, <2>3
  <2> QED BY <2>2, <2>3, <2>4 DEF Launched
<1> QED BY <1>2, <1>3

\* Two records that differ in an active status only are restored alike.
LEMMA StatusImage ==
  ASSUME NEW a \in Run, NEW status \in Active, a.status \in Active
  PROVE  Image([a EXCEPT !.status = status]) = Image(a)
<1>1. PICK b : b = [a EXCEPT !.status = status]
  OBVIOUS
<1>2. b.status = status /\ b.status \in Active
  BY <1>1 DEF Run
<1>3. [b EXCEPT !.status = "interrupted"] = [a EXCEPT !.status = "interrupted"]
  BY <1>1 DEF Run
<1> QED BY <1>1, <1>2, <1>3 DEF Image

\* A live run launched again changes alone, or not at all if it goes on.
LEMMA LaunchMoves ==
  ASSUME FullInv, NEW r \in Live, NEW given \in Active, NEW display,
         display = [shown EXCEPT ![r].status = given],
         NEW k \in Nat \ {0}, Launch(r, display, k), told' = told
  PROVE  Moves({r}) /\ (exec'[r] # None => Moves({}))
<1>0. r \in Runs /\ exec[r] # None /\ IInv
  BY DEF Live, FullInv
<1>1. shown \in [Runs -> Run \cup {None}] /\ shown[r] \in Run /\ shown[r].status \in Active
      /\ verdict \in [Runs -> Terminal \cup {None}] /\ verdict[r] = None
  BY <1>0, LiveRecords DEF FullInv, IInv, TypeOK, RecordInv
<1>2. [shown[r] EXCEPT !.status = given] \in Run
  BY <1>1 DEF Run
<1>3. display \in Records /\ display[r] = [shown[r] EXCEPT !.status = given]
      /\ display[r] \in Run /\ \A x \in Runs \ {r} : display[x] = shown[x]
  BY <1>0, <1>1, <1>2 DEF Records
<1>4. PICK status \in Active \cup Terminal : Launched(r, display, status)
  BY <1>0, <1>3, LaunchShape
<1>5. shown'[r] = [shown[r] EXCEPT !.status = status]
      /\ \A x \in Runs \ {r} : shown'[x] = shown[x]
  BY <1>0, <1>1, <1>3, <1>4 DEF Records, Launched
<1>6. /\ shown'[r] \in Run /\ shown'[r].status = status /\ shown'[r].source = shown[r].source
      /\ shown'[r].heir = shown[r].heir
  BY <1>1, <1>4, <1>5 DEF Run
<1>7. shown'[r] # None
  BY <1>6, NoneAssumption
<1>8. Changed(r)
  BY <1>0, <1>1, <1>4, <1>6, <1>7 DEF Changed, Launched
<1>9. \A x \in Runs \ {r} : Same(x)
  BY <1>0, <1>1, <1>4, <1>5 DEF Same, Launched
<1>10. \A x \in Runs : exec'[x] # None => exec[x] # None /\ verdict'[x] = verdict[x]
  BY <1>0, <1>1, <1>4 DEF Launched
<1>11. dropped \subseteq dropped'
  BY <1>4 DEF Launched
<1>12. Moves({r})
  BY <1>8, <1>9, <1>10, <1>11 DEF Moves
<1>13. ASSUME exec'[r] # None PROVE Same(r)
  <2>1. Image(shown'[r]) = Image(shown[r])
    BY <1>1, <1>4, <1>5, <1>13, StatusImage DEF Launched
  <2> QED BY <1>0, <1>1, <1>4, <1>7, <1>13, <2>1, NoneAssumption DEF Same, Launched
<1> QED BY <1>9, <1>10, <1>11, <1>12, <1>13 DEF Moves

LEMMA RetryMoves ==
  ASSUME FullInv, NEW r \in Live, Retry(r)
  PROVE  Moves({r}) /\ (exec'[r] # None => Moves({}))
<1>0. r \in Runs /\ exec[r] # None /\ IInv /\ Live \subseteq Runs
  BY DEF Live, FullInv
<1>1. shown[r] \in Run /\ shown[r].status \in Active /\ exec[r].target \in 1..LastTarget(r)
  BY <1>0, LiveRecords
<1>2. shown \in [Runs -> Run \cup {None}] /\ LastTarget(r) \in Nat
  BY <1>0, SubagentAssumption DEF IInv, TypeOK, LastTarget
<1>3. CASE exec[r].target < LastTarget(r)
  <2>1. PICK k : k = exec[r].target + 1
    OBVIOUS
  <2>2. k \in Nat \ {0} /\ told' = told /\ Launch(r, shown, k)
    BY <1>1, <1>2, <1>3, <2>1 DEF Retry
  <2>3. PICK given : given = shown[r].status
    OBVIOUS
  <2>4. PICK display : display = [shown EXCEPT ![r].status = given]
    OBVIOUS
  <2>5. [shown[r] EXCEPT !.status = given] = shown[r]
    BY <1>1, <2>3 DEF Run
  <2>6. display = shown
    BY <1>0, <1>2, <2>4, <2>5
  <2> QED BY <1>1, <2>2, <2>3, <2>4, <2>6, LaunchMoves
<1>4. CASE ~(exec[r].target < LastTarget(r))
  <2>1. Finish({r}, "fail")
    BY <1>4 DEF Retry
  <2>2. exec'[r] = None
    BY <1>0, <2>1 DEF Finish, EndRuns
  <2> QED BY <1>0, <2>1, <2>2, FinishMoves
<1> QED BY <1>3, <1>4

\* A command changes a run that its provider hears in its activity only.
LEMMA CommandMoves ==
  ASSUME FullInv, NEW r \in Live, NEW given \in Active, NEW from, NEW to,
         Command(r, [shown EXCEPT ![r].status = given], from, to)
  PROVE  Moves({r}) /\ (Reachable(r) => Moves({}))
<1>0. r \in Runs /\ exec[r] # None /\ IInv
  BY DEF Live, FullInv
<1>1. /\ shown[r] \in Run /\ shown[r].status \in Active /\ exec[r].target \in 1..LastTarget(r)
      /\ shown \in [Runs -> Run \cup {None}] /\ LastTarget(r) \in Nat
  BY <1>0, LiveRecords, SubagentAssumption DEF IInv, TypeOK, LastTarget
<1>2. PICK display : display = [shown EXCEPT ![r].status = given]
  OBVIOUS
<1>3. CASE ~Reachable(r)
  <2>1. PICK k : k = exec[r].target + 1
    OBVIOUS
  <2>2. k \in Nat \ {0} /\ told' = told /\ Launch(r, display, k)
    BY <1>1, <1>2, <1>3, <2>1 DEF Command
  <2> QED BY <1>2, <1>3, <2>2, LaunchMoves
<1>4. CASE Reachable(r)
  <2>1. shown' = display /\ UNCHANGED <<exec, verdict, dropped, told>>
    BY <1>2, <1>4 DEF Command
  <2>2. shown'[r] = [shown[r] EXCEPT !.status = given]
        /\ \A x \in Runs \ {r} : shown'[x] = shown[x]
    BY <1>0, <1>1, <1>2, <2>1
  <2>3. /\ shown'[r] \in Run /\ shown'[r].source = shown[r].source
        /\ shown'[r].heir = shown[r].heir
    BY <1>1, <2>2 DEF Run
  <2>4. Image(shown'[r]) = Image(shown[r])
    BY <1>1, <2>2, StatusImage
  <2>5. shown'[r] # None /\ shown[r] # None
    BY <1>1, <2>3, NoneAssumption
  <2>6. Changed(r) /\ \A x \in Runs : Same(x)
    BY <1>0, <2>1, <2>2, <2>3, <2>4, <2>5 DEF Changed, Same
  <2> QED BY <2>1, <2>6 DEF Moves
<1> QED BY <1>3, <1>4

LEMMA PersistFiles ==
  ASSUME NEW changed \in SUBSET Runs, Persist(changed) \/ NotPersisted(changed)
  PROVE  Files(changed)
<1>1. CASE NotPersisted(changed)
  BY <1>1 DEF NotPersisted, Files
<1>2. CASE Persist(changed)
  <2> DEFINE groups == {{x} : x \in changed}
  <2>1. UNION groups = changed /\ \A kept \in SUBSET groups : UNION kept \subseteq changed
    OBVIOUS
  <2>2. PersistGroups(groups)
    BY <1>2 DEF Persist
  <2> HIDE DEF groups
  <2>3. ASSUME NEW saved \in SUBSET changed, Written(saved, changed),
               mode = "open" \/ saved = {}
        PROVE  Files(changed)
    BY <2>3 DEF Written, Files
  <2>4. CASE mode = "open" /\ Written(UNION groups, UNION groups)
    BY <2>1, <2>3, <2>4
  <2>5. ASSUME mode = "open", NEW kept \in SUBSET groups, Written(UNION kept, UNION groups)
        PROVE  Files(changed)
    BY <2>1, <2>3, <2>5
  <2>6. CASE Written({}, UNION groups)
    BY <2>1, <2>3, <2>6
  <2> QED BY <2>2, <2>4, <2>5, <2>6 DEF PersistGroups
<1> QED BY <1>1, <1>2

-----------------------------------------------------------------------------
(* Each step keeps the records.                                            *)

LEMMA EventMoves ==
  ASSUME FullInv, NEW r \in Live,
         \/ OnReady(r) \/ OnCreated(r) \/ OnItem(r) \/ OnAnswer(r) \/ OnLoss(r)
         \/ \E why \in {"end", "cut", "fail"} : OnEnd(r, why)
  PROVE  \E changed \in SUBSET Runs : Moves(changed) /\ Files(changed)
<1>0. r \in Runs /\ exec[r] # None /\ {r} \in SUBSET Runs /\ {} \in SUBSET Runs /\ {r} \subseteq Live
  BY DEF Live
<1>1. ASSUME NEW changed \in SUBSET Runs, Moves(changed),
             Persist(changed) \/ NotPersisted(changed)
      PROVE  \E c \in SUBSET Runs : Moves(c) /\ Files(c)
  BY <1>1, PersistFiles
<1>2. CASE OnReady(r)
  <2>1. CASE Retry(r) /\ NotPersisted(IF exec'[r] = None THEN {r} ELSE {})
    <3>1. Moves({r}) /\ (exec'[r] # None => Moves({}))
      BY <2>1, RetryMoves
    <3>2. CASE exec'[r] = None
      <4>1. NotPersisted({r})
        BY <2>1, <3>2
      <4> QED BY <1>0, <1>1, <3>1, <4>1
    <3>3. CASE exec'[r] # None
      <4>1. NotPersisted({})
        BY <2>1, <3>3
      <4> QED BY <1>0, <1>1, <3>1, <3>3, <4>1
    <3> QED BY <3>2, <3>3
  <2>2. CASE /\ Command(r, [shown EXCEPT ![r].status = "starting"], "ready", "asked")
             /\ IF Reachable(r) THEN NotPersisted({}) ELSE Persist({r})
    <3>1. "starting" \in Active
      BY DEF Active
    <3>2. Moves({r}) /\ (Reachable(r) => Moves({}))
      BY <2>2, <3>1, CommandMoves
    <3> QED BY <1>0, <1>1, <2>2, <3>2
  <2> QED BY <1>2, <2>1, <2>2 DEF OnReady
<1>3. CASE OnCreated(r)
  <2>1. "working" \in Active /\ Persist({r})
    BY <1>3 DEF Active, OnCreated
  <2>2. ASSUME Finish({r}, "fail") PROVE Moves({r})
    BY <1>0, <2>2, FinishMoves
  <2>3. ASSUME Command(r, [shown EXCEPT ![r].status = "working"], "session", "turn")
        PROVE  Moves({r})
    BY <2>1, <2>3, CommandMoves
  <2>4. Moves({r})
    BY <1>3, <2>2, <2>3 DEF OnCreated
  <2> QED BY <1>0, <1>1, <2>1, <2>4
<1>4. CASE OnItem(r)
  <2>1. /\ shown' = [shown EXCEPT ![r].evidence = TRUE] /\ Persist({r})
        /\ UNCHANGED <<exec, proc, waiting, verdict, told, dropped>>
    BY <1>4 DEF OnItem
  <2>2. shown[r] \in Run /\ shown \in [Runs -> Run \cup {None}]
    BY <1>0, LiveRecords DEF FullInv, IInv, TypeOK
  <2>3. /\ shown'[r] \in Run /\ shown'[r].source = shown[r].source
        /\ shown'[r].heir = shown[r].heir
        /\ \A x \in Runs \ {r} : shown'[x] = shown[x]
    BY <1>0, <2>1, <2>2 DEF Run
  <2>4. shown'[r] # None
    BY <2>3, NoneAssumption
  <2>5. Changed(r) /\ \A x \in Runs \ {r} : Same(x)
    BY <2>1, <2>3, <2>4 DEF Changed, Same
  <2>6. Moves({r})
    BY <2>1, <2>5 DEF Moves
  <2> QED BY <1>0, <1>1, <2>1, <2>6
<1>5. CASE OnAnswer(r)
  <2>1. /\ exec' = [exec EXCEPT ![r].response = TRUE] /\ NotPersisted({})
        /\ UNCHANGED <<shown, proc, waiting, verdict, told, dropped>>
    BY <1>5 DEF OnAnswer
  <2>2. exec \in [Runs -> Execution \cup {None}]
    BY DEF FullInv, IInv, TypeOK
  <2>3. \A x \in Runs : exec'[x] # None => exec[x] # None
    BY <1>0, <2>1, <2>2
  <2>4. \A x \in Runs : Same(x)
    BY <2>1 DEF Same
  <2>5. Moves({})
    BY <2>1, <2>3, <2>4 DEF Moves
  <2> QED BY <1>0, <1>1, <2>1, <2>5
<1>6. CASE OnLoss(r)
  <2>1. Persist({r}) /\ Retry(r)
    BY <1>6 DEF OnLoss
  <2>2. Moves({r})
    BY <2>1, RetryMoves
  <2> QED BY <1>0, <1>1, <2>1, <2>2
<1>7. CASE \E why \in {"end", "cut", "fail"} : OnEnd(r, why)
  <2>1. PICK why \in {"end", "cut", "fail"} : Finish({r}, why) /\ Persist({r})
    BY <1>7 DEF OnEnd
  <2>2. Moves({r})
    BY <1>0, <2>1, FinishMoves
  <2> QED BY <1>0, <1>1, <2>1, <2>2
<1> QED BY <1>2, <1>3, <1>4, <1>5, <1>6, <1>7

\* The steps that start nothing: events, interruptions, callers that give up, a
\* deletion that fails, a credential that is cleared, and the providers.
LEMMA QuietSteps ==
  ASSUME FullInv,
         \/ \E r \in Runs : Provide(r) \/ Handle(r) \/ HangUp(r)
         \/ \E ended \in SUBSET Runs : Interrupt(ended)
         \/ DeletionFails
         \/ \E released \in SUBSET Runs : CredentialCleared(released)
  PROVE  /\ mode # "down" /\ mode' = mode /\ early' = early
         /\ \E changed \in SUBSET Runs : Moves(changed) /\ Files(changed)
<1> DEFINE Goal == /\ mode # "down" /\ mode' = mode /\ early' = early
                   /\ \E changed \in SUBSET Runs : Moves(changed) /\ Files(changed)
<1>1. ASSUME UNCHANGED <<rows, mode, shown, exec, history>>, mode # "down" PROVE Goal
  <2>1. UNCHANGED <<rows, shown, exec, verdict, told, early, unwritten, dropped>>
    BY <1>1 DEF history
  <2>2. Moves({}) /\ Files({})
    BY <2>1 DEF Moves, Files, Same
  <2> QED BY <1>1, <2>1, <2>2
<1>2. ASSUME NEW r \in Runs, Provide(r) PROVE Goal
  <2>1. UNCHANGED <<rows, mode, shown, exec, history>> /\ proc[r] # None
    BY <1>2 DEF Provide, Emit
  <2>2. mode # "down"
    BY <2>1 DEF FullInv, IInv, NoneOf
  <2> QED BY <1>1, <2>1, <2>2
<1>3. ASSUME NEW r \in Runs, Handle(r) PROVE Goal
  <2>1. mode # "down" /\ mode' = mode /\ early' = early
    BY <1>3 DEF Handle
  <2>2. CASE exec[r] = None
    <3>1. UNCHANGED <<rows, shown, exec, proc, waiting, verdict, told, unwritten, dropped, budget>>
      BY <1>3, <2>2 DEF Handle, Reduces
    <3> QED BY <1>1, <2>1, <3>1 DEF history
  <2>3. CASE exec[r] # None
    <3>1. r \in Live
      BY <2>3 DEF Live
    <3>2. \/ OnReady(r) \/ OnCreated(r) \/ OnItem(r) \/ OnAnswer(r) \/ OnLoss(r)
          \/ \E why \in {"end", "cut", "fail"} : OnEnd(r, why)
      BY <1>3, <2>3 DEF Handle, Reduces
    <3> QED BY <2>1, <3>1, <3>2, EventMoves
  <2> QED BY <2>2, <2>3
<1>4. ASSUME NEW r \in Runs, HangUp(r) PROVE Goal
  <2>1. /\ mode # "down" /\ mode' = mode /\ early' = early /\ dropped' = dropped
        /\ waiting[r] # None /\ told' = [told EXCEPT ![r] = "error"]
    BY <1>4 DEF HangUp
  <2>2. told \in [Runs -> {"result", "error", None}]
    BY DEF FullInv, IInv, TypeOK
  <2>3. CASE exec[r] = None
    <3>1. UNCHANGED <<rows, shown, exec, verdict, unwritten>>
      BY <1>4, <2>3 DEF HangUp
    <3>2. r \in early \cup dropped
      BY <2>1, <2>3 DEF FullInv, CallersAreAnswered, Live
    <3>3. Moves({}) /\ Files({})
      BY <2>1, <2>2, <3>1, <3>2 DEF Moves, Files, Same
    <3> QED BY <2>1, <3>3
  <2>4. CASE exec[r] # None
    <3>1. EndRuns({r}, "cut") /\ Persist({r}) /\ {r} \subseteq Live /\ {r} \in SUBSET Runs
      BY <1>4, <2>4 DEF HangUp, Live
    <3>2. shown'[r] = [shown[r] EXCEPT !.status = "interrupted"]
      BY <3>1 DEF EndRuns, VerdictOf
    <3>3. shown[r] \in Run
      BY <2>4, LiveRecords DEF FullInv
    <3>4. shown'[r].status \notin Success
      BY <3>2, <3>3 DEF Run, Success
    <3>5. Moves({r})
      BY <2>1, <2>2, <3>1, <3>4, EndMoves
    <3> QED BY <2>1, <3>1, <3>5, PersistFiles
  <2> QED BY <2>3, <2>4
<1>5. ASSUME NEW ended \in SUBSET Runs, Interrupt(ended) PROVE Goal
  <2>1. /\ mode # "down" /\ mode' = mode /\ early' = early /\ ended \subseteq Live
        /\ Finish(ended, "cut") /\ Persist(ended)
    BY <1>5 DEF Interrupt
  <2> QED BY <2>1, FinishMoves, PersistFiles
<1>6. CASE DeletionFails
  <2>1. /\ mode # "down" /\ mode' = mode /\ early' = early /\ dropped' = dropped
        /\ EndRuns(Live, "cut") /\ rows' = rows /\ unwritten' = unwritten \cup Live
        /\ told' = [x \in Runs |-> IF waiting[x] = None THEN told[x] ELSE "error"]
    BY <1>6 DEF DeletionFails
  <2>2. PICK ended : ended = Live
    OBVIOUS
  <2>3. ended \in SUBSET Runs /\ ended \subseteq Live /\ EndRuns(ended, "cut")
    BY <2>1, <2>2 DEF Live
  <2>4. \A x \in Runs \ ended : told'[x] = told[x] \/ x \in early \cup dropped
    BY <2>1, <2>2 DEF FullInv, CallersAreAnswered
  <2>5. ASSUME NEW x \in ended
        PROVE  \/ told'[x] = told[x]
               \/ told'[x] = "result" <=> shown'[x].status \in Success
    <3>1. shown[x] \in Run /\ x \in Runs
      BY <2>3, LiveRecords DEF FullInv, Live
    <3>2. shown'[x] = [shown[x] EXCEPT !.status = "interrupted"]
      BY <2>3 DEF EndRuns, VerdictOf
    <3>3. shown'[x].status \notin Success
      BY <3>1, <3>2 DEF Run, Success
    <3>4. told'[x] = told[x] \/ told'[x] = "error"
      BY <2>1, <3>1
    <3> QED BY <3>3, <3>4
  <2>6. Moves(ended)
    BY <2>1, <2>3, <2>4, <2>5, EndMoves
  <2>7. Files(ended)
    BY <2>1, <2>2 DEF Files
  <2> QED BY <2>1, <2>3, <2>6, <2>7
<1>7. ASSUME NEW released \in SUBSET Runs, CredentialCleared(released) PROVE Goal
  BY <1>1, <1>7 DEF CredentialCleared
<1> QED BY <1>2, <1>3, <1>4, <1>5, <1>6, <1>7

\* The records replace what is shown: a run found active becomes an interrupted one.
LEMMA LoadKeeps ==
  ASSUME FullInv, TypeOK', Open \/ Resumed
  PROVE  RecordInv'
<1>1. /\ LoadSubagents /\ UNCHANGED <<told, early, unwritten, dropped>>
  BY DEF Open, Resumed
<1>2. /\ shown' = [x \in Runs |-> Restored(x)] /\ exec' = NoneOf
      /\ verdict' = [x \in Runs |-> IF verdict[x] = None /\ Restored(x) # None
                                    THEN Restored(x).status ELSE verdict[x]]
      /\ \E saved : rows' = [x \in Runs |-> IF x \in saved THEN Restored(x) ELSE rows[x]]
  BY <1>1 DEF LoadSubagents
<1>3. \A x \in Runs : rows[x] \in Run \cup {None}
  BY DEF FullInv, IInv, TypeOK
<1>4. \A x \in Runs : Restored(x) = IF rows[x] = None THEN None ELSE Image(rows[x])
  BY DEF Restored, Image
<1>5. \A x \in Runs : rows'[x] = rows[x] \/ rows'[x] = Restored(x)
  BY <1>2
<1>6. ASSUME NEW x \in Runs
      PROVE  /\ rows'[x] # None <=> rows[x] # None
             /\ shown'[x] # None <=> rows[x] # None
             /\ rows[x] # None => /\ Image(rows'[x]) = Image(rows[x])
                                  /\ shown'[x] = Image(rows[x])
                                  /\ rows'[x].source = rows[x].source
                                  /\ rows'[x].heir = rows[x].heir
                                  /\ shown'[x].source = rows[x].source
                                  /\ shown'[x].heir = rows[x].heir
  <2>1. CASE rows[x] = None
    BY <1>2, <1>4, <1>5, <2>1
  <2>2. CASE rows[x] # None
    <3>1. rows[x] \in Run /\ Restored(x) = Image(rows[x]) /\ shown'[x] = Image(rows[x])
      BY <1>2, <1>3, <1>4, <2>2
    <3>2. Image(rows[x]) # None
      BY <3>1, ImageFacts, NoneAssumption
    <3> QED BY <1>5, <2>2, <3>1, <3>2, ImageFacts
  <2> QED BY <2>1, <2>2
<1>7. ASSUME NEW x \in Runs \ unwritten' PROVE RunInv(x)'
  <2>1. RunInv(x) /\ x \in Runs
    BY <1>1 DEF FullInv, RecordInv
  <2>2. shown'[x] # None => rows'[x] # None /\ Image(rows'[x]) = Image(shown'[x])
    BY <1>3, <1>6, ImageFacts
  <2>3. verdict'[x] # None => rows'[x] # None /\ Image(rows'[x]).status = verdict'[x]
    BY <1>2, <1>4, <1>6, <2>1 DEF RunInv
  <2>4. told[x] # None /\ x \notin dropped => verdict'[x] = verdict[x]
    BY <1>2, <2>1 DEF RunInv
  <2> QED BY <1>1, <1>6, <2>1, <2>2, <2>3, <2>4 DEF RunInv
<1>8. \A x \in Runs : exec'[x] = None
  BY <1>2 DEF NoneOf
<1>9. ASSUME NEW x \in Runs PROVE LinkedIn(rows, x)' /\ LinkedIn(shown, x)'
  <2>1. LinkedIn(rows, x) /\ (rows[x] # None => rows[x].source \in Runs \cup {None})
    BY <1>3 DEF FullInv, RecordInv, Run
  <2> QED BY <1>1, <1>6, <2>1 DEF LinkedIn
<1> QED BY <1>1, <1>7, <1>8, <1>9 DEF FullInv, RecordInv

LEMMA CrashKeeps ==
  ASSUME FullInv, Crash
  PROVE  RecordInv'
<1>1. /\ mode' = "down" /\ shown' = NoneOf /\ exec' = NoneOf
      /\ UNCHANGED <<rows, verdict, told, early, unwritten, dropped>>
  BY DEF Crash, history
<1>2. \A x \in Runs : shown'[x] = None /\ exec'[x] = None
  BY <1>1 DEF NoneOf
<1>3. \A x \in Runs : LinkedIn(rows, x)' /\ LinkedIn(shown, x)'
  BY <1>1, <1>2 DEF FullInv, RecordInv, LinkedIn
<1>4. \A x \in Runs \ unwritten' : RunInv(x)'
  BY <1>1, <1>2 DEF FullInv, RecordInv, RunInv
<1> QED BY <1>1, <1>2, <1>3, <1>4 DEF FullInv, RecordInv

\* Records of one group reach the disk together or not at all.
LEMMA GroupFiles ==
  ASSUME NEW group \in SUBSET Runs, PersistGroups({group})
  PROVE  /\ unwritten \subseteq unwritten'
         /\ \A x \in Runs \ group : rows'[x] = rows[x]
         /\ \/ mode = "open" /\ \A x \in group : rows'[x] = shown'[x]
            \/ group \subseteq unwritten' /\ \A x \in Runs : rows'[x] = rows[x]
<1>1. UNION {group} = group /\ \A kept \in SUBSET {group} : kept # {group} => UNION kept = {}
  OBVIOUS
<1>2. \/ mode = "open" /\ Written(group, group)
      \/ Written({}, group)
  BY <1>1 DEF PersistGroups
<1> QED BY <1>2 DEF Written

\* A new run r, of a source s or of none, enters the records.
Starts(r, s) ==
  /\ Unused(r) /\ (s # None => s # r /\ Continuable(s))
  /\ \A x \in Runs \ {r, s} : shown'[x] = shown[x] /\ rows'[x] = rows[x]
  /\ s # None => shown'[s] = [shown[s] EXCEPT !.heir = r]
  /\ shown'[r] # None /\ shown'[r].source = s
  /\ told' = told /\ dropped \subseteq dropped' /\ unwritten \subseteq unwritten'
  /\ \A x \in Runs \ {r} : exec'[x] = exec[x] /\ verdict'[x] = verdict[x]
  /\ \/ verdict'[r] = verdict[r]
     \/ exec'[r] = None /\ verdict'[r] = shown'[r].status /\ r \in dropped'
  /\ \/ \A x \in {r, s} \ {None} : rows'[x] = shown'[x]
     \/ {r, s} \ {None} \subseteq unwritten' /\ \A x \in Runs : rows'[x] = rows[x]

LEMMA StartKeeps ==
  ASSUME FullInv, TypeOK', NEW r \in Runs, NEW s \in Runs \cup {None}, Starts(r, s),
         mode # "down", mode' = mode, early' \subseteq unwritten'
  PROVE  RecordInv'
<1>0. /\ \A x \in Runs : /\ rows[x] \in Run \cup {None} /\ shown[x] \in Run \cup {None}
                         /\ rows'[x] \in Run \cup {None} /\ shown'[x] \in Run \cup {None}
                         /\ verdict'[x] \in Terminal \cup {None}
      /\ None \notin Runs /\ None \notin Run /\ None \notin Terminal
  BY SubagentAssumption, NoneAssumption DEF FullInv, IInv, TypeOK
<1>1. rows[r] = None /\ shown[r] = None /\ r \notin unwritten
  BY DEF Starts, Unused
<1>2. verdict[r] = None /\ (r \notin dropped => told[r] = None)
  BY <1>1 DEF FullInv, RecordInv, RunInv
<1>3. ASSUME s # None
      PROVE  /\ shown[s] \in Run /\ shown[s].status \in Terminal /\ shown[s].heir = None
             /\ shown'[s] \in Run /\ shown'[s].status = shown[s].status
             /\ shown'[s].source = shown[s].source /\ shown'[s].heir = r
  <2>1. /\ shown[s] # None /\ shown[s].heir = None
        /\ shown[s].status \in {"partial", "failed", "interrupted"}
        /\ shown'[s] = [shown[s] EXCEPT !.heir = r]
    BY <1>3 DEF Starts, Continuable
  <2> QED BY <1>0, <1>3, <2>1 DEF Run, Terminal
<1>4. ASSUME NEW x \in Runs \ unwritten' PROVE RunInv(x)'
  <2>0. RunInv(x) /\ x \notin unwritten
    BY DEF FullInv, RecordInv, Starts
  <2>1. CASE x \notin {r, s}
    BY <2>0, <2>1 DEF RunInv, Starts
  <2>2. CASE x = r
    <3>1. rows'[r] = shown'[r] /\ shown'[r] \in Run /\ told'[r] = told[r]
      BY <1>0, <2>2 DEF Starts
    <3>2. verdict'[r] # None => /\ shown'[r].status = verdict'[r] /\ r \in dropped'
                                /\ verdict'[r] \in Terminal
      BY <1>0, <1>2 DEF Starts
    <3>3. r \notin dropped' => told'[r] = None
      BY <1>2, <3>1 DEF Starts
    <3>4. verdict'[r] # None => Image(rows'[r]).status = verdict'[r]
      BY <3>1, <3>2, ImageFacts
    <3> QED BY <1>0, <2>2, <3>1, <3>3, <3>4 DEF RunInv
  <2>3. CASE x = s
    <3>1. s # None /\ s # r
      BY <1>0, <2>3 DEF Starts
    <3>2. /\ rows'[s] = shown'[s] /\ told'[s] = told[s] /\ verdict'[s] = verdict[s]
          /\ dropped \subseteq dropped'
      BY <2>3, <3>1 DEF Starts
    <3>3. Image(shown'[s]) = shown'[s] /\ Image(shown[s]) = shown[s]
      BY <1>3, <3>1, ImageFacts
    <3>4. shown[s] # None /\ shown'[s] # None
      BY <1>0, <1>3, <3>1
    <3> QED BY <1>3, <2>0, <2>3, <3>1, <3>2, <3>3, <3>4 DEF RunInv
  <2> QED BY <2>1, <2>2, <2>3
<1>5. ASSUME NEW x \in Runs, exec'[x] # None PROVE verdict'[x] = None
  BY <1>2, <1>5 DEF Starts, FullInv, RecordInv
<1>6. ASSUME NEW t \in Runs, NEW x \in Runs, ~({t, x} \subseteq unwritten'), x # r,
             \/ rows'[x] # None /\ rows'[x].source = t
             \/ shown'[x] # None /\ shown'[x].source = t
      PROVE  /\ rows'[t] # None /\ rows'[t].heir = x
             /\ shown'[t] # None /\ shown'[t].heir = x
  <2>0. x = s => s # None
    BY <1>0, <1>6
  <2>1. \/ rows[x] # None /\ rows[x].source = t
        \/ shown[x] # None /\ shown[x].source = t
    <3>1. CASE x = s
      <4>1. shown[s] # None /\ shown'[s] # None /\ shown'[s].source = shown[s].source
        BY <1>0, <1>3, <2>0, <3>1
      <4>2. rows'[s] = shown'[s] \/ rows'[s] = rows[s]
        BY <2>0, <3>1 DEF Starts
      <4> QED BY <1>6, <3>1, <4>1, <4>2
    <3>2. CASE x # s
      BY <1>6, <3>2 DEF Starts
    <3> QED BY <3>1, <3>2
  <2>2. ~({t, x} \subseteq unwritten)
    BY <1>6 DEF Starts
  <2>3. /\ rows[t] # None /\ rows[t].heir = x
        /\ shown[t] # None /\ shown[t].heir = x
    BY <2>1, <2>2, Linked
  <2>4. t # r /\ t # s
    BY <1>0, <1>1, <1>3, <2>3
  <2> QED BY <2>3, <2>4 DEF Starts
<1>7. ASSUME NEW x \in Runs PROVE LinkedIn(rows, x)' /\ LinkedIn(shown, x)'
  <2>1. /\ rows'[x] # None => rows'[x].source \in Runs \cup {None}
        /\ shown'[x] # None => shown'[x].source \in Runs \cup {None}
    BY <1>0 DEF Run
  <2>2. CASE x # r
    BY <1>6, <2>1, <2>2 DEF LinkedIn
  <2>3. CASE x = r
    <3>1. shown'[r] # None /\ shown'[r].source = s
      BY DEF Starts
    <3>2. rows'[r] = shown'[r] \/ rows'[r] = None
      BY <1>0, <1>1 DEF Starts
    <3>3. CASE s = None
      BY <2>3, <3>1, <3>2, <3>3 DEF LinkedIn
    <3>4. CASE s # None
      <4>1. shown'[s] # None /\ shown'[s].heir = r
        BY <1>0, <1>3, <3>4
      <4>2. rows'[s] = shown'[s] \/ {s, r} \subseteq unwritten'
        BY <1>0, <3>4 DEF Starts
      <4> QED BY <2>3, <3>1, <3>2, <4>1, <4>2 DEF LinkedIn
    <3> QED BY <3>3, <3>4
  <2> QED BY <2>2, <2>3
<1> QED BY <1>4, <1>5, <1>7 DEF RecordInv

LEMMA DelegateKeeps ==
  ASSUME FullInv, TypeOK', NEW r \in Runs, NEW p \in Runs \cup {None},
         NEW native \in BOOLEAN, Delegate(r, p, native)
  PROVE  RecordInv'
<1>1. PICK new : new = NewRun(p, DepthUnder(p, AgentOf[r]), None, 0)
  OBVIOUS
<1>2. PICK display : display = [shown EXCEPT ![r] = new]
  OBVIOUS
<1>3. /\ mode # "down" /\ mode' = mode /\ told' = told /\ Unused(r) /\ MayDelegate(p)
      /\ Launch(r, display, 1) /\ Persist({r})
      /\ early' = IF mode = "resuming" THEN early \cup {r} ELSE early
  BY <1>1, <1>2 DEF Delegate
<1>4. IInv /\ shown \in [Runs -> Run \cup {None}]
  BY DEF FullInv, IInv, TypeOK
<1>5. new \in Run /\ new.source = None
  <2>1. AgentOf[r] \in Agents /\ MaxDepth \in [Agents -> Nat]
    BY SubagentAssumption
  <2>2. ASSUME p # None PROVE shown[p] \in Run /\ shown[p].depth > 0
    BY <1>3, <1>4, <2>2, LiveRecords DEF MayDelegate
  <2>3. DepthUnder(p, AgentOf[r]) \in Nat
    BY <2>1, <2>2 DEF DepthUnder, Run
  <2> QED BY <1>1, <2>3 DEF NewRun, Run, Active
<1>6. /\ display \in Records /\ display[r] = new /\ display[r] \in Run
      /\ \A x \in Runs \ {r} : display[x] = shown[x]
  BY <1>2, <1>4, <1>5 DEF Records
<1>7. PICK status \in Active \cup Terminal : Launched(r, display, status)
  <2>1. 1 \in Nat \ {0}
    OBVIOUS
  <2> QED BY <1>3, <1>4, <1>6, <2>1, LaunchShape
<1>8. /\ shown'[r] = [new EXCEPT !.status = status]
      /\ \A x \in Runs \ {r} : shown'[x] = shown[x] /\ exec'[x] = exec[x]
  BY <1>6, <1>7 DEF Launched, Records
<1>9. shown'[r] \in Run /\ shown'[r].status = status /\ shown'[r].source = None
  BY <1>5, <1>7, <1>8 DEF Run
<1>10. /\ \A x \in Runs \ {r} : verdict'[x] = verdict[x]
       /\ \/ verdict'[r] = verdict[r]
          \/ exec'[r] = None /\ verdict'[r] = shown'[r].status /\ r \in dropped'
       /\ dropped \subseteq dropped'
  BY <1>4, <1>7, <1>9 DEF Launched, IInv, TypeOK
<1>11. PersistGroups({{r}})
  <2>1. {{x} : x \in {r}} = {{r}}
    OBVIOUS
  <2> QED BY <1>3, <2>1 DEF Persist
<1>12. /\ unwritten \subseteq unwritten'
       /\ \A x \in Runs \ {r} : rows'[x] = rows[x]
       /\ \/ mode = "open" /\ \A x \in {r} : rows'[x] = shown'[x]
          \/ {r} \subseteq unwritten' /\ \A x \in Runs : rows'[x] = rows[x]
  BY <1>11, GroupFiles
<1>13. shown'[r] # None
  BY <1>9, NoneAssumption
<1>14. Starts(r, None)
  BY <1>3, <1>8, <1>9, <1>10, <1>12, <1>13 DEF Starts
<1>15. early' \subseteq unwritten'
  BY <1>3, <1>12 DEF FullInv, RecordInv
<1> QED BY <1>3, <1>14, <1>15, StartKeeps

LEMMA ContinueKeeps ==
  ASSUME FullInv, TypeOK', NEW s \in Runs, NEW r \in Runs, Continue(s, r)
  PROVE  RecordInv'
<1>1. PICK new : new = NewRun(shown[s].parent, shown[s].depth, s, shown[s].level + 1)
  OBVIOUS
<1>2. PICK display : display = [shown EXCEPT ![s].heir = r, ![r] = new]
  OBVIOUS
<1>3. /\ mode = "open" /\ mode' = mode /\ told' = told /\ early' = early
      /\ Unused(r) /\ Continuable(s) /\ Launch(r, display, 1) /\ PersistGroups({{s, r}})
  BY <1>1, <1>2 DEF Continue, PersistTogether
<1>4. /\ IInv /\ shown \in [Runs -> Run \cup {None}] /\ s # r /\ shown[s] \in Run /\ s # None
      /\ verdict \in [Runs -> Terminal \cup {None}]
  BY <1>3, SubagentAssumption DEF FullInv, IInv, TypeOK, Unused, Continuable
<1>5. new \in Run /\ new.source = s
  BY <1>1, <1>4 DEF NewRun, Run, Active
<1>6. [shown[s] EXCEPT !.heir = r] \in Run
  BY <1>4 DEF Run
<1>7. /\ display \in Records /\ display[r] = new /\ display[r] \in Run
      /\ display[s] = [shown[s] EXCEPT !.heir = r]
      /\ \A x \in Runs \ {s, r} : display[x] = shown[x]
  BY <1>2, <1>4, <1>5, <1>6 DEF Records
<1>8. PICK status \in Active \cup Terminal : Launched(r, display, status)
  <2>1. 1 \in Nat \ {0}
    OBVIOUS
  <2> QED BY <1>3, <1>4, <1>7, <2>1, LaunchShape
<1>9. /\ shown'[r] = [new EXCEPT !.status = status]
      /\ shown'[s] = [shown[s] EXCEPT !.heir = r]
      /\ \A x \in Runs \ {r, s} : shown'[x] = shown[x]
      /\ \A x \in Runs \ {r} : exec'[x] = exec[x]
  BY <1>4, <1>7, <1>8 DEF Launched, Records
<1>10. shown'[r] \in Run /\ shown'[r].status = status /\ shown'[r].source = s
  BY <1>5, <1>8, <1>9 DEF Run
<1>11. /\ \A x \in Runs \ {r} : verdict'[x] = verdict[x]
       /\ \/ verdict'[r] = verdict[r]
          \/ exec'[r] = None /\ verdict'[r] = shown'[r].status /\ r \in dropped'
       /\ dropped \subseteq dropped'
  BY <1>4, <1>8, <1>10 DEF Launched
<1>12. /\ unwritten \subseteq unwritten'
       /\ \A x \in Runs \ {s, r} : rows'[x] = rows[x]
       /\ \/ mode = "open" /\ \A x \in {s, r} : rows'[x] = shown'[x]
          \/ {s, r} \subseteq unwritten' /\ \A x \in Runs : rows'[x] = rows[x]
  <2>1. {s, r} \in SUBSET Runs
    OBVIOUS
  <2> QED BY <1>3, <2>1, GroupFiles
<1>13. shown'[r] # None /\ {r, s} \ {None} = {s, r}
  BY <1>4, <1>10, NoneAssumption, SubagentAssumption
<1>14. Starts(r, s)
  BY <1>3, <1>4, <1>9, <1>10, <1>11, <1>12, <1>13 DEF Starts
<1>15. early' \subseteq unwritten' /\ mode # "down"
  BY <1>3, <1>12 DEF FullInv, RecordInv
<1> QED BY <1>3, <1>14, <1>15, StartKeeps

\* The records hold in every state of every behaviour.
LEMMA RecordStep ==
  ASSUME FullInv, [Next]_vars
  PROVE  FullInv'
<1>1. IInv' /\ CallersAreAnswered' /\ TypeOK'
  BY NextPreserves DEF FullInv, Preserved, IInv
<1>2. ASSUME NEW r \in Runs, NEW p \in Runs \cup {None}, NEW native \in BOOLEAN,
             Delegate(r, p, native)
      PROVE  RecordInv'
  BY <1>1, <1>2, DelegateKeeps
<1>3. ASSUME NEW s \in Runs, NEW r \in Runs, Continue(s, r) PROVE RecordInv'
  BY <1>1, <1>3, ContinueKeeps
<1>4. ASSUME \/ \E r \in Runs : Provide(r) \/ Handle(r) \/ HangUp(r)
             \/ \E ended \in SUBSET Runs : Interrupt(ended)
             \/ DeletionFails
             \/ \E released \in SUBSET Runs : CredentialCleared(released)
      PROVE  RecordInv'
  <2>1. /\ mode # "down" /\ mode' = mode /\ early' = early
        /\ \E changed \in SUBSET Runs : Moves(changed) /\ Files(changed)
    BY <1>4, QuietSteps
  <2> QED BY <1>1, <2>1, MovesKeep
<1>5. ASSUME Crash PROVE RecordInv'
  BY <1>5, CrashKeeps
<1>6. ASSUME Open \/ Resumed PROVE RecordInv'
  BY <1>1, <1>6, LoadKeeps
<1>7. ASSUME UNCHANGED vars PROVE RecordInv'
  <2>1. UNCHANGED <<rows, mode, shown, exec, verdict, told, early, unwritten, dropped>>
    BY <1>7 DEF vars, history
  <2> QED BY <2>1 DEF FullInv, RecordInv, RunInv, LinkedIn
<1>8. RecordInv'
  BY <1>2, <1>3, <1>4, <1>5, <1>6, <1>7 DEF Next
<1> QED BY <1>1, <1>8 DEF FullInv

LEMMA RecordsAlways == Spec => []FullInv
<1>1. Init => RecordInv
  BY DEF Init, NoneOf, RecordInv, RunInv, LinkedIn
<1>2. Init => FullInv
  BY <1>1, InitEstablishes DEF FullInv
<1> QED BY <1>2, RecordStep, PTL DEF Spec

\* What is shown of a run with a verdict is no longer active.
LEMMA EndedIsShown ==
  ASSUME FullInv, NEW r \in Runs \ unwritten, verdict[r] # None, shown[r] # None
  PROVE  shown[r].status = verdict[r]
<1>1. RunInv(r) /\ exec[r] = None /\ r \in Runs
  BY DEF FullInv, RecordInv
<1>2. shown[r] \in Run /\ shown[r].status \notin Active
  BY <1>1 DEF FullInv, IInv, TypeOK, Occupied, Live
<1>3. Image(shown[r]) = shown[r] /\ Image(shown[r]).status = verdict[r]
  BY <1>1, <1>2 DEF RunInv, Image
<1> QED BY <1>3

\* VerdictStands: late events, cancellations that race the end of a run and restarts
\* leave its verdict (finish_subagent), unless a change of it missed the disk.
THEOREM VerdictStandsAlways == Spec => []VerdictStands
<1>1. FullInv => VerdictStands
  BY EndedIsShown DEF VerdictStands
<1> QED BY <1>1, RecordsAlways, PTL

\* AnswerMatchesRun: a caller was told what the session shows of the run in this
\* process and after a restart (complete_native_delegations), unless a record missed
\* the disk or nobody answered.
THEOREM AnswerMatchesAlways == Spec => []AnswerMatchesRun
<1>1. FullInv => AnswerMatchesRun
  <2> SUFFICES ASSUME FullInv, NEW r \in Runs \ (unwritten \cup dropped),
                      told[r] # None, shown[r] # None
               PROVE  told[r] = "result" <=> shown[r].status \in Success
    BY DEF AnswerMatchesRun
  <2>1. verdict[r] # None /\ (told[r] = "result" <=> verdict[r] \in Success)
    BY DEF FullInv, RecordInv, RunInv
  <2>2. shown[r].status = verdict[r]
    BY <2>1, EndedIsShown
  <2> QED BY <2>1, <2>2
<1> QED BY <1>1, RecordsAlways, PTL

\* OneSuccessor: the successor a run shows is the one it was continued by, across
\* failed writes, restarts and attempts to continue it again, unless the transaction
\* that linked the two failed.
THEOREM OneSuccessorAlways == Spec => []OneSuccessor
<1>1. FullInv => OneSuccessor
  BY DEF FullInv, RecordInv, LinkedIn, OneSuccessor
<1> QED BY <1>1, RecordsAlways, PTL

=============================================================================
