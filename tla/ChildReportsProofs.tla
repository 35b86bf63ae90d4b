------------------------- MODULE ChildReportsProofs -------------------------
(***************************************************************************)
(* What holds of links and child evidence for any set of sessions, reports *)
(* and callers.                                                            *)
(***************************************************************************)
EXTENDS ChildReports, FiniteSetTheorems, TLAPS

-----------------------------------------------------------------------------
(* Types. *)

\* A relink writes one parent, counts one revision, and marks the calls that
\* read the child before.
LEMMA RelinkSets ==
  ASSUME TypeOK, NEW c \in Sessions, NEW p \in Sessions, Relink(c, p)
  PROVE  /\ c \notin held
         /\ parent' \in [Sessions -> Sessions \cup {None}]
         /\ revision' \in [Sessions -> Nat] /\ touched' \subseteq Calls
         /\ parent'[c] = p /\ revision'[c] = revision[c] + 1
         /\ \A s \in Sessions \ {c} : parent'[s] = parent[s] /\ revision'[s] = revision[s]
         /\ touched' = touched \cup {k \in Calls : k.child = c}
BY DEF TypeOK, Relink

\* Every step keeps every table in its type.
LEMMA TypeStep == TypeOK /\ [Next]_vars => TypeOK'
<1> USE RelationshipAssumption
<1> SUFFICES ASSUME TypeOK, [Next]_vars PROVE TypeOK' OBVIOUS
<1>1. ASSUME NEW p \in Sessions, NEW c \in Sessions, LinkChildSession(p, c) PROVE TypeOK'
  BY <1>1, RelinkSets DEF LinkChildSession, TypeOK, mail
<1>2. ASSUME NEW k \in Calls, ReadRelationship(k) PROVE TypeOK'
  BY <1>2 DEF ReadRelationship, TypeOK, mail, Intents
<1>3. ASSUME NEW k \in Calls, Reparent(k) PROVE TypeOK'
  BY <1>3, RelinkSets DEF Reparent, TypeOK, mail
<1>4. ASSUME NEW m \in Relays, NEW s \in Sessions, NEW t \in Sessions,
             RelayAgentFollowup(m, s, t)
      PROVE TypeOK'
  <2>1. /\ parent' \in [Sessions -> Sessions \cup {None}]
        /\ revision' \in [Sessions -> Nat] /\ touched' \subseteq Calls
    <3>1. CASE Relink(t, s)
      BY <3>1, RelinkSets
    <3>2. CASE UNCHANGED links
      BY <3>2 DEF TypeOK, links
    <3> QED BY <1>4, <3>1, <3>2 DEF RelayAgentFollowup, Adopt
  <2>2. kind' \in [Mail -> Kinds \cup {None}]
    BY <1>4 DEF RelayAgentFollowup, TypeOK, Mail, Kinds
  <2>3. /\ origin' \in [Mail -> Sessions \cup {None}] /\ inbox' \in [Mail -> Sessions \cup {None}]
        /\ fate' \in [Mail -> Fates]
    BY <1>4 DEF RelayAgentFollowup, TypeOK, Mail, Fates
  <2> QED BY <1>4, <2>1, <2>2, <2>3 DEF RelayAgentFollowup, TypeOK
<1>5. ASSUME NEW r \in Reports, NEW c \in Sessions, PublishChildReport(r, c) PROVE TypeOK'
  BY <1>5 DEF PublishChildReport, TypeOK, links, Mail, Kinds
<1>6. CASE AdmitChildEvents
  <2>1. PICK page \in SUBSET {r \in rows : parent[origin[r]] # None} :
          /\ inbox' = [m \in Mail |-> IF m \in page THEN parent[origin[m]] ELSE inbox[m]]
          /\ fate' = [m \in Mail |-> IF m \in page THEN "pending" ELSE fate[m]]
    BY <1>6 DEF AdmitChildEvents
  <2>2. \A m \in page : parent[origin[m]] \in Sessions
    BY DEF TypeOK, Mail
  <2> QED BY <1>6, <2>1, <2>2 DEF AdmitChildEvents, TypeOK, links, Fates
<1>7. ASSUME NEW m \in Mail, RemoveFollowup(m) PROVE TypeOK'
  BY <1>7 DEF RemoveFollowup, TypeOK, links, Fates
<1>8. ASSUME NEW s \in Sessions, Deliver(s) PROVE TypeOK'
  <2>1. fate' \in [Mail -> Fates] /\ wakes' \in [Reports -> Nat]
    BY <1>8 DEF Deliver, Sent, TypeOK, Fates
  <2> QED BY <1>8, <2>1 DEF Deliver, TypeOK, links
<1>9. ASSUME NEW s \in Sessions, ClaimOnly(s) PROVE TypeOK'
  BY <1>9 DEF ClaimOnly, Sent, TypeOK, links, Fates
<1>10. ASSUME NEW s \in Sessions, Acknowledge(s) PROVE TypeOK'
  BY <1>10 DEF Acknowledge, Sent, TypeOK, links, Fates
<1>11. ASSUME NEW s \in Sessions, CloseSession(s) \/ ReopenSession(s) PROVE TypeOK'
  BY <1>11 DEF CloseSession, ReopenSession, Open, TypeOK, links, mail
<1>12. ASSUME NEW s \in Sessions, HoldChildDeletion(s) \/ HoldEnds(s) PROVE TypeOK'
  BY <1>12 DEF HoldChildDeletion, HoldEnds, TypeOK, links, mail
<1>13. ASSUME NEW s \in Sessions, DeleteSession(s) PROVE TypeOK'
  BY <1>13 DEF DeleteSession, TypeOK, Fates
<1>14. CASE UNCHANGED vars
  BY <1>14 DEF vars, links, mail, TypeOK
<1> QED BY <1>1, <1>2, <1>3, <1>4, <1>5, <1>6, <1>7, <1>8, <1>9, <1>10, <1>11, <1>12, <1>13,
           <1>14 DEF Next, Link, Report, Lifecycle

\* TypeOK: the tables hold rows of their kind.
THEOREM TypeCorrect == Spec => []TypeOK
<1>1. Init => TypeOK
  BY RelationshipAssumption DEF Init, TypeOK, Fates
<1> QED BY <1>1, TypeStep, PTL DEF Spec

-----------------------------------------------------------------------------
(* Links. *)

\* What every path that relinks has checked: link, claim, transfer, adoption.
Relinked(c, p) ==
  /\ Relink(c, p) /\ p # c /\ Open(c) /\ Open(p) /\ ~Nested(p, c) /\ ~Full(p)
  /\ parent[c] = None \/ UnsettledFor(c) = {} \/ p \in Chats
  /\ UNCHANGED <<exists, held>>

\* A step relinks one child, deletes one session, or leaves all links alone.
LEMMA LinkSteps ==
  ASSUME TypeOK, [Next]_vars
  PROVE  \/ \E c, p \in Sessions : Relinked(c, p)
         \/ \E s \in Sessions : DeleteSession(s)
         \/ UNCHANGED <<exists, parent, revision>>
<1>1. ASSUME NEW p \in Sessions, NEW c \in Sessions, LinkChildSession(p, c)
      PROVE Relinked(c, p)
  BY <1>1 DEF LinkChildSession, Relinked
<1>2. ASSUME NEW k \in Calls, Reparent(k) PROVE Relinked(k.child, k.to)
  BY <1>2, RelationshipAssumption DEF Reparent, Relinked
<1>3. ASSUME NEW m \in Relays, NEW s \in Sessions, NEW t \in Sessions,
             RelayAgentFollowup(m, s, t)
      PROVE Relinked(t, s) \/ UNCHANGED <<exists, parent, revision>>
  BY <1>3 DEF RelayAgentFollowup, Adopt, Adoptable, Relinked, links
<1>4. ASSUME NEW k \in Calls, ReadRelationship(k) PROVE UNCHANGED <<exists, parent, revision>>
  BY <1>4 DEF ReadRelationship
<1>5. ASSUME NEW r \in Reports, NEW c \in Sessions, PublishChildReport(r, c)
      PROVE UNCHANGED <<exists, parent, revision>>
  BY <1>5 DEF PublishChildReport, links
<1>6. ASSUME AdmitChildEvents \/ \E m \in Mail : RemoveFollowup(m)
      PROVE UNCHANGED <<exists, parent, revision>>
  BY <1>6 DEF AdmitChildEvents, RemoveFollowup, links
<1>7. ASSUME NEW s \in Sessions, Deliver(s) \/ ClaimOnly(s) \/ Acknowledge(s)
      PROVE UNCHANGED <<exists, parent, revision>>
  BY <1>7 DEF Deliver, ClaimOnly, Acknowledge, links
<1>8. ASSUME NEW s \in Sessions,
             CloseSession(s) \/ ReopenSession(s) \/ HoldChildDeletion(s) \/ HoldEnds(s)
      PROVE UNCHANGED <<exists, parent, revision>>
  BY <1>8 DEF CloseSession, ReopenSession, HoldChildDeletion, HoldEnds, links
<1>9. CASE UNCHANGED vars
  BY <1>9 DEF vars, links
<1>10. \A k \in Calls : k.child \in Sessions /\ k.to \in Sessions
  BY RelationshipAssumption
<1> QED BY <1>1, <1>2, <1>3, <1>4, <1>5, <1>6, <1>7, <1>8, <1>9, <1>10
        DEF Next, Link, Report, Lifecycle

\* Besides OneLevel: only sessions that exist have a link.
LinkInv == OneLevel /\ \A c \in Sessions : parent[c] # None => c \in exists

\* No relink makes a chain of two links and no deletion leaves half of one.
LEMMA LinkStep ==
  ASSUME TypeOK, LinkInv, [Next]_vars
  PROVE  LinkInv'
<1>1. ASSUME NEW c \in Sessions, NEW p \in Sessions, Relinked(c, p) PROVE LinkInv'
  <2>1. /\ parent'[c] = p /\ \A s \in Sessions \ {c} : parent'[s] = parent[s]
        /\ exists' = exists /\ c \in exists /\ p \in exists /\ p # c
        /\ parent[p] = None
    BY <1>1, RelinkSets DEF Relinked, Open, Nested
  <2>2. \A s \in Sessions : parent[s] # c
    BY <1>1, RelationshipAssumption DEF Relinked, Nested, Kids, LinkInv
  <2>3. \A s \in Sessions : parent[s] \in Sessions \cup {None}
    BY DEF TypeOK
  <2> QED BY <2>1, <2>2, <2>3 DEF LinkInv, OneLevel
<1>2. ASSUME NEW s \in Sessions, DeleteSession(s) PROVE LinkInv'
  <2>1. /\ exists' = exists \ {s} /\ parent'[s] = None
        /\ \A c \in Sessions \ {s} : parent'[c] = parent[c]
        /\ \A c \in Sessions : parent[c] # s
    BY <1>2, RelationshipAssumption DEF DeleteSession, Kids, TypeOK, LinkInv
  <2>2. \A c \in Sessions : parent[c] \in Sessions \cup {None}
    BY DEF TypeOK
  <2> QED BY <2>1, <2>2 DEF LinkInv, OneLevel
<1>3. CASE UNCHANGED <<exists, parent, revision>>
  BY <1>3 DEF LinkInv, OneLevel
<1> QED BY <1>1, <1>2, <1>3, LinkSteps

\* It holds in every state of every behaviour.
LEMMA LinkAlways == Spec => []LinkInv
<1>1. Init => LinkInv
  BY DEF Init, LinkInv, OneLevel
<1> QED BY <1>1, LinkStep, TypeCorrect, PTL DEF Spec

\* OneLevel: evidence never travels in a circle, however links, claims,
\* transfers, adoptions and deletions follow on each other.
THEOREM OneLevelAlways == Spec => []OneLevel
BY LinkAlways, PTL DEF LinkInv

\* The children of a session are finitely many.
LEMMA KidsFinite ==
  ASSUME exists \subseteq Sessions, NEW p \in Sessions
  PROVE  IsFiniteSet(Kids(p)) /\ Cardinality(Kids(p)) \in Nat
<1>1. Kids(p) \subseteq Sessions
  BY DEF Kids
<1>2. IsFiniteSet(Kids(p))
  BY <1>1, FS_Subset, RelationshipAssumption
<1> QED BY <1>2, FS_CardinalityType

\* Only a relink adds a child to a parent, one at a time and never to a full one.
LEMMA ChildLimitStep ==
  ASSUME TypeOK, WithinChildLimit, [Next]_vars, NEW q \in Sessions
  PROVE  Cardinality(Kids(q)') <= MaxChildren
<1>0. /\ IsFiniteSet(Kids(q)) /\ Cardinality(Kids(q)) \in Nat
      /\ MaxChildren \in Nat /\ Cardinality(Kids(q)) <= MaxChildren
  BY KidsFinite, RelationshipAssumption DEF TypeOK, WithinChildLimit
<1>1. ASSUME NEW c \in Sessions, NEW p \in Sessions, Relinked(c, p)
      PROVE Cardinality(Kids(q)') <= MaxChildren
  <2>1. /\ parent'[c] = p /\ \A s \in Sessions \ {c} : parent'[s] = parent[s]
        /\ exists' = exists /\ exists \subseteq Sessions
    BY <1>1, RelinkSets DEF Relinked, TypeOK
  <2>2. CASE q = p
    <3>1. Kids(q)' \subseteq Kids(q) \cup {c}
      BY <2>1 DEF Kids
    <3>2. Cardinality(Kids(q)) < MaxChildren
      BY <1>0, <1>1, <2>2 DEF Relinked, Full
    <3>3. /\ IsFiniteSet(Kids(q) \cup {c})
          /\ Cardinality(Kids(q) \cup {c}) <= Cardinality(Kids(q)) + 1
      BY <1>0, FS_AddElement
    <3>4. Cardinality(Kids(q)') <= Cardinality(Kids(q) \cup {c})
      BY <3>1, <3>3, FS_Subset
    <3>5. Cardinality(Kids(q)') \in Nat /\ Cardinality(Kids(q) \cup {c}) \in Nat
      BY <3>1, <3>3, FS_Subset, FS_CardinalityType
    <3> QED BY <1>0, <3>2, <3>3, <3>4, <3>5
  <2>3. CASE q # p
    <3>1. Kids(q)' \subseteq Kids(q)
      BY <2>1, <2>3 DEF Kids
    <3>2. Cardinality(Kids(q)') <= Cardinality(Kids(q)) /\ Cardinality(Kids(q)') \in Nat
      BY <1>0, <3>1, FS_Subset, FS_CardinalityType
    <3> QED BY <1>0, <3>2
  <2> QED BY <2>2, <2>3
<1>2. ASSUME NEW s \in Sessions, DeleteSession(s)
      PROVE Cardinality(Kids(q)') <= MaxChildren
  <2>1. Kids(q)' \subseteq Kids(q)
    BY <1>2, RelationshipAssumption DEF DeleteSession, Kids, TypeOK
  <2>2. Cardinality(Kids(q)') <= Cardinality(Kids(q)) /\ Cardinality(Kids(q)') \in Nat
    BY <1>0, <2>1, FS_Subset, FS_CardinalityType
  <2> QED BY <1>0, <2>2
<1>3. CASE UNCHANGED <<exists, parent, revision>>
  BY <1>0, <1>3 DEF Kids
<1> QED BY <1>1, <1>2, <1>3, LinkSteps

\* WithinChildLimit: each path that relinks counts the children of the parent.
THEOREM WithinChildLimitAlways == Spec => []WithinChildLimit
<1>1. Init => WithinChildLimit
  <2> SUFFICES ASSUME Init, NEW p \in Sessions PROVE Cardinality(Kids(p)) <= MaxChildren
    BY DEF WithinChildLimit
  <2>1. Kids(p) = {}
    BY RelationshipAssumption DEF Init, Kids
  <2>2. Cardinality(Kids(p)) = 0
    BY <2>1, FS_EmptySet
  <2>3. MaxChildren \in Nat
    BY RelationshipAssumption
  <2> QED BY <2>2, <2>3
<1>2. TypeOK /\ WithinChildLimit /\ [Next]_vars => WithinChildLimit'
  BY ChildLimitStep DEF WithinChildLimit
<1> QED BY <1>1, <1>2, TypeCorrect, PTL DEF Spec

\* LinksWithinRules: one level of bounded width.
THEOREM LinksWithinRulesAlways == Spec => []LinksWithinRules
BY OneLevelAlways, WithinChildLimitAlways, PTL DEF LinksWithinRules

\* HeldLinkStays: the triggers hold the link through every relinking path.
THEOREM HeldLinkAlways == Spec => HeldLinkStays
<1>1. TypeOK /\ [Next]_vars => \A c \in held \cap exists' : parent'[c] = parent[c]
  <2> SUFFICES ASSUME TypeOK, [Next]_vars, NEW x \in held \cap exists'
               PROVE parent'[x] = parent[x]
    OBVIOUS
  <2>0. x \in Sessions /\ x \in held
    BY DEF TypeOK
  <2>1. ASSUME NEW c \in Sessions, NEW p \in Sessions, Relinked(c, p)
        PROVE parent'[x] = parent[x]
    BY <2>0, <2>1, RelinkSets DEF Relinked
  <2>2. ASSUME NEW s \in Sessions, DeleteSession(s) PROVE parent'[x] = parent[x]
    BY <2>0, <2>2 DEF DeleteSession, TypeOK
  <2> QED BY <2>1, <2>2, LinkSteps
<1> QED BY <1>1, TypeCorrect, PTL DEF Spec, HeldLinkStays

-----------------------------------------------------------------------------
(* Callers that are late. *)

\* What a caller read is not newer than the link, and older if the link changed.
StaleInv ==
  \A k \in Calls :
    intents[k] # None /\ k.child \in exists =>
      /\ intents[k].revision <= revision[k.child]
      /\ k \in touched => intents[k].revision < revision[k.child]

\* The steps that write an intent are the read and the command itself; all
\* others leave it, and mark it when they relink its child.
LEMMA IntentSteps ==
  ASSUME TypeOK, [Next]_vars
  PROVE  \/ \E k \in Calls : ReadRelationship(k)
         \/ \E k \in Calls : Reparent(k)
         \/ intents' = intents
<1>1. ASSUME Link PROVE \/ \E k \in Calls : ReadRelationship(k)
                        \/ \E k \in Calls : Reparent(k)
                        \/ intents' = intents
  BY <1>1 DEF Link, LinkChildSession
<1>2. ASSUME Report PROVE intents' = intents
  BY <1>2 DEF Report, RelayAgentFollowup, PublishChildReport, AdmitChildEvents, RemoveFollowup,
              Deliver, ClaimOnly, Acknowledge
<1>3. ASSUME Lifecycle PROVE intents' = intents
  BY <1>3 DEF Lifecycle, CloseSession, ReopenSession, HoldChildDeletion, HoldEnds, DeleteSession
<1> QED BY <1>1, <1>2, <1>3 DEF Next, vars

\* touched follows the links: only a relink adds to it, only a read takes away.
LEMMA TouchedSteps ==
  ASSUME TypeOK, [Next]_vars
  PROVE  \/ \E c, p \in Sessions : Relinked(c, p)
         \/ touched' \subseteq touched /\ exists' \subseteq exists
              /\ \A s \in exists' : revision'[s] = revision[s]
<1>1. CASE \E k \in Calls : ReadRelationship(k)
  BY <1>1 DEF ReadRelationship
<1>2. CASE \E s \in Sessions : DeleteSession(s)
  BY <1>2 DEF DeleteSession, TypeOK
<1>3. ASSUME UNCHANGED <<exists, parent, revision>>,
             \A k \in Calls : ~ReadRelationship(k),
             \A c, p \in Sessions : ~Relink(c, p)
      PROVE  touched' = touched
  <2>1. \A k \in Calls : k.child \in Sessions /\ k.to \in Sessions
    BY RelationshipAssumption
  <2>2. ASSUME Link PROVE touched' = touched
    BY <1>3, <2>1, <2>2 DEF Link, LinkChildSession, Reparent
  <2>3. ASSUME Report PROVE touched' = touched
    BY <1>3, <2>3 DEF Report, RelayAgentFollowup, Adopt, PublishChildReport, AdmitChildEvents,
                RemoveFollowup, Deliver, ClaimOnly, Acknowledge, links
  <2>4. ASSUME Lifecycle PROVE touched' = touched
    BY <2>4 DEF Lifecycle, CloseSession, ReopenSession, HoldChildDeletion, HoldEnds,
                DeleteSession, links
  <2> QED BY <2>2, <2>3, <2>4 DEF Next, vars, links
<1>4. UNCHANGED <<exists, parent, revision>> => \A c, p \in Sessions : ~Relink(c, p)
  <2>1. ASSUME UNCHANGED <<exists, parent, revision>>, NEW c \in Sessions, NEW p \in Sessions,
               Relink(c, p)
        PROVE FALSE
    <3>1. revision'[c] = revision[c] + 1
      BY <2>1, RelinkSets
    <3>2. revision[c] \in Nat
      BY DEF TypeOK
    <3> QED BY <2>1, <3>1, <3>2
  <2> QED BY <2>1
<1> QED BY <1>1, <1>2, <1>3, <1>4, LinkSteps

\* No step lets a late caller appear up to date.
LEMMA StaleStep ==
  ASSUME TypeOK, StaleInv, [Next]_vars
  PROVE  StaleInv'
<1> SUFFICES ASSUME NEW k \in Calls, intents'[k] # None, k.child \in exists'
             PROVE  /\ intents'[k].revision <= revision'[k.child]
                    /\ k \in touched' => intents'[k].revision < revision'[k.child]
  BY DEF StaleInv
<1>0. k.child \in Sessions /\ revision[k.child] \in Nat
  BY RelationshipAssumption DEF TypeOK
<1>1. CASE ReadRelationship(k)
  <2>1. intents'[k] = [from |-> parent[k.child], revision |-> revision[k.child]]
    BY <1>1 DEF ReadRelationship, TypeOK
  <2>2. k \notin touched' /\ revision' = revision
    BY <1>1 DEF ReadRelationship
  <2> QED BY <1>0, <2>1, <2>2
<1>2. CASE ~ReadRelationship(k)
  <2>1. intents'[k] = intents[k]
    BY <1>2, IntentSteps DEF ReadRelationship, Reparent, TypeOK
  <2>2. k.child \in exists
    BY TouchedSteps DEF Relinked
  <2>3. intents[k].revision \in Nat
    BY <2>1 DEF TypeOK, Intents
  <2>4. /\ intents[k].revision <= revision[k.child]
        /\ k \in touched => intents[k].revision < revision[k.child]
    BY <2>1, <2>2 DEF StaleInv
  <2>5. ASSUME NEW c \in Sessions, NEW p \in Sessions, Relinked(c, p)
        PROVE  \/ revision'[k.child] = revision[k.child] + 1
               \/ revision'[k.child] = revision[k.child] /\ (k \in touched' => k \in touched)
    BY <1>0, <2>5, RelinkSets DEF Relinked
  <2>6. \/ revision'[k.child] = revision[k.child] + 1
        \/ revision'[k.child] = revision[k.child] /\ (k \in touched' => k \in touched)
    BY <2>5, TouchedSteps
  <2> QED BY <1>0, <2>1, <2>3, <2>4, <2>6
<1> QED BY <1>1, <1>2

\* NoStaleTransition: however often the child changed hands meanwhile, and even
\* if it came back to the parent the caller read, a late command is refused.
THEOREM NoStaleTransitionAlways == Spec => NoStaleTransition
<1>1. Init => StaleInv
  BY DEF Init, StaleInv
<1>2. Spec => []StaleInv
  BY <1>1, StaleStep, TypeCorrect, PTL DEF Spec
<1>3. TypeOK /\ StaleInv /\ [Next]_vars =>
        \A k \in Calls : intents[k] # None /\ intents'[k] = None => k \notin touched
  <2> SUFFICES ASSUME TypeOK, StaleInv, [Next]_vars, NEW k \in Calls,
                      intents[k] # None, intents'[k] = None
               PROVE k \notin touched
    OBVIOUS
  <2>1. ASSUME ReadRelationship(k) PROVE FALSE
    <3>1. /\ intents'[k] = [from |-> parent[k.child], revision |-> revision[k.child]]
          /\ k.child \in Sessions
      BY <2>1, RelationshipAssumption DEF ReadRelationship, TypeOK
    <3>2. intents'[k] \in Intents
      BY <3>1 DEF TypeOK, Intents
    <3> QED BY <3>2, RelationshipAssumption
  <2>2. Reparent(k)
    BY <2>1, IntentSteps DEF ReadRelationship, Reparent, TypeOK
  <2>3. revision[k.child] = intents[k].revision /\ k.child \in exists
    BY <2>2 DEF Reparent, Current, Open
  <2>4. revision[k.child] \in Nat
    BY RelationshipAssumption DEF TypeOK
  <2> QED BY <2>3, <2>4 DEF StaleInv
<1> QED BY <1>2, <1>3, TypeCorrect, PTL DEF Spec, NoStaleTransition

=============================================================================
