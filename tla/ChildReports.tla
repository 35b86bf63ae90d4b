---------------------------- MODULE ChildReports ----------------------------
(***************************************************************************)
(* Parent links between logical sessions and the evidence that travels     *)
(* along them (src/child_reports.rs, src/child_reports/relationships.*,    *)
(* src/followups/child_events.rs, src/followups/coordination.rs).          *)
(*                                                                         *)
(* A link makes one session the child of another.  Reports of a child are  *)
(* rows of its own, admitted by a tick into the inbox of whoever is its    *)
(* parent then; instructions go down the link as relays.  Links are made,  *)
(* claimed, transferred, adopted by an owner Chat and dropped with their   *)
(* sessions while that mail is under way.  All sessions are bound to one   *)
(* profile.  An inbox is reduced to the fate of its messages; its batches  *)
(* are those of FollowupInbox.                                             *)
(***************************************************************************)
EXTENDS Naturals, FiniteSets

CONSTANTS
  Sessions,     \* logical sessions of one owner on one runtime
  Chats,        \* those the integration vouches for as owner Chats
  Reports,      \* identities of reports that wake a parent
  Relays,       \* identities of agent messages between sessions
  Calls,        \* claim/transfer commands that may be under way: a child and
                \* the parent it is to get
  MaxChildren,  \* children one parent may hold (32)
  Capacity,     \* unsettled messages one inbox may hold (256)
  MaxRevision,  \* bound on the changes of one link
  None          \* no session

Mail == Reports \cup Relays

\* What a caller read of a child: its parent and the revision of the link.
Intents == [from : Sessions \cup {None}, revision : Nat]

ASSUME RelationshipAssumption ==
  /\ IsFiniteSet(Sessions) /\ Chats \subseteq Sessions
  /\ None \notin Sessions \cup Intents
  /\ Reports \cap Relays = {}
  /\ \A k \in Calls : k.child \in Sessions /\ k.to \in Sessions /\ k.child # k.to
  /\ MaxChildren \in Nat /\ Capacity \in Nat /\ MaxRevision \in Nat

VARIABLES
  exists,    \* sessions with a row
  closed,    \* sessions whose bridge is not open
  parent,    \* session_child_links
  revision,  \* session_relationship_revisions
  held,      \* children under a live session_deletion_holds row
  rows,      \* session_child_reports
  origin,    \* author of a report, source of a relay; None: identity unused
  kind,      \* the kind column of followup_sources
  inbox,     \* the inbox that holds the message; of a report, its receipt
  fate,      \* how far the message got there
  intents,   \* what each caller read before its claim or transfer
  touched,   \* history: calls whose child's link changed since that read
  wakes      \* history: provider turns each report was dispatched in

links == <<parent, revision, touched>>
mail  == <<rows, origin, kind, inbox, fate, wakes>>
vars  == <<exists, closed, links, held, mail, intents>>

Fates == {"none", "pending", "claimed", "dispatching", "consumed", "removed"}
Kinds == {"evidence", "delegated", "chat", "peer"}
\* Every table holds rows of its kind.
TypeOK ==
  /\ exists \subseteq Sessions /\ closed \subseteq exists /\ held \subseteq exists
  /\ parent \in [Sessions -> Sessions \cup {None}]
  /\ revision \in [Sessions -> Nat]
  /\ rows \subseteq {r \in Reports : origin[r] # None}
  /\ origin \in [Mail -> Sessions \cup {None}]
  /\ kind \in [Mail -> Kinds \cup {None}]
  /\ inbox \in [Mail -> Sessions \cup {None}]
  /\ fate \in [Mail -> Fates]
  /\ intents \in [Calls -> Intents \cup {None}]
  /\ touched \subseteq Calls
  /\ wakes \in [Reports -> Nat]

Init ==
  /\ exists = Sessions /\ closed = {} /\ held = {}
  /\ parent = [s \in Sessions |-> None] /\ revision = [s \in Sessions |-> 0]
  /\ rows = {} /\ origin = [m \in Mail |-> None] /\ kind = [m \in Mail |-> None]
  /\ inbox = [m \in Mail |-> None] /\ fate = [m \in Mail |-> "none"]
  /\ intents = [k \in Calls |-> None] /\ touched = {}
  /\ wakes = [r \in Reports |-> 0]

-----------------------------------------------------------------------------
(* State the guards read. *)

Open(s)      == s \in exists \ closed
Kids(p)      == {c \in exists : parent[c] = p}
Unsettled(m) == fate[m] \in {"pending", "claimed", "dispatching"}
In(s)        == {m \in Mail : inbox[m] = s /\ Unsettled(m)}
At(s, f)     == {m \in In(s) : fate[m] = f}

\* Mutant: what was consumed keeps its place in the inbox.
RoomForAll(s) == Capacity - Cardinality({m \in Mail : inbox[m] = s /\ fate[m] # "removed"})

Room(s) == Capacity - Cardinality(In(s))

\* Mutant: a child's own children are not looked at.
NestedBelow(p, c) == parent[p] # None

\* One level: a child takes no children, a parent takes no parent.
Nested(p, c) == parent[p] # None \/ Kids(c) # {}

Full(p) == Cardinality(Kids(p)) >= MaxChildren

\* Mutant: only mail that still waits counts, not what a claim holds.
UnsettledWaiting(c) ==
  {m \in Mail : /\ fate[m] = "pending"
                /\ \/ kind[m] = "evidence" /\ origin[m] = c
                   \/ kind[m] \in {"delegated", "chat"} /\ inbox[m] = c}

\* Evidence the child has out, and instructions it has not taken yet.
UnsettledFor(c) ==
  {m \in Mail : /\ Unsettled(m)
                /\ \/ kind[m] = "evidence" /\ origin[m] = c
                   \/ kind[m] \in {"delegated", "chat"} /\ inbox[m] = c}

-----------------------------------------------------------------------------
(* Links. *)

\* Mutant: without the triggers on session_deletion_holds.
RelinkHeld(c, p) ==
  /\ revision[c] < MaxRevision
  /\ parent' = [parent EXCEPT ![c] = p]
  /\ revision' = [revision EXCEPT ![c] = @ + 1]
  /\ touched' = touched \cup {k \in Calls : k.child = c}

\* Insert or re-point the link row.  The triggers refuse it under a live hold
\* and count it in the revision.
Relink(c, p) ==
  /\ c \notin held /\ revision[c] < MaxRevision
  /\ parent' = [parent EXCEPT ![c] = p]
  /\ revision' = [revision EXCEPT ![c] = @ + 1]
  /\ touched' = touched \cup {k \in Calls : k.child = c}

LinkChildSession(p, c) ==
  /\ p # c /\ Open(p) /\ Open(c)
  /\ parent[c] = None /\ ~Nested(p, c) /\ ~Full(p)
  /\ Relink(c, p)
  /\ UNCHANGED <<exists, closed, held, mail, intents>>

\* A caller reads the parent and the revision its command will name.
ReadRelationship(k) ==
  /\ k.child \in exists /\ k.to \in exists
  /\ intents' = [intents EXCEPT ![k] =
                   [from |-> parent[k.child], revision |-> revision[k.child]]]
  /\ touched' = touched \ {k}
  /\ UNCHANGED <<exists, closed, parent, revision, held, mail>>

\* Mutant: the parent alone is compared, not the revision.
CurrentParent(c, read) == parent[c] = read.from

Current(c, read) == parent[c] = read.from /\ revision[c] = read.revision

\* Claim (no parent expected) or transfer, fenced by what the caller read and
\* refused while mail of the old relationship is unsettled.  The exact retry
\* of an applied command reads its receipt and changes nothing.
Reparent(k) ==
  /\ intents[k] # None
  /\ intents[k].from # k.to /\ Current(k.child, intents[k])
  /\ Open(k.child) /\ Open(k.to)
  /\ ~Nested(k.to, k.child) /\ ~Full(k.to)
  /\ UnsettledFor(k.child) = {}
  /\ Relink(k.child, k.to)
  /\ intents' = [intents EXCEPT ![k] = None]
  /\ UNCHANGED <<exists, closed, held, mail>>

\* An owner Chat that instructs an agent becomes its parent where it may.
Adoptable(chat, c) ==
  parent[c] # chat /\ ~Nested(chat, c) /\ ~Full(chat) /\ c \notin held

Adopt(s, c) ==
  IF s \in Chats /\ Adoptable(s, c) THEN Relink(c, s) ELSE UNCHANGED links

-----------------------------------------------------------------------------
(* Mail. *)

\* RelayAgentFollowup: the source's standing is decided at admission, before
\* the adoption it may cause.
RelayAgentFollowup(m, s, t) ==
  /\ s # t /\ Open(s) /\ Open(t) /\ Room(t) > 0
  /\ origin[m] = None
  /\ origin' = [origin EXCEPT ![m] = s] /\ inbox' = [inbox EXCEPT ![m] = t]
  /\ kind' = [kind EXCEPT ![m] = IF s \in Chats THEN "chat"
                                 ELSE IF parent[t] = s THEN "delegated" ELSE "peer"]
  /\ fate' = [fate EXCEPT ![m] = "pending"]
  /\ Adopt(s, t)
  /\ UNCHANGED <<exists, closed, held, rows, wakes, intents>>

\* A terminal turn, a question or an explicit report of a linked child.
PublishChildReport(r, c) ==
  /\ c \in exists /\ parent[c] # None /\ origin[r] = None
  /\ rows' = rows \cup {r}
  /\ origin' = [origin EXCEPT ![r] = c] /\ kind' = [kind EXCEPT ![r] = "evidence"]
  /\ UNCHANGED <<exists, closed, links, held, inbox, fate, wakes, intents>>

\* Reports without a receipt whose author has that parent.
Eligible(p) == {r \in rows : inbox[r] = None /\ parent[origin[r]] = p}

Least(a, b) == IF a < b THEN a ELSE b

\* One page of the tick: each open parent takes what its inbox has room for.
AdmitChildEvents ==
  \E page \in SUBSET {r \in rows : parent[origin[r]] # None} :
    /\ page # {}
    /\ \A p \in Sessions :
         /\ page \cap {r \in rows : parent[origin[r]] = p} \subseteq Eligible(p)
         /\ Cardinality(page \cap Eligible(p)) =
              IF Open(p) THEN Least(Room(p), Cardinality(Eligible(p))) ELSE 0
    /\ inbox' = [m \in Mail |-> IF m \in page THEN parent[origin[m]] ELSE inbox[m]]
    /\ fate' = [m \in Mail |-> IF m \in page THEN "pending" ELSE fate[m]]
    /\ UNCHANGED <<exists, closed, links, held, rows, origin, kind, wakes, intents>>

RemoveFollowup(m) ==
  /\ fate[m] = "pending"
  /\ fate' = [fate EXCEPT ![m] = "removed"]
  /\ UNCHANGED <<exists, closed, links, held, rows, origin, kind, inbox, wakes, intents>>

\* Mutant: only evidence that waits is looked at again, not a claim's.
AuthorizedWaiting(s) ==
  \A m \in At(s, "pending") :
    kind[m] = "evidence" /\ origin[m] \in exists => parent[origin[m]] = s

\* authorized_child_messages: every unsettled report comes from a child of
\* this session, or from one that was deleted.
Authorized(s) ==
  \A m \in In(s) :
    kind[m] = "evidence" /\ origin[m] \in exists => parent[origin[m]] = s

\* read_messages: the source of a relay is open, and a delegated instruction
\* still has its link; a vouched Chat needs none.
SourceLive(m, s) ==
  kind[m] # "evidence" =>
    Open(origin[m]) /\ (kind[m] = "delegated" => parent[s] = origin[m])

\* What the next claim reads: the claim that is left, or all that waits.
Readable(s) == IF At(s, "claimed") # {} THEN At(s, "claimed") ELSE At(s, "pending")

\* A batch is the claim left behind, or a bounded part of what waits.
Batch(s, batch) ==
  /\ batch # {} /\ batch \subseteq Readable(s)
  /\ At(s, "claimed") # {} => batch = At(s, "claimed")

Claimable(s) ==
  /\ Open(s) /\ Authorized(s) /\ At(s, "dispatching") = {}
  /\ \A m \in Readable(s) : SourceLive(m, s)

Sent(batch, f) == fate' = [m \in Mail |-> IF m \in batch THEN f ELSE fate[m]]

\* A tick claims, fences and dispatches in one turn of the actor ...
Deliver(s) ==
  /\ Claimable(s)
  /\ \E batch \in SUBSET Mail :
       /\ Batch(s, batch) /\ Sent(batch, "dispatching")
       /\ wakes' = [r \in Reports |-> IF r \in batch THEN wakes[r] + 1 ELSE wakes[r]]
  /\ UNCHANGED <<exists, closed, links, held, rows, origin, kind, inbox, intents>>

\* ... unless a crash or a failed write leaves its claim without the fence.
ClaimOnly(s) ==
  /\ Claimable(s) /\ At(s, "claimed") = {}
  /\ \E batch \in SUBSET Mail : Batch(s, batch) /\ Sent(batch, "claimed")
  /\ UNCHANGED <<exists, closed, links, held, rows, origin, kind, inbox, wakes, intents>>

Acknowledge(s) ==
  /\ At(s, "dispatching") # {}
  /\ Sent(At(s, "dispatching"), "consumed")
  /\ UNCHANGED <<exists, closed, links, held, rows, origin, kind, inbox, wakes, intents>>

-----------------------------------------------------------------------------
(* Lifecycle. *)

\* Mutant: the bridge of a deleted session may still be closed.
CloseAny(s) ==
  /\ closed' = closed \cup {s}
  /\ UNCHANGED <<exists, links, held, mail, intents>>

CloseSession(s) ==
  /\ Open(s) /\ closed' = closed \cup {s}
  /\ UNCHANGED <<exists, links, held, mail, intents>>

ReopenSession(s) ==
  /\ s \in closed /\ closed' = closed \ {s}
  /\ UNCHANGED <<exists, links, held, mail, intents>>

\* A parent-fenced stop or deletion; the fence named the parent it read.
HoldChildDeletion(c) ==
  /\ c \in exists \ held /\ held' = held \cup {c}
  /\ UNCHANGED <<exists, closed, links, mail, intents>>

\* The hold expires, or is released with the command it was taken for.
HoldEnds(c) ==
  /\ c \in held /\ held' = held \ {c}
  /\ UNCHANGED <<exists, closed, links, mail, intents>>

\* Mutant: the receipts of a child's reports go with its report rows.
DroppedWithAuthor(s, m) == inbox[m] = s \/ origin[m] = s

\* Messages and delivery receipts that the deletion of an inbox takes along.
Dropped(s, m) == inbox[m] = s

\* Refused while the session has children.  The cascades take its link, its
\* report rows, its inbox and the receipts of what was delivered there.
DeleteSession(s) ==
  /\ s \in exists /\ Kids(s) = {}
  /\ exists' = exists \ {s} /\ closed' = closed \ {s} /\ held' = held \ {s}
  /\ parent' = [parent EXCEPT ![s] = None]
  /\ revision' = [revision EXCEPT ![s] = 0]
  /\ rows' = {r \in rows : origin[r] # s}
  /\ inbox' = [m \in Mail |-> IF Dropped(s, m) THEN None ELSE inbox[m]]
  /\ fate' = [m \in Mail |-> IF Dropped(s, m) THEN "none" ELSE fate[m]]
  /\ UNCHANGED <<origin, kind, wakes, intents, touched>>

-----------------------------------------------------------------------------
Link ==
  \/ \E p, c \in Sessions : LinkChildSession(p, c)
  \/ \E k \in Calls : ReadRelationship(k) \/ Reparent(k)

Report ==
  \/ \E m \in Relays, s, t \in Sessions : RelayAgentFollowup(m, s, t)
  \/ \E r \in Reports, c \in Sessions : PublishChildReport(r, c)
  \/ AdmitChildEvents \/ \E m \in Mail : RemoveFollowup(m)
  \/ \E s \in Sessions : Deliver(s) \/ ClaimOnly(s) \/ Acknowledge(s)

Lifecycle ==
  \E s \in Sessions :
    CloseSession(s) \/ ReopenSession(s) \/ HoldChildDeletion(s) \/ HoldEnds(s)
      \/ DeleteSession(s)

Next == Link \/ Report \/ Lifecycle

Spec == Init /\ [][Next]_vars

\* The ticker keeps admitting and delivering, and providers answer.
FairSpec ==
  /\ Spec /\ WF_vars(AdmitChildEvents)
  /\ \A s \in Sessions : WF_vars(Deliver(s)) /\ WF_vars(Acknowledge(s))

-----------------------------------------------------------------------------
(* Properties. *)

\* "One-level relationships prevent notification loops": through links, claims,
\* transfers and adoptions no session is ever both a child and a parent, and a
\* parent exists.
OneLevel ==
  \A c \in Sessions :
    parent[c] # None => parent[c] \in exists /\ parent[parent[c]] = None

\* No path that relinks a child takes a parent past its limit of children.
WithinChildLimit == \A p \in Sessions : Cardinality(Kids(p)) <= MaxChildren

\* Together: the four paths that relink a child keep one level and its width.
LinksWithinRules == OneLevel /\ WithinChildLimit

\* ensure_delivery_settled: mail never outlives the relationship it was sent
\* under.  Where no Chat adopts, unsettled evidence is in the inbox of its
\* author's parent and an unsettled instruction below its sender.
MailFollowsLinks ==
  \A m \in Mail :
    Unsettled(m) =>
      /\ kind[m] = "evidence" /\ origin[m] \in exists => parent[origin[m]] = inbox[m]
      /\ kind[m] = "delegated" => parent[inbox[m]] = origin[m]

\* A claim or transfer acts only on the relationship its caller read: not on
\* one that changed and came back since (ABA).
NoStaleTransition ==
  [][\A k \in Calls : intents[k] # None /\ intents'[k] = None => k \notin touched]_vars

\* A child under a live deletion hold keeps its parent until it is gone.
HeldLinkStays ==
  [][\A c \in held \cap exists' : parent'[c] = parent[c]]_vars

\* Whatever was claimed before an adoption, a crash or a deletion: evidence
\* wakes only a session that is its author's parent at that moment (or the one
\* it reached before its author was deleted), and an instruction is dispatched
\* only below its sender.
DispatchedWithAuthority ==
  [][\A m \in Mail :
       fate[m] # "dispatching" /\ fate'[m] = "dispatching" =>
         /\ kind[m] = "evidence" /\ origin[m] \in exists => parent[origin[m]] = inbox[m]
         /\ kind[m] = "delegated" => parent[inbox[m]] = origin[m]
         /\ kind[m] # "evidence" => Open(origin[m])]_vars

\* "The receipt survives child/report deletion": what reached an inbox stays
\* there, and what was consumed or withdrawn stays so, as long as the inbox does.
ReceiptSurvives ==
  [][\A m \in Mail :
       inbox[m] \in exists' =>
         /\ inbox'[m] = inbox[m]
         /\ fate[m] \in {"consumed", "removed"} => fate'[m] = fate[m]]_vars

\* "Consumed metadata remains history and causes no duplicate wakeup"
\* (docs/session-relationships.md).
EvidenceWakesOnce == \A r \in Reports : wakes[r] <= 1

\* What keeps evidence waiting: a closed session, or mail in an inbox that
\* lost its authority.
Obstructed ==
  \/ closed # {}
  \/ \E s \in exists : ~Authorized(s) \/ \E m \in In(s) : ~SourceLive(m, s)

\* A full inbox only delays: with the ticker and the providers fair, evidence
\* is consumed, or withdrawn, or goes with its author, unless obstructed.
EvidenceArrives ==
  <>[]~Obstructed =>
    \A r \in Reports : r \in rows ~> (r \notin rows \/ fate[r] \in {"consumed", "removed"})

=============================================================================
