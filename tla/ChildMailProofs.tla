--------------------------- MODULE ChildMailProofs ---------------------------
(***************************************************************************)
(* Where the mail between parent and child may be, for any set of sessions *)
(* and messages.                                                           *)
(***************************************************************************)
EXTENDS ChildReportsProofs

\* A message in an inbox has an origin, unsettled mail is in an inbox that
\* exists, and report rows are evidence.
MailInv ==
  /\ \A m \in Mail : inbox[m] # None => origin[m] # None
  /\ \A m \in Mail : Unsettled(m) => inbox[m] \in exists
  /\ \A r \in rows : kind[r] = "evidence"

\* Mail that a step of the inbox only moves along.
Handled(m) ==
  /\ inbox'[m] = inbox[m] /\ origin'[m] = origin[m] /\ kind'[m] = kind[m]
  /\ fate'[m] # fate[m] => Unsettled(m)
  /\ fate'[m] = "dispatching" /\ fate[m] # "dispatching" =>
       \E s \in Sessions : Deliver(s) /\ inbox[m] = s

\* Mail that a step admits: a fresh relay, or a report without a receipt.
Admitted(m) ==
  /\ inbox[m] = None /\ fate'[m] = "pending" /\ inbox'[m] \in exists
  /\ origin'[m] # None /\ exists' = exists
  /\ \/ \E s \in Sessions :
          RelayAgentFollowup(m, s, inbox'[m]) /\ m \in Relays /\ kind'[m] # "evidence"
     \/ /\ m \in rows /\ kind'[m] = kind[m] /\ origin'[m] = origin[m]
        /\ parent[origin[m]] = inbox'[m] /\ UNCHANGED links

\* A report that is stored and not admitted yet.
Stored(m) ==
  /\ m \in Reports /\ origin[m] = None /\ kind'[m] = "evidence"
  /\ inbox'[m] = inbox[m] /\ fate'[m] = fate[m] /\ UNCHANGED links

\* Mail that goes with its inbox.
Gone(m) ==
  \E s \in Sessions :
    DeleteSession(s) /\ inbox[m] = s /\ inbox'[m] = None /\ fate'[m] = "none"
      /\ origin'[m] = origin[m] /\ kind'[m] = kind[m]

\* What a batch of the tick does to a message.
LEMMA BatchSteps ==
  ASSUME TypeOK, NEW s \in Sessions, NEW m \in Mail, Deliver(s) \/ ClaimOnly(s) \/ Acknowledge(s)
  PROVE  Handled(m)
<1>1. /\ inbox' = inbox /\ origin' = origin /\ kind' = kind
  BY DEF Deliver, ClaimOnly, Acknowledge
<1>2. CASE Deliver(s)
  <2>1. PICK batch \in SUBSET Mail : Batch(s, batch) /\ Sent(batch, "dispatching")
    BY <1>2 DEF Deliver
  <2>2. fate'[m] = IF m \in batch THEN "dispatching" ELSE fate[m]
    BY <2>1 DEF Sent
  <2>3. m \in batch => inbox[m] = s /\ Unsettled(m)
    BY <2>1 DEF Batch, Readable, At, In
  <2> QED BY <1>1, <1>2, <2>2, <2>3 DEF Handled
<1>3. CASE ClaimOnly(s)
  <2>1. PICK batch \in SUBSET Mail : Batch(s, batch) /\ Sent(batch, "claimed")
    BY <1>3 DEF ClaimOnly
  <2>2. fate'[m] = IF m \in batch THEN "claimed" ELSE fate[m]
    BY <2>1 DEF Sent
  <2>3. m \in batch => inbox[m] = s /\ Unsettled(m)
    BY <2>1 DEF Batch, Readable, At, In
  <2> QED BY <1>1, <2>2, <2>3 DEF Handled
<1>4. CASE Acknowledge(s)
  <2>1. fate'[m] = IF m \in At(s, "dispatching") THEN "consumed" ELSE fate[m]
    BY <1>4 DEF Acknowledge, Sent
  <2>2. m \in At(s, "dispatching") => Unsettled(m)
    BY DEF At, In
  <2> QED BY <1>1, <2>1, <2>2 DEF Handled
<1> QED BY <1>2, <1>3, <1>4

\* What any step does to a message.
LEMMA MailSteps ==
  ASSUME TypeOK, LinkInv, MailInv, [Next]_vars, NEW m \in Mail
  PROVE  Handled(m) \/ Admitted(m) \/ Stored(m) \/ Gone(m)
<1>1. ASSUME Link PROVE Handled(m)
  BY <1>1 DEF Link, LinkChildSession, ReadRelationship, Reparent, mail, Handled
<1>2. ASSUME NEW n \in Relays, NEW s \in Sessions, NEW t \in Sessions,
             RelayAgentFollowup(n, s, t)
      PROVE Handled(m) \/ Admitted(m)
  <2>1. CASE m = n
    <3>1. /\ origin[m] = None /\ fate'[m] = "pending" /\ inbox'[m] = t /\ origin'[m] = s
          /\ t \in exists /\ kind'[m] # "evidence" /\ exists' = exists
      BY <1>2, <2>1 DEF RelayAgentFollowup, TypeOK, Open
    <3>2. inbox[m] = None
      BY <3>1 DEF MailInv
    <3> QED BY <1>2, <2>1, <3>1, <3>2, RelationshipAssumption DEF Admitted
  <2>2. CASE m # n
    <3>1. fate'[m] = fate[m] /\ inbox'[m] = inbox[m] /\ origin'[m] = origin[m] /\ kind'[m] = kind[m]
      BY <1>2, <2>2 DEF RelayAgentFollowup, TypeOK
    <3> QED BY <3>1 DEF Handled
  <2> QED BY <2>1, <2>2
<1>3. ASSUME NEW r \in Reports, NEW c \in Sessions, PublishChildReport(r, c)
      PROVE Handled(m) \/ Stored(m)
  BY <1>3 DEF PublishChildReport, Handled, Stored, TypeOK
<1>4. ASSUME AdmitChildEvents PROVE Handled(m) \/ Admitted(m)
  <2>1. PICK page \in SUBSET {r \in rows : parent[origin[r]] # None} :
          /\ \A p \in Sessions :
               page \cap {r \in rows : parent[origin[r]] = p} \subseteq Eligible(p)
          /\ inbox' = [n \in Mail |-> IF n \in page THEN parent[origin[n]] ELSE inbox[n]]
          /\ fate' = [n \in Mail |-> IF n \in page THEN "pending" ELSE fate[n]]
          /\ origin' = origin /\ kind' = kind /\ UNCHANGED links /\ exists' = exists
    BY <1>4 DEF AdmitChildEvents
  <2>2. CASE m \in page
    <3>1. m \in rows /\ origin[m] \in Sessions /\ origin[m] # None
      BY <2>1, <2>2, RelationshipAssumption DEF TypeOK, Mail
    <3>2. parent[origin[m]] \in Sessions /\ parent[origin[m]] \in exists
      BY <2>1, <2>2, <3>1 DEF TypeOK, LinkInv, OneLevel
    <3>3. inbox[m] = None
      BY <2>1, <2>2, <3>1, <3>2 DEF Eligible
    <3> QED BY <2>1, <2>2, <3>1, <3>2, <3>3 DEF Admitted
  <2>3. CASE m \notin page
    BY <2>1, <2>3 DEF Handled
  <2> QED BY <2>2, <2>3
<1>5. ASSUME NEW n \in Mail, RemoveFollowup(n) PROVE Handled(m)
  BY <1>5 DEF RemoveFollowup, Handled, Unsettled, TypeOK
<1>6. ASSUME NEW s \in Sessions, Deliver(s) \/ ClaimOnly(s) \/ Acknowledge(s) PROVE Handled(m)
  BY <1>6, BatchSteps
<1>7. ASSUME NEW s \in Sessions,
             CloseSession(s) \/ ReopenSession(s) \/ HoldChildDeletion(s) \/ HoldEnds(s)
      PROVE Handled(m)
  BY <1>7 DEF CloseSession, ReopenSession, HoldChildDeletion, HoldEnds, mail, Handled
<1>8. ASSUME NEW s \in Sessions, DeleteSession(s) PROVE Handled(m) \/ Gone(m)
  BY <1>8 DEF DeleteSession, Dropped, Handled, Gone
<1>9. CASE UNCHANGED vars
  BY <1>9 DEF vars, mail, Handled
<1> QED BY <1>1, <1>2, <1>3, <1>4, <1>5, <1>6, <1>7, <1>8, <1>9 DEF Next, Report, Lifecycle

\* Only a publication adds a report row.
LEMMA RowSteps ==
  ASSUME TypeOK, [Next]_vars, NEW r \in rows', r \notin rows
  PROVE  kind'[r] = "evidence"
<1>1. ASSUME NEW n \in Reports, NEW c \in Sessions, PublishChildReport(n, c)
      PROVE kind'[r] = "evidence"
  BY <1>1 DEF PublishChildReport, TypeOK, Mail
<1>2. ASSUME Link \/ Lifecycle PROVE r \in rows
  BY <1>2 DEF Link, LinkChildSession, ReadRelationship, Reparent, Lifecycle, CloseSession,
              ReopenSession, HoldChildDeletion, HoldEnds, DeleteSession, mail
<1>3. ASSUME Report, \A n \in Reports, c \in Sessions : ~PublishChildReport(n, c)
      PROVE r \in rows
  BY <1>3 DEF Report, RelayAgentFollowup, AdmitChildEvents, RemoveFollowup, Deliver, ClaimOnly,
              Acknowledge
<1> QED BY <1>1, <1>2, <1>3 DEF Next, vars, mail

\* Unsettled mail stays in an inbox that exists, whatever is deleted.
LEMMA MailStep ==
  ASSUME TypeOK, LinkInv, MailInv, [Next]_vars
  PROVE  MailInv'
<1>1. ASSUME NEW m \in Mail
      PROVE  /\ inbox'[m] # None => origin'[m] # None
             /\ Unsettled(m)' => inbox'[m] \in exists'
  <2>1. CASE Handled(m)
    <3>1. Unsettled(m)' => Unsettled(m)
      BY <2>1 DEF Handled, Unsettled
    <3>2. inbox[m] \in exists => inbox[m] \in exists' \/ \E s \in Sessions : DeleteSession(s) /\ inbox[m] = s
      BY LinkSteps DEF Relinked, DeleteSession
    <3>3. ASSUME NEW s \in Sessions, DeleteSession(s), inbox[m] = s PROVE inbox'[m] = None
      BY <3>3 DEF DeleteSession, Dropped
    <3>4. Unsettled(m) => inbox[m] \in exists /\ inbox[m] # None
      BY RelationshipAssumption DEF MailInv, TypeOK
    <3> QED BY <2>1, <3>1, <3>2, <3>3, <3>4 DEF Handled, MailInv
  <2>2. CASE Admitted(m)
    BY <2>2 DEF Admitted
  <2>3. CASE Stored(m)
    <3>1. ~Unsettled(m) /\ inbox[m] = None
      BY <2>3, RelationshipAssumption DEF Stored, MailInv, TypeOK
    <3> QED BY <2>3, <3>1 DEF Stored, Unsettled
  <2>4. CASE Gone(m)
    BY <2>4 DEF Gone, Unsettled
  <2> QED BY <2>1, <2>2, <2>3, <2>4, MailSteps
<1>2. ASSUME NEW r \in rows' PROVE kind'[r] = "evidence"
  <2>1. r \in Reports /\ r \in Mail /\ r \notin Relays
    BY TypeStep, RelationshipAssumption DEF TypeOK, Mail
  <2>2. r \in rows => kind[r] = "evidence"
    BY DEF MailInv
  <2> QED BY <2>1, <2>2, RowSteps, MailSteps DEF Handled, Admitted, Stored, Gone
<1> QED BY <1>1, <1>2 DEF MailInv, Unsettled

\* It holds in every state of every behaviour.
LEMMA MailAlways == Spec => []MailInv
<1>1. Init => MailInv
  BY DEF Init, MailInv, Unsettled
<1> QED BY <1>1, MailStep, TypeCorrect, LinkAlways, PTL DEF Spec

-----------------------------------------------------------------------------
(* The theorems. *)

\* ReceiptSurvives: neither transfer, adoption, nor the deletion of its author
\* or of its report row brings a delivered report back, while the inbox exists.
THEOREM ReceiptSurvivesAlways == Spec => ReceiptSurvives
<1>1. ASSUME TypeOK, LinkInv, MailInv, [Next]_vars, NEW m \in Mail, inbox[m] \in exists'
      PROVE  /\ inbox'[m] = inbox[m]
             /\ fate[m] \in {"consumed", "removed"} => fate'[m] = fate[m]
  <2>1. inbox[m] # None
    BY <1>1, TypeStep, RelationshipAssumption DEF TypeOK
  <2>2. ~Gone(m)
    BY <1>1 DEF Gone, DeleteSession
  <2> QED BY <1>1, <2>1, <2>2, MailSteps DEF Handled, Admitted, Stored, Unsettled
<1>2. TypeOK /\ LinkInv /\ MailInv /\ [Next]_vars =>
        \A m \in Mail :
          inbox[m] \in exists' =>
            /\ inbox'[m] = inbox[m]
            /\ fate[m] \in {"consumed", "removed"} => fate'[m] = fate[m]
  BY <1>1
<1> QED BY <1>2, TypeCorrect, LinkAlways, MailAlways, PTL DEF Spec, ReceiptSurvives

\* DispatchedWithAuthority: the check of a claim covers what an earlier claim,
\* an adoption or a closed source left in the inbox.
THEOREM DispatchedWithAuthorityAlways == Spec => DispatchedWithAuthority
<1>1. ASSUME TypeOK, LinkInv, MailInv, [Next]_vars, NEW m \in Mail,
             fate[m] # "dispatching", fate'[m] = "dispatching"
      PROVE  /\ kind[m] = "evidence" /\ origin[m] \in exists => parent[origin[m]] = inbox[m]
             /\ kind[m] = "delegated" => parent[inbox[m]] = origin[m]
             /\ kind[m] # "evidence" => Open(origin[m])
  <2>1. PICK s \in Sessions : Deliver(s) /\ inbox[m] = s
    BY <1>1, MailSteps DEF Handled, Admitted, Stored, Gone
  <2>2. PICK batch \in SUBSET Mail : Batch(s, batch) /\ Sent(batch, "dispatching")
    BY <2>1 DEF Deliver
  <2>3. m \in batch
    BY <1>1, <2>2 DEF Sent
  <2>4. m \in Readable(s) /\ m \in In(s)
    BY <2>2, <2>3 DEF Batch, Readable, At
  <2>5. /\ kind[m] = "evidence" /\ origin[m] \in exists => parent[origin[m]] = s
        /\ SourceLive(m, s)
    BY <2>1, <2>4 DEF Deliver, Claimable, Authorized
  <2> QED BY <2>1, <2>5 DEF SourceLive
<1>2. TypeOK /\ LinkInv /\ MailInv /\ [Next]_vars =>
        \A m \in Mail :
          fate[m] # "dispatching" /\ fate'[m] = "dispatching" =>
            /\ kind[m] = "evidence" /\ origin[m] \in exists => parent[origin[m]] = inbox[m]
            /\ kind[m] = "delegated" => parent[inbox[m]] = origin[m]
            /\ kind[m] # "evidence" => Open(origin[m])
  BY <1>1
<1> QED BY <1>2, TypeCorrect, LinkAlways, MailAlways, PTL DEF Spec, DispatchedWithAuthority

\* Without a Chat that adopts, no step separates mail from its relationship.
LEMMA FollowStep ==
  ASSUME Chats = {}, TypeOK, LinkInv, MailInv, MailFollowsLinks, [Next]_vars,
         NEW m \in Mail, Unsettled(m)'
  PROVE  /\ kind'[m] = "evidence" /\ origin'[m] \in exists' => parent'[origin'[m]] = inbox'[m]
         /\ kind'[m] = "delegated" => parent'[inbox'[m]] = origin'[m]
<1>1. CASE Handled(m)
  <2>1. /\ Unsettled(m) /\ inbox'[m] = inbox[m] /\ origin'[m] = origin[m] /\ kind'[m] = kind[m]
    BY <1>1 DEF Handled, Unsettled
  <2>2. /\ inbox[m] \in exists /\ inbox[m] \in Sessions /\ inbox[m] # None
        /\ origin[m] \in Sessions /\ origin[m] # None
        /\ kind[m] = "evidence" /\ origin[m] \in exists => parent[origin[m]] = inbox[m]
        /\ kind[m] = "delegated" => parent[inbox[m]] = origin[m]
    BY <2>1, RelationshipAssumption DEF MailInv, MailFollowsLinks, TypeOK
  <2>3. ASSUME NEW c \in Sessions, NEW p \in Sessions, Relinked(c, p)
        PROVE  /\ kind[m] = "evidence" /\ origin[m] \in exists => origin[m] # c
               /\ kind[m] = "delegated" => inbox[m] # c
    <3>1. parent[c] = None \/ m \notin UnsettledFor(c)
      BY <2>3 DEF Relinked
    <3> QED BY <2>1, <2>2, <3>1 DEF UnsettledFor
  <2>4. ASSUME NEW c \in Sessions, NEW p \in Sessions, Relinked(c, p)
        PROVE  /\ exists' = exists
               /\ \A s \in Sessions \ {c} : parent'[s] = parent[s]
    BY <2>4, RelinkSets DEF Relinked
  <2>5. ASSUME NEW s \in Sessions, DeleteSession(s)
        PROVE  /\ exists' = exists \ {s} /\ inbox[m] # s
               /\ \A c \in Sessions \ {s} : parent'[c] = parent[c]
    BY <2>1, <2>2, <2>5, RelationshipAssumption DEF DeleteSession, Dropped, TypeOK
  <2>6. CASE \E c, p \in Sessions : Relinked(c, p)
    BY <2>1, <2>2, <2>3, <2>4, <2>6
  <2>7. CASE \E s \in Sessions : DeleteSession(s)
    BY <2>1, <2>2, <2>5, <2>7
  <2>8. CASE UNCHANGED <<exists, parent, revision>>
    BY <2>1, <2>2, <2>8
  <2> QED BY <2>6, <2>7, <2>8, LinkSteps
<1>2. CASE Admitted(m)
  <2>1. ASSUME NEW s \in Sessions, RelayAgentFollowup(m, s, inbox'[m]), m \in Relays
        PROVE  /\ parent' = parent /\ origin'[m] = s
               /\ kind'[m] = "delegated" => parent[inbox'[m]] = s
    <3>1. UNCHANGED links
      BY <2>1 DEF RelayAgentFollowup, Adopt
    <3>2. /\ kind'[m] = IF s \in Chats THEN "chat"
                        ELSE IF parent[inbox'[m]] = s THEN "delegated" ELSE "peer"
          /\ origin'[m] = s
      BY <2>1 DEF RelayAgentFollowup, TypeOK
    <3> QED BY <3>1, <3>2 DEF links
  <2>2. m \in rows => kind[m] = "evidence"
    BY DEF MailInv
  <2> QED BY <1>2, <2>1, <2>2 DEF Admitted, links
<1>3. CASE Stored(m)
  BY <1>3, RelationshipAssumption DEF Stored, MailInv, Unsettled, TypeOK
<1>4. CASE Gone(m)
  BY <1>4 DEF Gone, Unsettled
<1> QED BY <1>1, <1>2, <1>3, <1>4, MailSteps

\* MailFollowsLinks: ensure_delivery_settled makes claims and transfers wait for
\* the mail of the old relationship, so none is ever stranded by them.
THEOREM MailFollowsLinksAlways == Chats = {} => (Spec => []MailFollowsLinks)
<1> SUFFICES ASSUME Chats = {} PROVE Spec => []MailFollowsLinks OBVIOUS
<1>1. Init => MailFollowsLinks
  BY DEF Init, MailFollowsLinks, Unsettled
<1>2. TypeOK /\ LinkInv /\ MailInv /\ MailFollowsLinks /\ [Next]_vars => MailFollowsLinks'
  BY FollowStep DEF MailFollowsLinks
<1> QED BY <1>1, <1>2, TypeCorrect, LinkAlways, MailAlways, PTL DEF Spec

=============================================================================
