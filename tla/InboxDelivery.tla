--------------------------- MODULE InboxDelivery ---------------------------
(***************************************************************************)
(* What the follow-up inbox promises its producers, without batches,       *)
(* receipts, turns or crashes.  Each message goes forward only: it waits,  *)
(* is withdrawn or held for delivery together with everything older that   *)
(* waits, is offered to the provider, and is delivered.  Only one held or  *)
(* offered group exists at a time, and what was offered is never offered   *)
(* again: it may stay offered for ever, but it cannot return to waiting.   *)
(***************************************************************************)
EXTENDS Naturals

CONSTANT Messages

VARIABLES place, \* arrival order of each message, 0 before it arrives
          fate   \* how far it got

InFlight == {"held", "offered"}
Fates == {"absent", "waiting", "withdrawn", "delivered"} \cup InFlight
At(f) == {m \in Messages : fate[m] = f}
Move(S, f) == fate' = [m \in Messages |-> IF m \in S THEN f ELSE fate[m]]

Init == /\ place = [m \in Messages |-> 0]
        /\ fate = [m \in Messages |-> "absent"]

Arrive(m) ==
  /\ m \in At("absent") /\ Move({m}, "waiting")
  /\ \A o \in Messages : place[o] < place'[m]
  /\ place' = [place EXCEPT ![m] = place'[m]]

Withdraw(m) == m \in At("waiting") /\ Move({m}, "withdrawn") /\ UNCHANGED place

\* The oldest waiting messages, up to one of them.
Hold(m) ==
  /\ At("held") \cup At("offered") = {} /\ m \in At("waiting")
  /\ Move({n \in At("waiting") : place[n] <= place[m]}, "held")
  /\ UNCHANGED place

Offer   == At("held") # {} /\ Move(At("held"), "offered") /\ UNCHANGED place
Deliver == At("offered") # {} /\ Move(At("offered"), "delivered") /\ UNCHANGED place

Next == \/ \E m \in Messages : Arrive(m) \/ Withdraw(m) \/ Hold(m)
        \/ Offer \/ Deliver

Spec == Init /\ [][Next]_<<place, fate>>
=============================================================================
