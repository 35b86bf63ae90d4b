------------------------- MODULE MCBackgroundTasks -------------------------
(* Instances of BackgroundTasks for TLC. *)
EXTENDS BackgroundTasks

\* All tasks belong to one session.
OneOwner == [t \in Tasks |-> CHOOSE o \in Owners : TRUE]

=============================================================================
