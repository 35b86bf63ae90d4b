------------------------- MODULE MCPromptLifecycle --------------------------
(* Instances of PromptLifecycle for TLC. *)
EXTENDS PromptLifecycle

CONSTANTS p1, p2, guide

=============================================================================
