--------------------------- MODULE MCChildReports ---------------------------
(* Instances of ChildReports for TLC. *)
EXTENDS ChildReports

CONSTANTS p, q, c, h

\* Transfers of one child between two parents, by callers that may be late.
BothWays == {[child |-> c, to |-> p], [child |-> c, to |-> h]}

\* A claim or a transfer of the same child to another parent.
OneWay == {[child |-> c, to |-> q]}

=============================================================================
