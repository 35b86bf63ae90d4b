---------------------------- MODULE MCSubagents ----------------------------
(* Instances of Subagents for TLC. *)
EXTENDS Subagents, TLC

CONSTANT explorer

\* One archetype for all runs.
OneAgent    == {explorer}
AllOneAgent == [r \in Runs |-> explorer]
Two         == [a \in Agents |-> 2]
One         == [a \in Agents |-> 1]

\* Identities of runs are drawn fresh and only compared for equality.
Identities == Permutations(Runs)

=============================================================================
