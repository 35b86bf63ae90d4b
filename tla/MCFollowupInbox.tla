------------------------- MODULE MCFollowupInbox --------------------------
(* Instances of FollowupInbox for TLC: which commands producers issue, and  *)
(* the identities that no guard tells apart.                                *)
EXTENDS FollowupInbox, TLC

\* Producers that enqueue and nothing else.
EnqueueOnly == {Enqueue(m, b) : m \in Messages, b \in Bodies}

\* Producers that enqueue, pause and resume.
EnqueueAndPause == EnqueueOnly \cup {SetPaused(TRUE), SetPaused(FALSE)}

\* Identities are drawn fresh and never compared except for equality.
Identities == Permutations(Messages) \cup Permutations(Keys)
                \cup Permutations(Batches) \cup Permutations(Turns)

=============================================================================
