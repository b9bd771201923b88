------------------------- MODULE MCSchedulerCommands -------------------------
(***************************************************************************)
(* Instances of SchedulerCommands for TLC.                                 *)
(***************************************************************************)
EXTENDS SchedulerCommands, TLC

CONSTANTS d1, d2, m1, m2, s1, s2, p1, p2

OneDevice == [d \in {d1} |-> m1]
OneMicro  == [d \in {d1, d2} |-> m1]

\* Done, and done without a relay state in the reply.
TwoReplies == {<<TRUE, TRUE>>, <<TRUE, None>>}
\* A policy command carries no relay state; it succeeds or fails as such.
PolicyReplies == {<<TRUE, None>>, <<FALSE, None>>}

\* Dispatchers are interchangeable.
Symmetry == Permutations({p1, p2})
=============================================================================
