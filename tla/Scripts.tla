------------------------------ MODULE Scripts ------------------------------
(* What the scripts that drive a hub on a chain have in common.              *)
EXTENDS Rain

\* wait_for_round is over: the node's last round is the one before that in
\* which a call sent now runs.
Reached(target) == round - 1 >= target

\* resolve, called now, is refused: the draw is closed, or its seed is not
\* there yet or not any more.
ResolveRefused(r) ==
    \/ ~DrawOpen(r)
    \/ round <= rains[r].commit_round
    \/ round > rains[r].commit_round + SeedWindow
=============================================================================
