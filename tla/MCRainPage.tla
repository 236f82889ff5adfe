---------------------------- MODULE MCRainPage -----------------------------
(* The page opened at a rain, with the session of the last visit resumed. *)
EXTENDS RainPage

MCInit ==
    /\ Init
    /\ account # None
    /\ watchingId = CHOOSE r \in Rains : TRUE

MCSpec     == MCInit /\ [][Next]_vars
MCFairSpec == MCSpec /\ Fairness
=============================================================================
