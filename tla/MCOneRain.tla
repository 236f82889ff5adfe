------------------------------ MODULE MCOneRain ------------------------------
(* One rain of any mode with everything that can happen to it, and what the  *)
(* readers say of it.  The horizon depends on the mode: a lottery's drop is  *)
(* lock, seed window and resolve or abandon, and takes more rounds than the  *)
(* drop of the other two.                                                    *)
EXTENDS MCRain, Standing

CONSTANT Horizon   \* the last round of a rain of a mode

\* Split, lottery, wave.
MCHorizon == <<6, 7, 5>>

MCNext == /\ Next
          /\ \A r \in DOMAIN rains' : round' <= Horizon[rains'[r].mode + 1]

MCSpec == Init /\ [][MCNext]_vars
=============================================================================
