------------------------------- MODULE MCRain -------------------------------
(* The hub on small instances.  The configurations differ in the modes, the  *)
(* bounds and the inputs; rounds are scaled down, so that an interval is one *)
(* or two rounds and a seed window one.                                      *)
EXTENDS Rain, TLC

CONSTANTS alice, bob, carol

MCTwo   == {alice, bob}
MCThree == {alice, bob, carol}

\* Every asset of these instances was minted by alice.
MCCreatorOf == [x \in Assets |-> alice]

\* Only without temporal properties: TLC's symmetry is unsound for liveness.
MCSymmetry == Permutations(Accounts)
=============================================================================
