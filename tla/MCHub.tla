------------------------------- MODULE MCHub -------------------------------
(* Several rains that a draw cannot all visit in one call, each as simple as *)
(* a rain can be; or one rain with its gate, its prize in an asset and       *)
(* payments that may be too small.  Which of the two, is chosen first.       *)
EXTENDS MCRain

VARIABLE scene

MCInit == Init /\ scene \in {"many rains", "gated"}

\* Plain rains, paid for, with one unit in each at most, in two rounds.
ManyRains ==
    \/ Tick /\ round' <= 2
    \/ Bootstrap(HubCreator, 2)
    \/ \E mode \in Modes, cap \in WaveCaps :
            CreateRain(alice, NoGate, Algo, 1, 1, mode, cap, 2)
    \/ \E r \in RainIds :
            \/ Enter(alice, r, 2) \/ Gm(alice, r) \/ Claim(alice, r)
            \/ Deposit(r, 1) /\ held'[r] <= 1
            \/ Resolve(r) \/ Abandon(r)
    \/ Draw

MCNext ==
    /\ \/ scene = "many rains" /\ ManyRains
       \/ scene = "gated" /\ Next /\ next_rain_id' <= 1
    /\ UNCHANGED scene

Fair == scene = "many rains" /\ UNCHANGED scene

MCSpec ==
    /\ MCInit /\ [][MCNext]_<<vars, scene>>
    /\ WF_<<vars, scene>>(Fair /\ Tick /\ round' <= 2)
    /\ WF_<<vars, scene>>(Fair /\ Draw)
    /\ \A r \in RainIds :
           WF_<<vars, scene>>(Fair /\ (Resolve(r) \/ Abandon(r)))

\* EveryRainServed, of the first scene.
AllServed == scene = "many rains" => EveryRainServed
=============================================================================
