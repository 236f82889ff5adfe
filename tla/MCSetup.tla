------------------------------ MODULE MCSetup ------------------------------
(* The deploy script and a keeper's pass, each beside the other users of the *)
(* registry: the script among executions, top-ups and cancellations, the     *)
(* pass among these and registrations.  What one of the two does to the      *)
(* registry while the other is under way is what those others do, so a run   *)
(* has one of them; which one, is chosen first.                              *)
EXTENDS HubSetup

CONSTANTS hub1, other, deployer, stranger

CONSTANTS
    ScriptHorizon,  \* the last round of a run of the script
    RegisterBy      \* the last round in which somebody registers an upkeep

VARIABLE scene

MCInit == Init /\ scene \in {"script", "pass"}

MCNext ==
    /\ Next
    /\ UNCHANGED scene
    /\ next_upkeep_id' # next_upkeep_id => round <= RegisterBy
    /\ scene = "script" => UNCHANGED pass /\ round' <= ScriptHorizon
    /\ scene = "pass" => UNCHANGED <<hubs, deploy>>

MCSpec ==
    /\ MCInit /\ [][MCNext]_<<vars, scene>>
    /\ WF_vars(/\ scene = "pass" /\ (KeeperTick \/ PassStep)
               /\ UNCHANGED <<hubs, deploy, cut, finished, scene>>)

\* UpkeepServed, of the runs that have a pass.
ServedByPass == scene = "pass" => UpkeepServed
=============================================================================
