------------------------------ MODULE HubSetup ------------------------------
(***************************************************************************)
(* scripts/rain_testnet_deploy.py: it creates a hub or takes up one,       *)
(* bootstraps it, opens and seeds the two Corvid rains and sees to it that *)
(* an upkeep calls draw.  Every step is a request of its own; a run that   *)
(* dies leaves what it did, and the operator runs the script again with    *)
(* the hub's id.  The registry and its other users are those of Keeper.    *)
(* Of a hub only what the script reads and writes is kept.                 *)
(***************************************************************************)
EXTENDS Keeper

CONSTANTS
    Hubs,                                      \* ids that creating one gives
    Deployer,
    DeployFee, DeployInterval, DeployFunding,  \* the upkeep's terms
    MaxStrangers   \* how many rains others open on a hub

ASSUME DeployAssumption ==
    /\ Hubs \subseteq Targets /\ Deployer \in Creators \ Registrants
    /\ {DeployFee, DeployInterval, DeployFunding, MaxStrangers} \subseteq Nat
    /\ DeployFee >= MinFee /\ DeployInterval >= MinInterval
    /\ DeployFunding >= DeployFee

VARIABLES
    hubs,     \* hub id -> what there is of it
    deploy,   \* the run of the script, and where it has got to
    cut,      \* the hubs on which a run died between its first rain and
              \* its last deposit
    finished  \* the hubs on which a run got to its end

vars == <<keeper_vars, hubs, deploy, cut, finished>>

Corvid == {"split", "wave"}

\* opened and seeded: which Corvid rains; strangers: the rains of others.
HubRec == [bootstrapped : BOOLEAN, opened : SUBSET Corvid,
           seeded : SUBSET Corvid, strangers : 0 .. MaxStrangers]

NoDeploy == [at |-> "idle", hub |-> 0, unread |-> {}, upkeep |-> 0]

Init ==
    /\ KeeperInit
    /\ hubs = [h \in {} |-> 0]
    /\ deploy = NoDeploy
    /\ cut = {} /\ finished = {}

NextRainId(h) == Cardinality(hubs[h].opened) + hubs[h].strangers

-----------------------------------------------------------------------------
(* The steps of the script *)

Goes(at) == deploy' = [deploy EXCEPT !.at = at]

\* deploy_config.deploy: a plain create, or the hub of --app-id.
DeployHub ==
    /\ deploy.at = "idle"
    /\ \E h \in Hubs :
        /\ deploy' = [NoDeploy EXCEPT !.at = "bootstrap", !.hub = h]
        /\ hubs' = IF h \in DOMAIN hubs THEN hubs
                   ELSE [x \in DOMAIN hubs \cup {h} |->
                            IF x # h THEN hubs[x]
                            ELSE [bootstrapped |-> FALSE, opened |-> {},
                                  seeded |-> {}, strangers |-> 0]]
    /\ UNCHANGED <<keeper_vars, cut, finished>>

DeployBootstrap ==
    /\ deploy.at = "bootstrap"
    /\ hubs' = [hubs EXCEPT ![deploy.hub].bootstrapped = TRUE]
    /\ Goes("count")
    /\ UNCHANGED <<keeper_vars, cut, finished>>

\* next_rain_id is read once; a hub that has any rain is not given more.
DeployCount ==
    /\ deploy.at = "count"
    /\ Goes(IF NextRainId(deploy.hub) = 0 THEN "open" ELSE "list")
    /\ UNCHANGED <<keeper_vars, hubs, cut, finished>>

DeployOpen ==
    /\ deploy.at = "open"
    /\ LET hub  == hubs[deploy.hub]
           mode == IF "split" \in hub.opened THEN "wave" ELSE "split"
       IN /\ hubs' = [hubs EXCEPT ![deploy.hub].opened = @ \cup {mode}]
          /\ Goes(IF mode = "wave" THEN "seed" ELSE "open")
    /\ UNCHANGED <<keeper_vars, cut, finished>>

\* Mutant: the WAVE pot is left empty, as the script once did.
ToSeedSplit == {"split"}

ToSeed == Corvid

DeploySeed ==
    /\ deploy.at = "seed"
    /\ LET left == ToSeed \ hubs[deploy.hub].seeded
           mode == IF "split" \in left THEN "split" ELSE "wave"
       IN /\ hubs' = [hubs EXCEPT ![deploy.hub].seeded = @ \cup {mode}]
          /\ Goes(IF left = {mode} THEN "list" ELSE "seed")
    /\ UNCHANGED <<keeper_vars, cut, finished>>

(* _upkeep_for_hub lists the registry's boxes and reads them one by one. *)

DeployList ==
    /\ deploy.at = "list"
    /\ deploy' = [deploy EXCEPT !.at = "lookup", !.unread = DOMAIN upkeeps]
    /\ UNCHANGED <<keeper_vars, hubs, cut, finished>>

\* Mutant: an upkeep is registered whatever there is, as the script once did.
DrivesNever(id) == FALSE

Drives(id) == upkeeps[id].target_app = deploy.hub

DeployLookup(id) ==
    /\ deploy.at = "lookup"
    /\ id \in deploy.unread \cap DOMAIN upkeeps
    /\ deploy' = IF Drives(id)
                 THEN [deploy EXCEPT !.at = "top_up", !.unread = {},
                                     !.upkeep = id]
                 ELSE [deploy EXCEPT !.unread = @ \ {id}]
    /\ UNCHANGED <<keeper_vars, hubs, cut, finished>>

Ends ==
    /\ deploy' = NoDeploy
    /\ finished' = finished \cup {deploy.hub}
    /\ UNCHANGED <<round, broken, pass, hubs, cut>>

DeployTopUp ==
    /\ deploy.at = "top_up"
    /\ ToppedUp(deploy.upkeep, DeployFunding)
    /\ Ends

DeployRegister ==
    /\ deploy.at = "lookup"
    /\ deploy.unread = {}
    /\ Registered(Deployer, deploy.hub, DeployInterval, DeployFee, 0,
                  SKIP_AHEAD, DeployFunding)
    /\ Ends

\* A refused request, a box that is gone, or the operator: the run is over.
DeployDies ==
    /\ deploy.at # "idle"
    /\ cut' = IF \/ deploy.at = "seed"
                 \/ deploy.at = "open" /\ hubs[deploy.hub].opened # {}
              THEN cut \cup {deploy.hub} ELSE cut
    /\ deploy' = NoDeploy
    /\ UNCHANGED <<keeper_vars, hubs, finished>>

\* create_rain is open to everybody once the hub is bootstrapped.
StrangerOpens(h) ==
    /\ h \in DOMAIN hubs
    /\ hubs[h].bootstrapped
    /\ hubs[h].strangers < MaxStrangers
    /\ hubs' = [hubs EXCEPT ![h].strangers = @ + 1]
    /\ UNCHANGED <<keeper_vars, deploy, cut, finished>>

DeployStep ==
    \/ DeployHub \/ DeployBootstrap \/ DeployCount \/ DeployOpen \/ DeploySeed
    \/ DeployList \/ DeployTopUp \/ DeployRegister \/ DeployDies
    \/ \E id \in UpkeepIds : DeployLookup(id)

Next ==
    \/ KeeperNext /\ UNCHANGED <<hubs, deploy, cut, finished>>
    \/ DeployStep
    \/ \E h \in Hubs : StrangerOpens(h)

Spec == Init /\ [][Next]_vars

FairSpec == Spec /\ WF_vars(KeeperTick /\ UNCHANGED <<hubs, deploy, cut, finished>>)
                 /\ WF_vars(PassStep /\ UNCHANGED <<hubs, deploy, cut, finished>>)
-----------------------------------------------------------------------------
(* Properties *)

SetupTypeOK ==
    /\ KeeperTypeOK
    /\ DOMAIN hubs \subseteq Hubs
    /\ \A h \in DOMAIN hubs : hubs[h] \in HubRec

\* However often the script is run and wherever it dies, the deployer has one
\* upkeep at most on a hub: a second would pay a second keeper to call the same
\* draw for ever (scripts/rain_testnet_deploy.py:72).
OneUpkeepPerHub ==
    \A h \in DOMAIN hubs :
        Cardinality({i \in DOMAIN upkeeps :
            upkeeps[i].creator = Deployer /\ upkeeps[i].target_app = h}) <= 1

\* A run that reached its end leaves the hub bootstrapped, and both rains open
\* with money in them, unless somebody else's rain was there or a run before it
\* died half-way through opening and seeding them: the script looks at
\* next_rain_id alone and does not take that up again.
SetUpUnlessCut ==
    \A h \in finished :
        /\ hubs[h].bootstrapped
        /\ hubs[h].strangers = 0 /\ h \notin cut =>
               hubs[h].opened = Corvid /\ hubs[h].seeded = Corvid
=============================================================================
