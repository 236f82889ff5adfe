----------------------------- MODULE MCRelease -----------------------------
(* Two scenes: scripts that connect while the operator changes the           *)
(* environment, and builds, deployments and verifications that run at once   *)
(* while the tree is edited.                                                 *)
EXTENDS Release, TLC

CONSTANTS local, test, main, Runs

VARIABLES scene, runs   \* runs: how many processes were started

MCGenesisOf ==
    [s \in {local, test, main} |->
        CASE s = local -> "dockernet-v1"
          [] s = test  -> "testnet-v1.0"
          [] s = main  -> "mainnet-v1.0"]

\* A checkout as it comes, or one with every file filled in.
MCFiles ==
    {[n \in NETWORKS \cup {"default"} |-> Absent],
     [n \in NETWORKS \cup {"default"} |->
        CASE n = LOCALNET -> None
          [] n = MAINNET  -> main
          [] OTHER        -> test]}

MCInit ==
    /\ NetInit /\ ReleaseInit
    /\ files \in MCFiles
    /\ shell = [server |-> None, allow |-> FALSE]
    /\ scene \in {"connect", "release"} /\ runs = 0
    /\ scene = "release" => files[TESTNET] = test

Releasing ==
    \/ EditTree("rain")
    \/ apps = {} /\ Deployed(test, "rain")
    \/ \E p \in Procs :
        \/ Builds(p) \/ Over(p)
        \/ (Load(p) \/ AssertNetwork(p)) /\ UNCHANGED <<tree, art, apps, work>>
        \/ \E rebuild \in BOOLEAN : StartVerify(p, TESTNET, "rain", rebuild)
        \/ \E action \in {"build", "deploy", "all"}, todo \in {{"rain"}, Contracts} :
            (action = "build" => todo = {"rain"}) /\ StartMain(p, action, todo)

MCNext ==
    /\ \/ scene = "connect" /\ (Connecting \/ \E p \in Procs : Over(p))
       \/ scene = "release" /\ Releasing
    /\ runs' = runs + Cardinality({p \in Procs : At(p, "idle") /\ ~At(p, "idle")'})
    /\ runs' <= Runs
    /\ UNCHANGED scene

\* The processes are interchangeable.
Symmetry == Permutations(Procs)

MCSpec == MCInit /\ [][MCNext]_<<vars, scene, runs>>
=============================================================================
