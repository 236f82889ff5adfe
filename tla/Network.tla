------------------------------ MODULE Network ------------------------------
(***************************************************************************)
(* Which chain a script talks to (scripts/network.py), and the keeper that *)
(* a demonstration creates for itself (deploy_keeper of scripts/arcron.py).*)
(* A process starts with what its shell exports, loads the file of the     *)
(* network it was asked for, which never overrides what is exported, and   *)
(* asks the node it reaches what chain it is.  The operator edits the      *)
(* files and the exports meanwhile.                                        *)
(*                                                                         *)
(* Of the environment ALGOD_SERVER and ARCRON_ALLOW_MAINNET are kept.  A   *)
(* server goes on serving one chain.                                       *)
(***************************************************************************)
EXTENDS Naturals

CONSTANTS
    Procs,        \* processes
    Servers,      \* what ALGOD_SERVER may say
    GenesisOf,    \* the genesis id each of them reports
    LocalServer,  \* where from_environment goes if it says nothing
    None,         \* no value
    Absent,       \* no such file
    MaxEdits      \* of the operator's

LOCALNET == "localnet"
TESTNET  == "testnet"
MAINNET  == "mainnet"
NETWORKS == {LOCALNET, TESTNET, MAINNET}

ASSUME NetworkAssumption ==
    /\ DOMAIN GenesisOf = Servers /\ LocalServer \in Servers
    /\ None \notin Servers /\ Absent \notin Servers \cup {None}
    /\ MaxEdits \in Nat

VARIABLES
    shell,    \* what is exported to the next process
    files,    \* .env.<network>, and .env ("default"): absent, or the server it
              \* names, if any
    proc,     \* proc[p]: what a process was asked for, and where it is
    keeper,   \* keeper[s]: the fixture on the chain of s
    edits

netVars == <<shell, files, proc, keeper, edits>>

GenesisIds ==
    [n \in NETWORKS |->
        CASE n = LOCALNET -> {"dockernet-v1", "sandnet-v1", "devnet-v1"}
          [] n = TESTNET  -> {"testnet-v1.0"}
          [] n = MAINNET  -> {"mainnet-v1.0"}]

Env == [server : Servers \cup {None}, allow : BOOLEAN]

\* kind: what it runs; node: the server it was connected to.
NoProc == [kind |-> None, at |-> "idle", asked |-> None,
           env |-> [server |-> None, allow |-> FALSE], node |-> None]

NetInit ==
    /\ shell \in Env
    /\ files \in [NETWORKS \cup {"default"} -> Servers \cup {None, Absent}]
    /\ proc = [p \in Procs |-> NoProc]
    /\ keeper = [s \in Servers |-> "none"]
    /\ edits = 0

At(p, step) == proc[p].at = step
Goes(p, step) == proc' = [proc EXCEPT ![p].at = step]

-----------------------------------------------------------------------------
(* load_network, connect *)

\* Without --network the network is ARCRON_NETWORK's, else TestNet.
Start(p, kind, asked, step) ==
    /\ At(p, "idle")
    /\ proc' = [proc EXCEPT ![p] = [kind |-> kind, at |-> step, asked |-> asked,
                                    env |-> shell, node |-> None]]
    /\ UNCHANGED <<shell, files, keeper, edits>>

\* load_dotenv: a variable that is set stays as it is.
Loaded(env, file) ==
    IF env.server # None \/ file = Absent THEN env
    ELSE [env EXCEPT !.server = file]

\* require_mainnet_creator finds no scripts/multisig.py to name a signer.
SignerAddress == None

\* What load_network refuses.
Refuses(asked, env) ==
    \/ asked = MAINNET /\ ~env.allow
    \/ asked = MAINNET /\ SignerAddress = None
    \/ files[asked] = Absent /\ asked # LOCALNET /\ env.server = None

Load(p) ==
    /\ At(p, "load")
    /\ LET asked == proc[p].asked
           env   == proc[p].env
       IN IF Refuses(asked, env) THEN Goes(p, "refused")
          ELSE proc' = [proc EXCEPT ![p].at = "assert",
                                    ![p].env = Loaded(env, files[asked])]
    /\ UNCHANGED <<shell, files, keeper, edits>>

\* AlgorandClient.from_environment.
FromEnvironment(env) ==
    IF env.server = None THEN LocalServer ELSE env.server

\* assert_network; is_dev_mode asks the same of LocalNet.
\* Mutant: any chain the scripts know of will do.
IsNetworkKnown(server, network) ==
    \E n \in NETWORKS : GenesisOf[server] \in GenesisIds[n]

IsNetwork(server, network) == GenesisOf[server] \in GenesisIds[network]

AssertNetwork(p) ==
    /\ At(p, "assert")
    /\ LET node == FromEnvironment(proc[p].env) IN
        IF IsNetwork(node, proc[p].asked)
        THEN proc' = [proc EXCEPT ![p].at = "connected", ![p].node = node]
        ELSE Goes(p, "refused")
    /\ UNCHANGED <<shell, files, keeper, edits>>

-----------------------------------------------------------------------------
(* What follows: a script's transactions, or the keeper of a demonstration *)

Transact(p) ==
    /\ At(p, "connected") /\ proc[p].kind = "script"
    /\ Goes(p, "transacts")
    /\ UNCHANGED <<shell, files, keeper, edits>>

\* deploy_keeper makes a client of its own, and creates the keeper unless the
\* account has one.
CreateKeeper(p) ==
    /\ At(p, "connected") /\ proc[p].kind = "demo"
    /\ LET node == FromEnvironment(proc[p].env) IN
        IF IsNetwork(node, LOCALNET)
        THEN /\ keeper' = [keeper EXCEPT ![node] =
                               IF @ = "none" THEN "bare" ELSE @]
             /\ Goes(p, "fund")
        ELSE Goes(p, "refused") /\ UNCHANGED keeper
    /\ UNCHANGED <<shell, files, edits>>

\* It is paid its base minimum balance if it holds less.
FundKeeper(p) ==
    /\ At(p, "fund")
    /\ keeper' = [keeper EXCEPT ![proc[p].node] = "funded"]
    /\ Goes(p, "transacts")
    /\ UNCHANGED <<shell, files, edits>>

\* The end of a process, wherever it is.
Ends(p) ==
    /\ ~At(p, "idle")
    /\ proc' = [proc EXCEPT ![p] = NoProc]
    /\ UNCHANGED <<shell, files, keeper, edits>>

Connects(p) ==
    Load(p) \/ AssertNetwork(p) \/ Transact(p) \/ CreateKeeper(p) \/ FundKeeper(p)

\* The operator.
EditEnv ==
    /\ edits < MaxEdits /\ edits' = edits + 1
    /\ \/ \E n \in NETWORKS \cup {"default"}, f \in Servers \cup {None, Absent} :
            files' = [files EXCEPT ![n] = f] /\ UNCHANGED shell
       \/ shell' \in Env /\ UNCHANGED files
    /\ UNCHANGED <<proc, keeper>>

NetNext ==
    \/ EditEnv
    \/ \E p \in Procs : Connects(p) \/ Ends(p)
    \/ \E p \in Procs, n \in NETWORKS, kind \in {"script", "demo"} :
         Start(p, kind, n, "load")

NetSpec == NetInit /\ [][NetNext]_netVars

-----------------------------------------------------------------------------
(* Properties *)

\* What goes through connect transacts on the network that was asked for and on
\* no other, whatever is exported and whatever the files say, and never on
\* MainNet; and a keeper comes into existence on LocalNet only, and is used only
\* once it can pay (network.py:212-214, arcron.py:547-554).
NetworkAsked ==
    /\ \A p \in Procs :
          At(p, "transacts") =>
              /\ GenesisOf[proc[p].node] \in GenesisIds[proc[p].asked]
              /\ proc[p].asked # MAINNET
              /\ proc[p].kind = "demo" => keeper[proc[p].node] = "funded"
    /\ \A s \in Servers :
          keeper[s] # "none" => GenesisOf[s] \in GenesisIds[LOCALNET]
=============================================================================
