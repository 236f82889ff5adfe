--------------------------- MODULE ReleaseProofs ---------------------------
(***************************************************************************)
(* The proofs that what connects transacts on the chain it was asked for,  *)
(* and that what verify_build says of an application is true of the tree,  *)
(* for any number of processes, servers, versions and edits.               *)
(*                                                                         *)
(* A process is judged by its own copy of the environment, which nobody    *)
(* edits once it has begun; the node it was shown to be on is the one it   *)
(* transacts with because the server's name is looked up in that copy each *)
(* time.  A build removes what was there before it makes anything: from    *)
(* then on whatever any build puts into the artifacts directory was made   *)
(* of a version that the tree has had since this build began, or that      *)
(* another had read by then and not yet written.                           *)
(***************************************************************************)
EXTENDS Release, TLAPS

Connected  == {"connected", "fund", "transacts", "matches", "differs"}
Connecteds == {"load", "assert"} \cup Connected
Steps      == {"idle", "refused", "clear", "read", "write", "generate", "spec",
               "deploy", "deployed", "built", "failed", "local"} \cup Connecteds

Verifiers  == {"verify", "compare"}
Askers     == {"script", "demo"} \cup Verifiers
Workers    == {"build", "deploy", "all"} \cup Verifiers
Kinds      == {None} \cup Askers \cup Workers

USE DEF Connected, Connecteds, Verifiers, Askers, Workers, Kinds

Process == [kind : Kinds, at : Steps, asked : NETWORKS \cup {None}, env : Env,
            node : Servers \cup {None}]

NetTypeOK ==
    /\ shell \in Env
    /\ files \in [NETWORKS \cup {"default"} -> Servers \cup {None, Absent}]
    /\ proc \in [Procs -> Process]
    /\ keeper \in [Servers -> {"none", "bare", "funded"}]

\* What a process knows by the step it has reached.
Reached(j) ==
    /\ j.at # "idle" /\ j.kind \in Askers => j.asked \in NETWORKS
    /\ j.at = "local" => j.kind \in Verifiers
    /\ j.at \in Connecteds => j.kind \in Askers
    /\ j.at \in {"assert"} \cup Connected => j.asked # MAINNET
    /\ j.at \in Connected =>
          /\ j.node = FromEnvironment(j.env)
          /\ j.node \in Servers
          /\ GenesisOf[j.node] \in GenesisIds[j.asked]

\* And what it has done about a keeper.
Kept(j) ==
    /\ j.at = "fund" => /\ j.kind = "demo"
                        /\ GenesisOf[j.node] \in GenesisIds[LOCALNET]
    /\ j.at = "transacts" /\ j.kind = "demo" => keeper[j.node] = "funded"

LocalKeepers ==
    \A s \in Servers :
        keeper[s] # "none" => GenesisOf[s] \in GenesisIds[LOCALNET]

NetInv ==
    /\ NetTypeOK
    /\ LocalKeepers
    /\ \A p \in Procs : Reached(proc[p]) /\ Kept(proc[p])

-----------------------------------------------------------------------------
LEMMA ServerFound ==
  ASSUME NEW env \in Env
  PROVE  FromEnvironment(env) \in Servers
  BY NetworkAssumption DEF FromEnvironment, Env

LEMMA LoadedFits ==
  ASSUME NEW env \in Env, NEW file \in Servers \cup {None, Absent}
  PROVE  Loaded(env, file) \in Env
  BY DEF Loaded, Env

\* A step of one process that leaves the keepers alone.
LEMMA OneStep ==
  ASSUME NetInv, NEW p \in Procs, NEW j \in Process,
         proc' = [proc EXCEPT ![p] = j], UNCHANGED <<shell, files, keeper>>,
         Reached(j), Kept(j)
  PROVE  NetInv'
<1>1. NetTypeOK'
  BY DEF NetInv, NetTypeOK
<1>2. LocalKeepers'
  BY DEF NetInv, LocalKeepers
<1>3. ASSUME NEW q \in Procs PROVE Reached(proc'[q]) /\ Kept(proc[q])'
  <2>1. CASE q = p
    <3>1. proc'[q] = j
      BY <2>1 DEF NetInv, NetTypeOK
    <3>2. QED
      BY <3>1 DEF Kept
  <2>2. CASE q # p
    <3>1. proc'[q] = proc[q]
      BY <2>2 DEF NetInv, NetTypeOK
    <3>2. QED
      BY <3>1 DEF NetInv, Kept
  <2>3. QED
    BY <2>1, <2>2
<1>4. QED
  BY <1>1, <1>2, <1>3 DEF NetInv, Reached

LEMMA InitNet == NetInit => NetInv
<1> SUFFICES ASSUME NetInit PROVE NetInv
  OBVIOUS
<1>1. NoProc \in Process
  BY DEF NoProc, Process, Kinds, Steps, Env
<1>2. NetTypeOK
  BY <1>1 DEF NetInit, NetTypeOK
<1>3. \A p \in Procs : Reached(proc[p]) /\ Kept(proc[p])
  BY DEF NetInit, NoProc, Reached, Kept
<1>4. LocalKeepers
  BY DEF NetInit, LocalKeepers
<1>5. QED
  BY <1>2, <1>3, <1>4 DEF NetInv

LEMMA StartNet ==
  ASSUME NetInv, NEW p \in Procs, NEW n \in NETWORKS,
         NEW kind \in {"script", "demo"}, Start(p, kind, n, "load")
  PROVE  NetInv'
<1> DEFINE j == [kind |-> kind, at |-> "load", asked |-> n, env |-> shell,
                 node |-> None]
<1>1. j \in Process
  BY DEF NetInv, NetTypeOK, Process, Kinds, Steps
<1>2. Reached(j) /\ Kept(j)
  BY DEF Reached, Kept
<1>3. QED
  BY <1>1, <1>2, OneStep DEF Start

\* MainNet is refused: nothing in this repository names a signer.
LEMMA LoadNet ==
  ASSUME NetInv, NEW p \in Procs, Load(p)
  PROVE  NetInv'
<1> DEFINE j == proc[p]
           no == [j EXCEPT !.at = "refused"]
           on == [j EXCEPT !.at = "assert",
                           !.env = Loaded(j.env, files[j.asked])]
<1>1. j \in Process /\ j.at = "load" /\ Reached(j)
  BY DEF NetInv, NetTypeOK, Load, At
<1>2. CASE Refuses(j.asked, j.env)
  <2>1. proc' = [proc EXCEPT ![p] = no]
    BY <1>2 DEF Load, Goes
  <2>2. no \in Process /\ Reached(no) /\ Kept(no)
    BY <1>1 DEF Process, Steps, Reached, Kept
  <2>3. QED
    BY <2>1, <2>2, OneStep DEF Load
<1>3. CASE ~Refuses(j.asked, j.env)
  <2>1. proc' = [proc EXCEPT ![p] = on]
    BY <1>3 DEF Load
  <2>2. j.asked \in NETWORKS /\ j.asked # MAINNET
    BY <1>1, <1>3 DEF Reached, Refuses, SignerAddress
  <2>3. files[j.asked] \in Servers \cup {None, Absent}
    BY <2>2 DEF NetInv, NetTypeOK
  <2>4. Loaded(j.env, files[j.asked]) \in Env
    BY <1>1, <2>3, LoadedFits DEF Process
  <2>5. on \in Process /\ Reached(on) /\ Kept(on)
    BY <1>1, <2>2, <2>4 DEF Process, Steps, Reached, Kept
  <2>6. QED
    BY <2>1, <2>5, OneStep DEF Load
<1>4. QED
  BY <1>2, <1>3

LEMMA AssertNet ==
  ASSUME NetInv, NEW p \in Procs, AssertNetwork(p)
  PROVE  NetInv'
<1> DEFINE j    == proc[p]
           node == FromEnvironment(j.env)
           no   == [j EXCEPT !.at = "refused"]
           on   == [j EXCEPT !.at = "connected", !.node = node]
<1>1. j \in Process /\ j.at = "assert" /\ Reached(j) /\ node \in Servers
  BY ServerFound DEF NetInv, NetTypeOK, AssertNetwork, At, Process
<1>2. CASE IsNetwork(node, j.asked)
  <2>1. proc' = [proc EXCEPT ![p] = on]
    BY <1>2 DEF AssertNetwork
  <2>2. on \in Process /\ Reached(on) /\ Kept(on)
    BY <1>1, <1>2 DEF Process, Steps, Reached, Kept, IsNetwork
  <2>3. QED
    BY <2>1, <2>2, OneStep DEF AssertNetwork
<1>3. CASE ~IsNetwork(node, j.asked)
  <2>1. proc' = [proc EXCEPT ![p] = no]
    BY <1>3 DEF AssertNetwork, Goes
  <2>2. no \in Process /\ Reached(no) /\ Kept(no)
    BY <1>1 DEF Process, Steps, Reached, Kept
  <2>3. QED
    BY <2>1, <2>2, OneStep DEF AssertNetwork
<1>4. QED
  BY <1>2, <1>3

LEMMA TransactNet ==
  ASSUME NetInv, NEW p \in Procs, Transact(p)
  PROVE  NetInv'
<1> DEFINE j  == proc[p]
           on == [j EXCEPT !.at = "transacts"]
<1>1. j \in Process /\ j.at = "connected" /\ j.kind = "script" /\ Reached(j)
  BY DEF NetInv, NetTypeOK, Transact, At
<1>2. proc' = [proc EXCEPT ![p] = on]
  BY DEF Transact, Goes
<1>3. on \in Process /\ Reached(on) /\ Kept(on)
  BY <1>1 DEF Process, Steps, Reached, Kept
<1>4. QED
  BY <1>2, <1>3, OneStep DEF Transact

\* The demonstration's second client reaches the same node as its first.
LEMMA CreateKeeperNet ==
  ASSUME NetInv, NEW p \in Procs, CreateKeeper(p)
  PROVE  NetInv'
<1> DEFINE j    == proc[p]
           node == FromEnvironment(j.env)
           no   == [j EXCEPT !.at = "refused"]
           on   == [j EXCEPT !.at = "fund"]
<1>1. /\ j \in Process /\ j.at = "connected" /\ j.kind = "demo" /\ Reached(j)
      /\ node \in Servers /\ j.node = node
  BY ServerFound DEF NetInv, NetTypeOK, CreateKeeper, At, Process, Reached
<1>2. CASE ~IsNetwork(node, LOCALNET)
  <2>1. proc' = [proc EXCEPT ![p] = no]
    BY <1>2 DEF CreateKeeper, Goes
  <2>2. no \in Process /\ Reached(no) /\ Kept(no)
    BY <1>1 DEF Process, Steps, Reached, Kept
  <2>3. QED
    BY <1>2, <2>1, <2>2, OneStep DEF CreateKeeper
<1>3. CASE IsNetwork(node, LOCALNET)
  <2>1. /\ proc' = [proc EXCEPT ![p] = on]
        /\ keeper' = [keeper EXCEPT ![node] = IF @ = "none" THEN "bare" ELSE @]
        /\ UNCHANGED <<shell, files>>
    BY <1>3 DEF CreateKeeper, Goes
  <2>2. on \in Process /\ Reached(on)
    BY <1>1 DEF Process, Steps, Reached
  <2>3. NetTypeOK'
    BY <1>1, <2>1, <2>2 DEF NetInv, NetTypeOK
  <2>4. LocalKeepers'
    BY <1>1, <1>3, <2>1 DEF NetInv, NetTypeOK, LocalKeepers, IsNetwork
  <2>5. \A s \in Servers : keeper[s] = "funded" => keeper'[s] = "funded"
    BY <2>1 DEF NetInv, NetTypeOK
  <2>6. ASSUME NEW q \in Procs PROVE Reached(proc'[q]) /\ Kept(proc[q])'
    <3>1. CASE q = p
      <4>1. proc'[q] = on
        BY <2>1, <3>1 DEF NetInv, NetTypeOK
      <4>2. on.at = "fund" /\ on.kind = "demo" /\ on.node = node
        BY <1>1 DEF Process
      <4>3. QED
        BY <1>3, <2>2, <4>1, <4>2 DEF Kept, IsNetwork
    <3>2. CASE q # p
      <4>1. proc'[q] = proc[q] /\ Reached(proc[q]) /\ Kept(proc[q])
        BY <2>1, <3>2 DEF NetInv, NetTypeOK
      <4>2. proc[q].at = "transacts" => proc[q].node \in Servers
        BY <4>1 DEF Reached
      <4>3. QED
        BY <2>5, <4>1, <4>2 DEF Kept
    <3>3. QED
      BY <3>1, <3>2
  <2>7. QED
    BY <2>3, <2>4, <2>6 DEF NetInv, Reached
<1>4. QED
  BY <1>2, <1>3

LEMMA FundKeeperNet ==
  ASSUME NetInv, NEW p \in Procs, FundKeeper(p)
  PROVE  NetInv'
<1> DEFINE j  == proc[p]
           on == [j EXCEPT !.at = "transacts"]
<1>1. /\ j \in Process /\ j.at = "fund" /\ Reached(j) /\ Kept(j)
      /\ j.node \in Servers
  BY DEF NetInv, NetTypeOK, FundKeeper, At, Reached
<1>2. /\ proc' = [proc EXCEPT ![p] = on]
      /\ keeper' = [keeper EXCEPT ![j.node] = "funded"]
      /\ UNCHANGED <<shell, files>>
  BY DEF FundKeeper, Goes
<1>3. on \in Process /\ Reached(on)
  BY <1>1 DEF Process, Steps, Reached
<1>4. NetTypeOK'
  BY <1>1, <1>2, <1>3 DEF NetInv, NetTypeOK
<1>5. LocalKeepers'
  BY <1>1, <1>2 DEF NetInv, NetTypeOK, LocalKeepers, Kept
<1>6. /\ keeper'[j.node] = "funded"
      /\ \A s \in Servers : keeper[s] = "funded" => keeper'[s] = "funded"
  BY <1>1, <1>2 DEF NetInv, NetTypeOK
<1>7. ASSUME NEW q \in Procs PROVE Reached(proc'[q]) /\ Kept(proc[q])'
  <2>1. CASE q = p
    <3>1. proc'[q] = on
      BY <1>2, <2>1 DEF NetInv, NetTypeOK
    <3>2. on.at = "transacts" /\ on.node = j.node
      BY <1>1 DEF Process
    <3>3. QED
      BY <1>3, <1>6, <3>1, <3>2 DEF Kept
  <2>2. CASE q # p
    <3>1. proc'[q] = proc[q] /\ Reached(proc[q]) /\ Kept(proc[q])
      BY <1>2, <2>2 DEF NetInv, NetTypeOK
    <3>2. proc[q].at = "transacts" => proc[q].node \in Servers
      BY <3>1 DEF Reached
    <3>3. QED
      BY <1>6, <3>1, <3>2 DEF Kept
  <2>3. QED
    BY <2>1, <2>2
<1>8. QED
  BY <1>4, <1>5, <1>7 DEF NetInv, Reached

LEMMA EndsNet ==
  ASSUME NetInv, NEW p \in Procs, Ends(p)
  PROVE  NetInv'
<1>1. NoProc \in Process /\ Reached(NoProc) /\ Kept(NoProc)
  BY DEF NoProc, Process, Kinds, Steps, Env, Reached, Kept
<1>2. QED
  BY <1>1, OneStep DEF Ends

\* The operator's edits reach no process that has begun.
LEMMA EditNet == NetInv /\ EditEnv => NetInv'
<1> SUFFICES ASSUME NetInv, EditEnv PROVE NetInv'
  OBVIOUS
<1>1. UNCHANGED <<proc, keeper>>
  BY DEF EditEnv
<1>2. shell' \in Env
      /\ files' \in [NETWORKS \cup {"default"} -> Servers \cup {None, Absent}]
  BY DEF EditEnv, NetInv, NetTypeOK
<1>3. QED
  BY <1>1, <1>2 DEF NetInv, NetTypeOK, LocalKeepers, Reached, Kept

\* A step on the way of a build or a verification.
LEMMA WalkNet ==
  ASSUME NetInv, NEW p \in Procs, NEW s \in Steps,
         s \notin {"assert", "fund", "transacts"},
         s \in {"local", "load"} => proc[p].kind \in Verifiers,
         s \in Connected => proc[p].at = "connected",
         Goes(p, s), Stays, proc[p].at # "idle"
  PROVE  NetInv'
<1> DEFINE on == [proc[p] EXCEPT !.at = s]
<1>1. proc[p] \in Process /\ Reached(proc[p])
  BY DEF NetInv, NetTypeOK
<1>2. on \in Process /\ Reached(on) /\ Kept(on)
  BY <1>1 DEF Process, Steps, Reached, Kept
<1>3. QED
  BY <1>2, OneStep DEF Goes, Stays

LEMMA StartVerifyNet ==
  ASSUME NetInv, NEW p \in Procs, NEW n \in NETWORKS, NEW c \in Contracts,
         NEW rebuild \in BOOLEAN, StartVerify(p, n, c, rebuild)
  PROVE  NetInv'
<1> DEFINE j == [kind |-> IF rebuild THEN "verify" ELSE "compare",
                 at |-> FirstOf(rebuild), asked |-> n, env |-> shell,
                 node |-> None]
<1>1. j \in Process
  BY DEF NetInv, NetTypeOK, Process, Steps, FirstOf
<1>2. Reached(j) /\ Kept(j)
  BY DEF Reached, Kept, FirstOf
<1>3. QED
  BY <1>1, <1>2, OneStep DEF StartVerify, Start

LEMMA StartMainNet ==
  ASSUME NetInv, NEW p \in Procs, NEW action \in {"build", "deploy", "all"},
         NEW todo, StartMain(p, action, todo)
  PROVE  NetInv'
<1> DEFINE j == [kind |-> action,
                 at |-> IF action = "deploy" THEN "spec" ELSE "clear",
                 asked |-> None, env |-> Loaded(shell, files["default"]),
                 node |-> None]
<1>1. Loaded(shell, files["default"]) \in Env
  BY LoadedFits DEF NetInv, NetTypeOK
<1>2. j \in Process /\ Reached(j) /\ Kept(j)
  BY <1>1 DEF Process, Steps, Reached, Kept
<1>3. QED
  BY <1>2, OneStep DEF StartMain, Stays

LEMMA BuildsNet ==
  ASSUME NetInv, NEW p \in Procs, Builds(p)
  PROVE  NetInv'
<1> DEFINE j == proc[p]
<1>1. j \in Process /\ Reached(j)
  BY DEF NetInv, NetTypeOK
<1>2. CASE Clear(p)
  BY <1>2, WalkNet DEF Clear, At, Steps
<1>3. CASE ReadSource(p)
  BY <1>3, WalkNet DEF ReadSource, At, Steps
<1>4. CASE WriteSpec(p)
  BY <1>4, WalkNet DEF WriteSpec, At, Steps
<1>5. CASE Generate(p)
  <2>1. PICK s \in {"deploy", "clear", "local", "built"} :
            Goes(p, s) /\ (s = "local" => j.kind = "verify")
    BY <1>5 DEF Generate, BuiltOne
  <2>2. QED
    BY <1>5, <2>1, WalkNet DEF Generate, At, Steps
<1>6. CASE BuildFails(p)
  BY <1>6, WalkNet DEF BuildFails, Steps
<1>7. CASE FindSpec(p)
  BY <1>7, WalkNet DEF FindSpec, At, Steps
<1>8. CASE Deploy(p)
  <2>1. PICK s \in {"failed", "deployed"} : Goes(p, s)
    BY <1>8 DEF Deploy
  <2>2. QED
    BY <1>8, <2>1, WalkNet DEF Deploy, At, Steps
<1>9. CASE NextContract(p)
  BY <1>9, WalkNet DEF NextContract, At, Steps
<1>10. CASE ReadLocal(p)
  <2>1. PICK s \in {"failed", "load"} : Goes(p, s)
    BY <1>10 DEF ReadLocal
  <2>2. j.at = "local" /\ j.kind \in Verifiers
    BY <1>1, <1>10 DEF ReadLocal, At, Reached
  <2>3. QED
    BY <1>10, <2>1, <2>2, WalkNet DEF ReadLocal, Steps
<1>11. CASE Compare(p)
  <2>1. PICK s \in {"matches", "differs"} : Goes(p, s)
    BY <1>11 DEF Compare
  <2>2. QED
    BY <1>11, <2>1, WalkNet DEF Compare, At, Steps
<1>12. QED
  BY <1>2, <1>3, <1>4, <1>5, <1>6, <1>7, <1>8, <1>9, <1>10, <1>11 DEF Builds

LEMMA NetStep == NetInv /\ [NetNext]_netVars => NetInv'
<1> SUFFICES ASSUME NetInv, [NetNext]_netVars PROVE NetInv'
  OBVIOUS
<1>1. CASE EditEnv
  BY <1>1, EditNet
<1>2. ASSUME NEW p \in Procs, Connects(p) PROVE NetInv'
  BY <1>2, LoadNet, AssertNet, TransactNet, CreateKeeperNet, FundKeeperNet
  DEF Connects
<1>3. ASSUME NEW p \in Procs, Ends(p) PROVE NetInv'
  BY <1>3, EndsNet
<1>4. ASSUME NEW p \in Procs, NEW n \in NETWORKS,
             NEW kind \in {"script", "demo"}, Start(p, kind, n, "load")
      PROVE  NetInv'
  BY <1>4, StartNet
<1>5. CASE UNCHANGED netVars
  BY <1>5 DEF netVars, NetInv, NetTypeOK, LocalKeepers, Reached, Kept
<1>6. QED
  BY <1>1, <1>2, <1>3, <1>4, <1>5 DEF NetNext

LEMMA NetReleaseStep == NetInv /\ [ReleaseNext]_vars => NetInv'
<1> SUFFICES ASSUME NetInv, [ReleaseNext]_vars PROVE NetInv'
  OBVIOUS
<1>1. CASE Connecting
  BY <1>1, NetStep DEF Connecting, NetNext
<1>2. CASE UNCHANGED netVars
  BY <1>2, NetStep
<1>3. ASSUME NEW c \in Contracts, EditTree(c) PROVE NetInv'
  BY <1>3 DEF EditTree, NetInv, NetTypeOK, LocalKeepers, Reached, Kept
<1>4. ASSUME NEW s \in Servers, NEW c \in Contracts, Deployed(s, c)
      PROVE  NetInv'
  BY <1>2, <1>4 DEF Deployed
<1>5. ASSUME NEW p \in Procs, Builds(p) PROVE NetInv'
  BY <1>5, BuildsNet
<1>6. ASSUME NEW p \in Procs, Over(p) PROVE NetInv'
  BY <1>6, EndsNet DEF Over
<1>7. ASSUME NEW p \in Procs, NEW n \in NETWORKS, NEW c \in Contracts,
             NEW rebuild \in BOOLEAN, StartVerify(p, n, c, rebuild)
      PROVE  NetInv'
  BY <1>7, StartVerifyNet
<1>8. ASSUME NEW p \in Procs, NEW action \in {"build", "deploy", "all"},
             NEW todo \in SUBSET Contracts \ {{}}, StartMain(p, action, todo)
      PROVE  NetInv'
  BY <1>8, StartMainNet
<1>9. QED
  BY <1>1, <1>2, <1>3, <1>4, <1>5, <1>6, <1>7, <1>8 DEF ReleaseNext, vars

LEMMA InvNetworkAsked == NetInv => NetworkAsked
<1> SUFFICES ASSUME NetInv PROVE NetworkAsked
  OBVIOUS
<1>1. ASSUME NEW p \in Procs, At(p, "transacts")
      PROVE  /\ GenesisOf[proc[p].node] \in GenesisIds[proc[p].asked]
             /\ proc[p].asked # MAINNET
             /\ proc[p].kind = "demo" => keeper[proc[p].node] = "funded"
  BY <1>1 DEF NetInv, At, Reached, Kept
<1>2. QED
  BY <1>1 DEF NetworkAsked, NetInv, LocalKeepers

\* Whatever is exported and whatever the files say, what goes through connect
\* transacts on the network that was asked for and never on MainNet, and a
\* demonstration with a keeper that can pay (network.py:212-274,
\* arcron.py:547-600); builds and verifications beside it change nothing.
THEOREM AlwaysTheNetworkAsked == NetSpec \/ ReleaseSpec => []NetworkAsked
<1>1. NetSpec => []NetworkAsked
  BY InvNetworkAsked, InitNet, NetStep, PTL DEF NetSpec
<1>2. ReleaseSpec => []NetworkAsked
  BY InvNetworkAsked, InitNet, NetReleaseStep, PTL DEF ReleaseSpec
<1>3. QED
  BY <1>1, <1>2

-----------------------------------------------------------------------------
(* What the artifacts directory holds *)

Builders  == {"build", "all", "verify"}
Artifacts == [spec : Versions \cup {None}, client : Versions \cup {None}]
App       == [server : Servers, of : Contracts, version : 0 .. MaxVersion]
Work      == [todo : SUBSET Contracts, now : Contracts \cup {None},
              read : Versions \cup {None}, of : Contracts \cup {None},
              local : Versions \cup {None}, app : App \cup {None},
              recent : [Contracts -> SUBSET Versions]]

ReleaseTypeOK ==
    /\ tree \in [Contracts -> Versions]
    /\ art \in [Contracts -> Artifacts]
    /\ apps \subseteq App
    /\ work \in [Procs -> Work]

\* What a build or a verification knows by the step it has reached.
Knows(j, w) ==
    /\ IF j.at = "write" THEN w.read \in Versions ELSE w.read = None
    /\ j.at \in {"clear", "read", "write", "generate"} => j.kind \in Builders
    /\ j.at = "spec" => j.kind = "deploy"
    /\ j.at \in {"deploy", "deployed"} => j.kind \in {"all", "deploy"}
    /\ j.at \in {"read", "write", "generate", "deploy", "deployed"} =>
          w.now \in Contracts
    /\ j.at # "idle" /\ j.kind \in Verifiers => w.of \in Contracts
    /\ j.at \in {"local"} \cup Connecteds /\ j.kind = "verify" => w.todo = {}
    /\ j.at \in Connecteds /\ j.kind \in Verifiers => w.local \in Versions
    /\ j.at \in Connecteds /\ j.kind = "verify" => w.local \in w.recent[w.of]
    /\ j.at = "deployed" /\ j.kind = "all" =>
          w.app.version \in w.recent[w.now]
    /\ j.at \in {"matches", "differs"} =>
          /\ j.kind \in Verifiers /\ w.app \in App /\ w.app.server = j.node
          /\ j.at = "matches" <=> w.app.of = w.of /\ w.app.version = w.local

\* The contracts whose artifacts it has removed.
Cleared(j, w) ==
    {c \in Contracts :
        \/ j.kind = "verify" /\ c \notin w.todo
        \/ /\ j.kind \in Builders /\ c = w.now
           /\ j.at \in {"read", "write", "generate", "deploy", "deployed"}}

Busy(j) == j.at # "idle" /\ j.kind \in Workers

\* None of them is made again of an older tree: not by itself, and not by
\* whoever has read and not yet written.
Made(a, versions) == a.spec \in versions \cup {None}
                     /\ a.client \in versions \cup {None}

SeesTree(w)  == \A c \in Contracts : tree[c] \in w.recent[c]
SeesReads(w) == \A q \in Procs : At(q, "write") =>
                    work[q].read \in w.recent[work[q].now]
SeesArt(j, w) == \A c \in Cleared(j, w) : Made(art[c], w.recent[c])

Sees(j, w) == Busy(j) => SeesTree(w) /\ SeesReads(w) /\ SeesArt(j, w)

ReleaseInv ==
    /\ NetInv
    /\ ReleaseTypeOK
    /\ \A p \in Procs : Knows(proc[p], work[p]) /\ Sees(proc[p], work[p])

LEMMA InitRelease == NetInit /\ ReleaseInit => ReleaseInv
<1> SUFFICES ASSUME NetInit, ReleaseInit PROVE ReleaseInv
  OBVIOUS
<1>1. 1 \in Versions /\ NoWork \in Work
  BY VersionAssumption DEF Versions, NoWork, Work
<1>2. ReleaseTypeOK
  BY <1>1 DEF ReleaseInit, ReleaseTypeOK, Artifacts
<1>3. ASSUME NEW p \in Procs PROVE Knows(proc[p], work[p]) /\ Sees(proc[p], work[p])
  <2>1. proc[p].at = "idle" /\ work[p].read = None
    BY DEF NetInit, ReleaseInit, NoProc, NoWork
  <2>2. QED
    BY <2>1 DEF Knows, Sees, Busy
<1>4. QED
  BY <1>2, <1>3, InitNet DEF ReleaseInv

\* A step of one process that is under way, and may change the artifacts.
LEMMA GoesOn ==
  ASSUME ReleaseInv, NetInv', NEW p \in Procs, NEW j, NEW w \in Work,
         NEW a \in [Contracts -> Artifacts],
         proc' = [proc EXCEPT ![p] = j], work' = [work EXCEPT ![p] = w],
         art' = a, tree' = tree, apps' \subseteq App,
         proc[p].at # "idle", j.kind = proc[p].kind, j.at # "write",
         w.recent = work[p].recent,
         Knows(j, w),
         \A q \in Procs : Busy(proc[q]) =>
             \A c \in Cleared(proc[q], work[q]) : Made(a[c], work[q].recent[c]),
         Busy(proc[p]) => \A c \in Cleared(j, w) : Made(a[c], w.recent[c])
  PROVE  ReleaseInv'
<1>1. ReleaseTypeOK'
  BY DEF ReleaseInv, ReleaseTypeOK
<1>2. proc \in [Procs -> Process] /\ work \in [Procs -> Work]
  BY DEF ReleaseInv, NetInv, NetTypeOK, ReleaseTypeOK
<1>3. /\ proc'[p] = j /\ work'[p] = w
      /\ \A q \in Procs : q # p => proc'[q] = proc[q] /\ work'[q] = work[q]
  BY <1>2
<1>4. \A q \in Procs : proc'[q].at = "write" =>
          q # p /\ proc[q].at = "write" /\ work'[q] = work[q]
  BY <1>3
<1>5. ASSUME NEW q \in Procs PROVE (Knows(proc[q], work[q]) /\ Sees(proc[q], work[q]))'
  <2>1. Knows(proc[q], work[q]) /\ Sees(proc[q], work[q])
    BY DEF ReleaseInv
  <2>2. Knows(proc[q], work[q])'
    BY <1>3, <2>1 DEF Knows
  <2>3. CASE ~Busy(proc[q])'
    BY <2>2, <2>3 DEF Sees
  <2>4. CASE Busy(proc[q])'
    <3>1. /\ Busy(proc[q]) /\ work'[q].recent = work[q].recent
      BY <1>3, <2>4 DEF Busy
    <3>2. SeesTree(work[q])'
      BY <2>1, <3>1 DEF Sees, SeesTree
    <3>3. SeesReads(work[q])'
      BY <1>4, <2>1, <3>1 DEF Sees, SeesReads, At
    <3>4. SeesArt(proc[q], work[q])'
      <4>1. CASE q = p
        BY <1>3, <3>1, <4>1 DEF SeesArt
      <4>2. CASE q # p
        BY <1>3, <3>1, <4>2 DEF SeesArt
      <4>3. QED
        BY <4>1, <4>2
    <3>5. QED
      BY <2>2, <2>4, <3>2, <3>3, <3>4 DEF Sees
  <2>5. QED
    BY <2>2, <2>3, <2>4
<1>6. QED
  BY <1>1, <1>5 DEF ReleaseInv

\* One that leaves them alone, and claims no more of them.
LEMMA WalksOn ==
  ASSUME ReleaseInv, NetInv', NEW p \in Procs, NEW j, NEW w \in Work,
         proc' = [proc EXCEPT ![p] = j], work' = [work EXCEPT ![p] = w],
         UNCHANGED <<art, tree>>, apps' \subseteq App,
         proc[p].at # "idle", j.kind = proc[p].kind, j.at # "write",
         w.recent = work[p].recent,
         Knows(j, w), Cleared(j, w) \subseteq Cleared(proc[p], work[p])
  PROVE  ReleaseInv'
<1>1. art \in [Contracts -> Artifacts]
  BY DEF ReleaseInv, ReleaseTypeOK
<1>2. \A q \in Procs : Busy(proc[q]) =>
          \A c \in Cleared(proc[q], work[q]) : Made(art[c], work[q].recent[c])
  BY DEF ReleaseInv, Sees, SeesArt
<1>3. Busy(proc[p]) => \A c \in Cleared(j, w) : Made(art[c], w.recent[c])
  BY <1>2
<1>4. QED
  BY <1>1, <1>2, <1>3, GoesOn

LEMMA Known ==
  ASSUME ReleaseInv, NEW p \in Procs
  PROVE  /\ proc[p] \in Process /\ work[p] \in Work /\ Reached(proc[p])
         /\ Knows(proc[p], work[p]) /\ Sees(proc[p], work[p])
         /\ art \in [Contracts -> Artifacts] /\ tree \in [Contracts -> Versions]
  BY DEF ReleaseInv, NetInv, NetTypeOK, ReleaseTypeOK

LEMMA ClearKeeps ==
  ASSUME ReleaseInv, NetInv', NEW p \in Procs, Clear(p)
  PROVE  ReleaseInv'
<1>1. PICK c \in work[p].todo :
          /\ art' = [art EXCEPT ![c] = [spec |-> None, client |-> None]]
          /\ work' = [work EXCEPT ![p] = [work[p] EXCEPT !.now = c]]
  BY DEF Clear, Works
<1> DEFINE j == [proc[p] EXCEPT !.at = "read"]
           w == [work[p] EXCEPT !.now = c]
           a == [art EXCEPT ![c] = [spec |-> None, client |-> None]]
<1>2. /\ proc[p] \in Process /\ work[p] \in Work /\ proc[p].at = "clear"
      /\ Knows(proc[p], work[p]) /\ art \in [Contracts -> Artifacts]
  BY Known DEF Clear, At
<1>3. c \in Contracts /\ w \in Work /\ a \in [Contracts -> Artifacts]
  BY <1>2 DEF Work, Artifacts
<1>4. j.at = "read" /\ j.kind = proc[p].kind
  BY <1>2 DEF Process
<1>5. w.now = c /\ w.todo = work[p].todo /\ w.read = work[p].read
      /\ w.of = work[p].of /\ w.recent = work[p].recent
  BY <1>2 DEF Work
<1>6. Knows(j, w)
  BY <1>2, <1>3, <1>4, <1>5 DEF Knows
<1>7. \A versions : \A d \in Contracts :
          Made(art[d], versions) => Made(a[d], versions)
  BY <1>2 DEF Made
<1>8. \A q \in Procs : Busy(proc[q]) =>
          \A d \in Cleared(proc[q], work[q]) : Made(a[d], work[q].recent[d])
  BY <1>7 DEF ReleaseInv, Sees, SeesArt, Cleared
<1>9. Busy(proc[p]) => \A d \in Cleared(j, w) : Made(a[d], w.recent[d])
  <2>1. Made(a[c], w.recent[c])
    BY <1>2, <1>3 DEF Made
  <2>2. Cleared(j, w) \subseteq Cleared(proc[p], work[p]) \cup {c}
    BY <1>4, <1>5 DEF Cleared
  <2>3. QED
    BY <1>5, <1>8, <2>1, <2>2
<1>10. QED
  BY <1>1, <1>2, <1>3, <1>4, <1>5, <1>6, <1>8, <1>9, GoesOn
  DEF Clear, Goes, ReleaseInv, ReleaseTypeOK

\* What is read now every process that is under way has seen.
LEMMA ReadSourceKeeps ==
  ASSUME ReleaseInv, NetInv', NEW p \in Procs, ReadSource(p)
  PROVE  ReleaseInv'
<1> DEFINE c == work[p].now
           w == [work[p] EXCEPT !.read = tree[c]]
<1>1. /\ proc[p] \in Process /\ work[p] \in Work /\ proc[p].at = "read"
      /\ Knows(proc[p], work[p]) /\ tree \in [Contracts -> Versions]
  BY Known DEF ReadSource, At
<1>2. c \in Contracts /\ w \in Work
  BY <1>1 DEF Knows, Work
<1>3. /\ proc \in [Procs -> Process] /\ work \in [Procs -> Work]
      /\ proc' = [proc EXCEPT ![p].at = "write"]
      /\ work' = [work EXCEPT ![p] = w] /\ UNCHANGED <<tree, art, apps>>
  BY DEF ReleaseInv, NetInv, NetTypeOK, ReleaseTypeOK, ReadSource, Goes, Works
<1>4. ReleaseTypeOK'
  BY <1>2, <1>3 DEF ReleaseInv, ReleaseTypeOK
<1>5. /\ proc'[p].at = "write" /\ proc'[p].kind = proc[p].kind
      /\ work'[p].read = tree[c] /\ work'[p].now = c
      /\ work'[p].todo = work[p].todo /\ work'[p].of = work[p].of
      /\ work'[p].recent = work[p].recent
  BY <1>1, <1>3 DEF Process, Work
<1>6. \A q \in Procs : q # p => proc'[q] = proc[q] /\ work'[q] = work[q]
  BY <1>3
<1>7. ASSUME NEW q \in Procs PROVE (Knows(proc[q], work[q]) /\ Sees(proc[q], work[q]))'
  <2>1. Knows(proc[q], work[q]) /\ Sees(proc[q], work[q])
    BY DEF ReleaseInv
  <2>2. Knows(proc[q], work[q])'
    <3>1. CASE q = p
      BY <1>1, <1>2, <1>5, <3>1 DEF Knows
    <3>2. CASE q # p
      BY <1>6, <2>1, <3>2 DEF Knows
    <3>3. QED
      BY <3>1, <3>2
  <2>3. CASE ~Busy(proc[q])'
    BY <2>2, <2>3 DEF Sees
  <2>4. CASE Busy(proc[q])'
    <3>1. Busy(proc[q]) /\ work'[q].recent = work[q].recent
      BY <1>1, <1>5, <1>6, <2>4 DEF Busy
    <3>2. SeesTree(work[q]) /\ SeesReads(work[q]) /\ SeesArt(proc[q], work[q])
      BY <2>1, <3>1 DEF Sees
    <3>3. SeesTree(work[q])'
      BY <1>3, <3>1, <3>2 DEF SeesTree
    <3>4. SeesReads(work[q])'
      BY <1>2, <1>5, <1>6, <3>1, <3>2 DEF SeesReads, SeesTree, At
    <3>5. Cleared(proc[q], work[q])' = Cleared(proc[q], work[q])
      BY <1>1, <1>5, <1>6 DEF Cleared
    <3>6. SeesArt(proc[q], work[q])'
      BY <1>3, <3>1, <3>2, <3>5 DEF SeesArt
    <3>7. QED
      BY <2>2, <3>3, <3>4, <3>6 DEF Sees
  <2>5. QED
    BY <2>3, <2>4
<1>8. QED
  BY <1>4, <1>7 DEF ReleaseInv

\* What is written every process that has cleared it has seen.
LEMMA WriteSpecKeeps ==
  ASSUME ReleaseInv, NetInv', NEW p \in Procs, WriteSpec(p)
  PROVE  ReleaseInv'
<1> DEFINE c == work[p].now
           j == [proc[p] EXCEPT !.at = "generate"]
           w == [work[p] EXCEPT !.read = None]
           a == [art EXCEPT ![c].spec = work[p].read]
<1>1. /\ proc[p] \in Process /\ work[p] \in Work /\ proc[p].at = "write"
      /\ Knows(proc[p], work[p]) /\ art \in [Contracts -> Artifacts]
  BY Known DEF WriteSpec, At
<1>2. /\ c \in Contracts /\ work[p].read \in Versions
      /\ w \in Work /\ a \in [Contracts -> Artifacts]
  BY <1>1 DEF Knows, Work, Artifacts
<1>3. j.at = "generate" /\ j.kind = proc[p].kind
  BY <1>1 DEF Process
<1>4. /\ w.now = c /\ w.todo = work[p].todo /\ w.read = None
      /\ w.of = work[p].of /\ w.recent = work[p].recent
  BY <1>1 DEF Work
<1>5. Knows(j, w)
  BY <1>1, <1>2, <1>3, <1>4 DEF Knows
<1>6. /\ a[c] = [art[c] EXCEPT !.spec = work[p].read]
      /\ \A d \in Contracts : d # c => a[d] = art[d]
  BY <1>1, <1>2
<1>7. ASSUME NEW q \in Procs, Busy(proc[q]), NEW d \in Cleared(proc[q], work[q])
      PROVE  Made(a[d], work[q].recent[d])
  <2>1. d \in Contracts /\ Made(art[d], work[q].recent[d])
    BY <1>7 DEF ReleaseInv, Sees, SeesArt, Cleared
  <2>2. work[p].read \in work[q].recent[c]
    BY <1>1, <1>7 DEF ReleaseInv, Sees, SeesReads, At
  <2>3. art[d] \in Artifacts
    BY <1>1, <2>1
  <2>4. QED
    BY <1>6, <2>1, <2>2, <2>3 DEF Made, Artifacts
<1>8. Cleared(j, w) = Cleared(proc[p], work[p])
  BY <1>1, <1>3, <1>4 DEF Cleared
<1>9. Busy(proc[p]) => \A d \in Cleared(j, w) : Made(a[d], w.recent[d])
  BY <1>4, <1>7, <1>8
<1>10. /\ proc' = [proc EXCEPT ![p] = j] /\ work' = [work EXCEPT ![p] = w]
       /\ art' = a /\ tree' = tree /\ apps' \subseteq App
  BY DEF WriteSpec, Goes, Works, ReleaseInv, ReleaseTypeOK
<1>11. QED
  BY <1>1, <1>2, <1>3, <1>4, <1>5, <1>7, <1>9, <1>10, GoesOn

\* The client is as new as the file it is generated from.
LEMMA GenerateKeeps ==
  ASSUME ReleaseInv, NetInv', NEW p \in Procs, Generate(p)
  PROVE  ReleaseInv'
<1> DEFINE c == work[p].now
           left == work[p].todo \ {c}
           kind == proc[p].kind
           s == IF kind = "all" THEN "deploy" ELSE IF left # {} THEN "clear"
                ELSE IF kind = "verify" THEN "local" ELSE "built"
           j == [proc[p] EXCEPT !.at = s]
           w == [work[p] EXCEPT !.todo = left,
                                !.now = IF kind = "all" THEN @ ELSE None]
           a == IF art[c].spec = None THEN art
                ELSE [art EXCEPT ![c].client = art[c].spec]
<1>1. /\ proc[p] \in Process /\ work[p] \in Work /\ proc[p].at = "generate"
      /\ Knows(proc[p], work[p]) /\ art \in [Contracts -> Artifacts]
  BY Known DEF Generate, At
<1>2. c \in Contracts /\ kind \in Builders /\ work[p].read = None
  BY <1>1 DEF Knows
<1>3. w \in Work
  BY <1>1 DEF Work
<1>4. a \in [Contracts -> Artifacts]
  <2>1. art[c] \in Artifacts
    BY <1>1, <1>2
  <2>2. [art[c] EXCEPT !.client = art[c].spec] \in Artifacts
    BY <2>1 DEF Artifacts
  <2>3. QED
    BY <1>1, <2>2
<1>5. j.at = s /\ j.kind = kind /\ s # "write" /\ s # "idle"
  BY <1>1 DEF Process
<1>6. /\ w.now = IF kind = "all" THEN c ELSE None
      /\ w.todo = left /\ w.read = None /\ w.of = work[p].of
      /\ w.recent = work[p].recent
  BY <1>1, <1>2 DEF Work
<1>7. Knows(j, w)
  BY <1>1, <1>2, <1>5, <1>6 DEF Knows, Builders
<1>8. ASSUME NEW q \in Procs, Busy(proc[q]), NEW d \in Cleared(proc[q], work[q])
      PROVE  Made(a[d], work[q].recent[d])
  <2>1. d \in Contracts /\ Made(art[d], work[q].recent[d])
    BY <1>8 DEF ReleaseInv, Sees, SeesArt, Cleared
  <2>2. art[d] \in Artifacts
    BY <1>1, <2>1
  <2>3. a[d] = art[d] \/ a[d] = [art[d] EXCEPT !.client = art[d].spec]
    BY <1>1, <1>2, <2>1
  <2>4. QED
    BY <2>1, <2>2, <2>3 DEF Made, Artifacts
<1>9. Cleared(j, w) \subseteq Cleared(proc[p], work[p])
  BY <1>1, <1>2, <1>5, <1>6 DEF Cleared, Builders
<1>10. Busy(proc[p]) => \A d \in Cleared(j, w) : Made(a[d], w.recent[d])
  BY <1>6, <1>8, <1>9
<1>11. /\ proc' = [proc EXCEPT ![p] = j] /\ work' = [work EXCEPT ![p] = w]
       /\ art' = a /\ tree' = tree /\ apps' \subseteq App
  BY DEF Generate, BuiltOne, Goes, Works, ReleaseInv, ReleaseTypeOK
<1> HIDE DEF j, w, a
<1>12. QED
  BY <1>1, <1>3, <1>4, <1>5, <1>6, <1>7, <1>8, <1>10, <1>11, GoesOn

LEMMA BuildFailsKeeps ==
  ASSUME ReleaseInv, NetInv', NEW p \in Procs, BuildFails(p)
  PROVE  ReleaseInv'
<1> DEFINE j == [proc[p] EXCEPT !.at = "failed"]
           w == [work[p] EXCEPT !.read = None, !.now = None]
<1>1. /\ proc[p] \in Process /\ work[p] \in Work
      /\ proc[p].at \in {"write", "generate"} /\ Knows(proc[p], work[p])
  BY Known DEF BuildFails
<1>2. w \in Work /\ j.at = "failed" /\ j.kind = proc[p].kind
  BY <1>1 DEF Work, Process
<1>3. /\ w.read = None /\ w.todo = work[p].todo /\ w.of = work[p].of
      /\ w.recent = work[p].recent
  BY <1>1 DEF Work
<1>4. Knows(j, w) /\ Cleared(j, w) \subseteq Cleared(proc[p], work[p])
  BY <1>1, <1>2, <1>3 DEF Knows, Cleared
<1>5. /\ proc' = [proc EXCEPT ![p] = j] /\ work' = [work EXCEPT ![p] = w]
      /\ UNCHANGED <<art, tree>> /\ apps' \subseteq App
  BY DEF BuildFails, Goes, Works, ReleaseInv, ReleaseTypeOK
<1>6. QED
  BY <1>1, <1>2, <1>3, <1>4, <1>5, WalksOn

LEMMA FindSpecKeeps ==
  ASSUME ReleaseInv, NetInv', NEW p \in Procs, FindSpec(p)
  PROVE  ReleaseInv'
<1>1. PICK c \in work[p].todo :
          /\ work' = [work EXCEPT ![p] =
                         [work[p] EXCEPT !.todo = @ \ {c}, !.now = c]]
          /\ Goes(p, IF art[c].spec = None THEN "failed" ELSE "deploy")
  BY DEF FindSpec, Works
<1> DEFINE j == [proc[p] EXCEPT
                     !.at = IF art[c].spec = None THEN "failed" ELSE "deploy"]
           w == [work[p] EXCEPT !.todo = @ \ {c}, !.now = c]
<1>2. /\ proc[p] \in Process /\ work[p] \in Work /\ proc[p].at = "spec"
      /\ Knows(proc[p], work[p])
  BY Known DEF FindSpec, At
<1>3. c \in Contracts /\ w \in Work /\ proc[p].kind = "deploy"
  BY <1>2 DEF Work, Knows
<1>4. /\ j.at \in {"failed", "deploy"} /\ j.kind = "deploy"
      /\ w.now = c /\ w.read = work[p].read /\ w.of = work[p].of
      /\ w.recent = work[p].recent
  BY <1>2, <1>3 DEF Process, Work
<1>5. Knows(j, w) /\ Cleared(j, w) \subseteq Cleared(proc[p], work[p])
  BY <1>2, <1>3, <1>4 DEF Knows, Cleared, Builders
<1>6. /\ proc' = [proc EXCEPT ![p] = j] /\ work' = [work EXCEPT ![p] = w]
      /\ UNCHANGED <<art, tree>> /\ apps' \subseteq App
  BY <1>1 DEF FindSpec, Goes, ReleaseInv, ReleaseTypeOK
<1>7. QED
  BY <1>2, <1>3, <1>4, <1>5, <1>6, WalksOn

\* all has just built what it deploys.
LEMMA DeployKeeps ==
  ASSUME ReleaseInv, NetInv', NEW p \in Procs, Deploy(p)
  PROVE  ReleaseInv'
<1> DEFINE c   == work[p].now
           app == [server |-> FromEnvironment(proc[p].env),
                   of |-> c, version |-> art[c].client]
           no  == [proc[p] EXCEPT !.at = "failed"]
           on  == [proc[p] EXCEPT !.at = "deployed"]
           w   == [work[p] EXCEPT !.app = app]
<1>1. /\ proc[p] \in Process /\ work[p] \in Work /\ proc[p].at = "deploy"
      /\ Knows(proc[p], work[p]) /\ Sees(proc[p], work[p])
      /\ art \in [Contracts -> Artifacts] /\ apps \subseteq App
  BY Known DEF Deploy, At, ReleaseInv, ReleaseTypeOK
<1>2. c \in Contracts /\ proc[p].kind \in {"all", "deploy"}
  BY <1>1 DEF Knows
<1>3. CASE art[c].client = None
  <2>1. /\ proc' = [proc EXCEPT ![p] = no]
        /\ work' = [work EXCEPT ![p] = work[p]]
        /\ UNCHANGED <<art, tree, apps>>
    BY <1>1, <1>3 DEF Deploy, Goes, ReleaseInv, ReleaseTypeOK
  <2>2. no.at = "failed" /\ no.kind = proc[p].kind
    BY <1>1 DEF Process
  <2>3. Knows(no, work[p]) /\ Cleared(no, work[p]) \subseteq Cleared(proc[p], work[p])
    BY <1>1, <2>2 DEF Knows, Cleared
  <2>4. QED
    BY <1>1, <2>1, <2>2, <2>3, WalksOn
<1>4. CASE art[c].client # None
  <2>1. /\ proc' = [proc EXCEPT ![p] = on] /\ work' = [work EXCEPT ![p] = w]
        /\ UNCHANGED <<art, tree>> /\ apps' = apps \cup {app}
    BY <1>4 DEF Deploy, Goes, Works
  <2>2. on.at = "deployed" /\ on.kind = proc[p].kind
    BY <1>1 DEF Process
  <2>3. art[c].client \in Versions
    BY <1>1, <1>2, <1>4 DEF Artifacts
  <2>4. app \in App
    BY <1>1, <1>2, <2>3, ServerFound, VersionAssumption DEF App, Versions, Process
  <2>5. /\ w \in Work /\ w.app = app /\ w.now = c /\ w.read = work[p].read
        /\ w.todo = work[p].todo /\ w.of = work[p].of /\ w.recent = work[p].recent
    BY <1>1, <2>4 DEF Work
  <2>6. proc[p].kind = "all" => art[c].client \in w.recent[c]
    BY <1>1, <1>2, <1>4, <2>5 DEF Sees, Busy, SeesArt, Cleared, Made, Builders
  <2>7. Knows(on, w) /\ Cleared(on, w) \subseteq Cleared(proc[p], work[p])
    BY <1>1, <1>2, <2>2, <2>5, <2>6 DEF Knows, Cleared
  <2>8. apps' \subseteq App
    BY <1>1, <2>1, <2>4
  <2>9. QED
    BY <1>1, <2>1, <2>2, <2>5, <2>7, <2>8, WalksOn
<1>5. QED
  BY <1>3, <1>4

LEMMA NextContractKeeps ==
  ASSUME ReleaseInv, NetInv', NEW p \in Procs, NextContract(p)
  PROVE  ReleaseInv'
<1> DEFINE j == [proc[p] EXCEPT
                     !.at = IF proc[p].kind = "all" THEN "clear" ELSE "spec"]
           w == [work[p] EXCEPT !.app = None, !.now = None]
<1>1. /\ proc[p] \in Process /\ work[p] \in Work /\ proc[p].at = "deployed"
      /\ Knows(proc[p], work[p])
  BY Known DEF NextContract, At
<1>2. proc[p].kind \in {"all", "deploy"} /\ w \in Work
  BY <1>1 DEF Knows, Work
<1>3. /\ j.at = IF proc[p].kind = "all" THEN "clear" ELSE "spec"
      /\ j.kind = proc[p].kind
      /\ w.read = work[p].read /\ w.todo = work[p].todo /\ w.of = work[p].of
      /\ w.recent = work[p].recent
  BY <1>1 DEF Work, Process
<1>4. Knows(j, w) /\ Cleared(j, w) \subseteq Cleared(proc[p], work[p])
  BY <1>1, <1>2, <1>3 DEF Knows, Cleared, Builders
<1>5. /\ proc' = [proc EXCEPT ![p] = j] /\ work' = [work EXCEPT ![p] = w]
      /\ UNCHANGED <<art, tree>> /\ apps' \subseteq App
  BY DEF NextContract, Goes, Works, ReleaseInv, ReleaseTypeOK
<1> HIDE DEF j, w
<1>6. QED
  BY <1>1, <1>2, <1>3, <1>4, <1>5, WalksOn

\* Everything has been built by then, so what verify_build holds is recent.
LEMMA ReadLocalKeeps ==
  ASSUME ReleaseInv, NetInv', NEW p \in Procs, ReadLocal(p)
  PROVE  ReleaseInv'
<1> DEFINE c == work[p].of
           spec == art[c].spec
           j == [proc[p] EXCEPT !.at = IF spec = None THEN "failed" ELSE "load"]
           w == [work[p] EXCEPT !.local = spec]
<1>1. /\ proc[p] \in Process /\ work[p] \in Work /\ proc[p].at = "local"
      /\ Reached(proc[p]) /\ Knows(proc[p], work[p]) /\ Sees(proc[p], work[p])
      /\ art \in [Contracts -> Artifacts]
  BY Known DEF ReadLocal, At
<1>2. proc[p].kind \in Verifiers /\ c \in Contracts
  BY <1>1 DEF Reached, Knows
<1>3. spec \in Versions \cup {None} /\ w \in Work
  BY <1>1, <1>2 DEF Artifacts, Work
<1>4. /\ j.at = IF spec = None THEN "failed" ELSE "load"
      /\ j.kind = proc[p].kind /\ w.local = spec
      /\ w.read = work[p].read /\ w.todo = work[p].todo /\ w.of = c
      /\ w.recent = work[p].recent
  BY <1>1, <1>3 DEF Work, Process
<1>5. proc[p].kind = "verify" => spec \in w.recent[c] \cup {None}
  BY <1>1, <1>2, <1>4 DEF Knows, Sees, Busy, SeesArt, Cleared, Made
<1>6. Knows(j, w) /\ Cleared(j, w) \subseteq Cleared(proc[p], work[p])
  BY <1>1, <1>2, <1>3, <1>4, <1>5 DEF Knows, Cleared
<1>7. /\ proc' = [proc EXCEPT ![p] = j] /\ work' = [work EXCEPT ![p] = w]
      /\ UNCHANGED <<art, tree>> /\ apps' \subseteq App
  BY DEF ReadLocal, Goes, Works, ReleaseInv, ReleaseTypeOK
<1> HIDE DEF j, w, spec
<1>8. QED
  BY <1>1, <1>3, <1>4, <1>6, <1>7, WalksOn

LEMMA CompareKeeps ==
  ASSUME ReleaseInv, NetInv', NEW p \in Procs, Compare(p)
  PROVE  ReleaseInv'
<1>1. PICK app \in apps :
          /\ app.server = proc[p].node
          /\ work' = [work EXCEPT ![p] = [work[p] EXCEPT !.app = app]]
          /\ Goes(p, IF app.of = work[p].of /\ app.version = work[p].local
                     THEN "matches" ELSE "differs")
  BY DEF Compare, Works
<1> DEFINE same == app.of = work[p].of /\ app.version = work[p].local
           j == [proc[p] EXCEPT !.at = IF same THEN "matches" ELSE "differs"]
           w == [work[p] EXCEPT !.app = app]
<1>2. /\ proc[p] \in Process /\ work[p] \in Work /\ proc[p].at = "connected"
      /\ proc[p].kind \in Verifiers /\ Knows(proc[p], work[p])
  BY Known DEF Compare, At
<1>3. app \in App /\ w \in Work
  BY <1>2 DEF ReleaseInv, ReleaseTypeOK, Work
<1>4. /\ j.at = IF same THEN "matches" ELSE "differs"
      /\ j.kind = proc[p].kind /\ j.node = proc[p].node /\ w.app = app
      /\ w.read = work[p].read /\ w.todo = work[p].todo /\ w.of = work[p].of
      /\ w.local = work[p].local /\ w.recent = work[p].recent
  BY <1>2, <1>3 DEF Work, Process
<1>5. Knows(j, w) /\ Cleared(j, w) \subseteq Cleared(proc[p], work[p])
  BY <1>1, <1>2, <1>3, <1>4 DEF Knows, Cleared
<1>6. /\ proc' = [proc EXCEPT ![p] = j] /\ work' = [work EXCEPT ![p] = w]
      /\ UNCHANGED <<art, tree>> /\ apps' \subseteq App
  BY <1>1 DEF Compare, Goes, ReleaseInv, ReleaseTypeOK
<1> HIDE DEF j, w, same
<1>7. QED
  BY <1>2, <1>3, <1>4, <1>5, <1>6, WalksOn

\* A verification keeps what it knows while it connects; the scripts know
\* nothing of the tree.
LEMMA ConnectsKeeps ==
  ASSUME ReleaseInv, NetInv', NEW p \in Procs, Connects(p),
         UNCHANGED <<tree, art, apps, work>>
  PROVE  ReleaseInv'
<1>1. /\ proc[p] \in Process /\ work[p] \in Work /\ Reached(proc[p])
      /\ Knows(proc[p], work[p]) /\ work' = [work EXCEPT ![p] = work[p]]
      /\ apps' \subseteq App
  BY Known DEF ReleaseInv, ReleaseTypeOK
<1>2. PICK j \in Process :
          /\ proc' = [proc EXCEPT ![p] = j] /\ j.kind = proc[p].kind
          /\ proc[p].at \in Connecteds
          /\ j.at \in {"refused", "assert", "connected", "fund", "transacts"}
  <2>1. proc' \in [Procs -> Process] /\ proc \in [Procs -> Process]
    BY DEF ReleaseInv, NetInv, NetTypeOK
  <2>2. PICK j : /\ proc' = [proc EXCEPT ![p] = j] /\ j.kind = proc[p].kind
                 /\ proc[p].at \in Connecteds
                 /\ j.at \in {"refused", "assert", "connected", "fund", "transacts"}
    <3>1. PICK s \in {"refused", "connected", "fund", "transacts"} :
              \/ Goes(p, s)
              \/ proc' = [proc EXCEPT ![p].at = "assert",
                             ![p].env = Loaded(proc[p].env, files[proc[p].asked])]
              \/ proc' = [proc EXCEPT ![p].at = "connected",
                             ![p].node = FromEnvironment(proc[p].env)]
      BY DEF Connects, Load, AssertNetwork, Transact, CreateKeeper, FundKeeper, Goes
    <3>2. proc[p].at \in Connecteds
      BY DEF Connects, Load, AssertNetwork, Transact, CreateKeeper, FundKeeper, At
    <3>3. CASE Goes(p, s)
      <4> DEFINE on == [proc[p] EXCEPT !.at = s]
      <4>1. proc' = [proc EXCEPT ![p] = on]
        BY <3>3 DEF Goes
      <4>2. on.kind = proc[p].kind /\ on.at = s
        BY <1>1 DEF Process
      <4> HIDE DEF on
      <4>3. QED
        BY <3>1, <3>2, <4>1, <4>2
    <3>4. CASE proc' = [proc EXCEPT ![p].at = "assert",
                          ![p].env = Loaded(proc[p].env, files[proc[p].asked])]
      <4> DEFINE on == [proc[p] EXCEPT !.at = "assert",
                             !.env = Loaded(proc[p].env, files[proc[p].asked])]
      <4>1. proc' = [proc EXCEPT ![p] = on]
        BY <3>4
      <4>2. on.kind = proc[p].kind /\ on.at = "assert"
        BY <1>1 DEF Process
      <4> HIDE DEF on
      <4>3. QED
        BY <3>1, <3>2, <4>1, <4>2
    <3>5. CASE proc' = [proc EXCEPT ![p].at = "connected",
                          ![p].node = FromEnvironment(proc[p].env)]
      <4> DEFINE on == [proc[p] EXCEPT !.at = "connected",
                             !.node = FromEnvironment(proc[p].env)]
      <4>1. proc' = [proc EXCEPT ![p] = on]
        BY <3>5
      <4>2. on.kind = proc[p].kind /\ on.at = "connected"
        BY <1>1 DEF Process
      <4> HIDE DEF on
      <4>3. QED
        BY <3>1, <3>2, <4>1, <4>2
    <3>6. QED
      BY <3>1, <3>3, <3>4, <3>5
  <2>3. j \in Process
    BY <2>1, <2>2
  <2>4. QED
    BY <2>2, <2>3
<1>3. Knows(j, work[p]) /\ Cleared(j, work[p]) \subseteq Cleared(proc[p], work[p])
  BY <1>1, <1>2 DEF Knows, Cleared
<1>4. QED
  BY <1>1, <1>2, <1>3, WalksOn

\* A process that starts knows the tree as it is, and whatever a build under
\* way may still write of an older one.
LEMMA RecentFits ==
  ASSUME ReleaseInv
  PROVE  /\ Recent \in [Contracts -> SUBSET Versions]
         /\ \A c \in Contracts : tree[c] \in Recent[c]
         /\ \A q \in Procs : At(q, "write") =>
               work[q].now \in Contracts /\ work[q].read \in Recent[work[q].now]
<1>1. tree \in [Contracts -> Versions] /\ None \notin Versions
  BY VersionAssumption DEF ReleaseInv, ReleaseTypeOK, Versions
<1>2. \A q \in Procs : work[q].read \in Versions \cup {None}
  BY DEF ReleaseInv, ReleaseTypeOK, Work
<1>3. \A c : UnderWay(c) \subseteq Versions
  BY <1>2 DEF UnderWay
<1>4. ASSUME NEW q \in Procs, At(q, "write")
      PROVE  work[q].now \in Contracts /\ work[q].read \in Recent[work[q].now]
  <2>1. work[q].now \in Contracts /\ work[q].read \in Versions
    BY <1>4 DEF ReleaseInv, Knows, At
  <2>2. work[q].read \in UnderWay(work[q].now)
    BY <1>1, <2>1 DEF UnderWay
  <2>3. QED
    BY <2>1, <2>2 DEF Recent
<1>5. QED
  BY <1>1, <1>3, <1>4 DEF Recent

LEMMA BeginsOrEnds ==
  ASSUME ReleaseInv, NetInv', NEW p \in Procs, NEW j, NEW w \in Work,
         proc' = [proc EXCEPT ![p] = j], work' = [work EXCEPT ![p] = w],
         UNCHANGED <<tree, art, apps>>,
         Knows(j, w), j.at # "write",
         Busy(j) => w.recent = Recent /\ Cleared(j, w) = {}
  PROVE  ReleaseInv'
<1>1. ReleaseTypeOK'
  BY DEF ReleaseInv, ReleaseTypeOK
<1>2. proc \in [Procs -> Process] /\ work \in [Procs -> Work]
  BY DEF ReleaseInv, NetInv, NetTypeOK, ReleaseTypeOK
<1>3. /\ proc'[p] = j /\ work'[p] = w
      /\ \A q \in Procs : q # p => proc'[q] = proc[q] /\ work'[q] = work[q]
  BY <1>2
<1>4. \A q \in Procs : At(q, "write")' => At(q, "write") /\ work'[q] = work[q]
  BY <1>3 DEF At
<1>5. ASSUME NEW q \in Procs PROVE (Knows(proc[q], work[q]) /\ Sees(proc[q], work[q]))'
  <2>1. CASE q # p
    <3>1. Knows(proc[q], work[q]) /\ Sees(proc[q], work[q])
      BY DEF ReleaseInv
    <3>2. SeesReads(work[q]) => SeesReads(work[q])'
      BY <1>3, <1>4, <2>1 DEF SeesReads
    <3>3. SeesTree(work[q]) => SeesTree(work[q])'
      BY <1>3, <2>1 DEF SeesTree
    <3>4. SeesArt(proc[q], work[q]) => SeesArt(proc[q], work[q])'
      BY <1>3, <2>1 DEF SeesArt
    <3>5. QED
      BY <1>3, <2>1, <3>1, <3>2, <3>3, <3>4 DEF Knows, Sees, Busy
  <2>2. CASE q = p
    <3>1. Knows(proc[q], work[q])'
      BY <1>3, <2>2 DEF Knows
    <3>2. Busy(proc[q])' => Busy(j)
      BY <1>3, <2>2 DEF Busy
    <3>3. Busy(j) => SeesReads(work[q])'
      BY <1>3, <1>4, <2>2, RecentFits DEF SeesReads
    <3>4. Busy(j) => SeesTree(work[q])'
      BY <1>3, <2>2, RecentFits DEF SeesTree
    <3>5. Busy(j) => SeesArt(proc[q], work[q])'
      BY <1>3, <2>2 DEF SeesArt
    <3>6. QED
      BY <3>1, <3>2, <3>3, <3>4, <3>5 DEF Sees
  <2>3. QED
    BY <2>1, <2>2
<1>6. QED
  BY <1>1, <1>5 DEF ReleaseInv

LEMMA StartVerifyKeeps ==
  ASSUME ReleaseInv, NetInv', NEW p \in Procs, NEW n \in NETWORKS,
         NEW c \in Contracts, NEW rebuild \in BOOLEAN,
         StartVerify(p, n, c, rebuild)
  PROVE  ReleaseInv'
<1> DEFINE j == [kind |-> IF rebuild THEN "verify" ELSE "compare",
                 at |-> FirstOf(rebuild), asked |-> n, env |-> shell,
                 node |-> None]
           w == [NoWork EXCEPT !.todo = Contracts, !.of = c, !.recent = Recent]
<1>1. w \in Work
  BY RecentFits DEF Work, NoWork
<1>2. Knows(j, w) /\ j.at # "write" /\ w.recent = Recent /\ Cleared(j, w) = {}
  BY DEF Knows, Cleared, Builders, NoWork, FirstOf
<1>3. /\ proc' = [proc EXCEPT ![p] = j] /\ work' = [work EXCEPT ![p] = w]
      /\ UNCHANGED <<tree, art, apps>>
  BY DEF StartVerify, Start, Works
<1> HIDE DEF j, w
<1>4. QED
  BY <1>1, <1>2, <1>3, BeginsOrEnds

LEMMA StartMainKeeps ==
  ASSUME ReleaseInv, NetInv', NEW p \in Procs,
         NEW action \in {"build", "deploy", "all"}, NEW todo \in SUBSET Contracts,
         StartMain(p, action, todo)
  PROVE  ReleaseInv'
<1> DEFINE j == [kind |-> action,
                 at |-> IF action = "deploy" THEN "spec" ELSE "clear",
                 asked |-> None, env |-> Loaded(shell, files["default"]),
                 node |-> None]
           w == [NoWork EXCEPT !.todo = todo, !.recent = Recent]
<1>1. w \in Work
  BY RecentFits DEF Work, NoWork
<1>2. Knows(j, w) /\ j.at # "write" /\ w.recent = Recent /\ Cleared(j, w) = {}
  BY DEF Knows, Cleared, Builders, NoWork
<1>3. /\ proc' = [proc EXCEPT ![p] = j] /\ work' = [work EXCEPT ![p] = w]
      /\ UNCHANGED <<tree, art, apps>>
  BY DEF StartMain, Works
<1> HIDE DEF j, w
<1>4. QED
  BY <1>1, <1>2, <1>3, BeginsOrEnds

\* A script that only connects leaves the record as it is.
LEMMA StartScriptKeeps ==
  ASSUME ReleaseInv, NetInv', NEW p \in Procs, NEW n \in NETWORKS,
         NEW kind \in {"script", "demo"}, Start(p, kind, n, "load"),
         UNCHANGED <<tree, art, apps, work>>
  PROVE  ReleaseInv'
<1> DEFINE j == [kind |-> kind, at |-> "load", asked |-> n, env |-> shell,
                 node |-> None]
<1>1. /\ work[p] \in Work /\ Knows(proc[p], work[p]) /\ proc[p].at = "idle"
      /\ work' = [work EXCEPT ![p] = work[p]]
  BY Known DEF Start, At, ReleaseInv, ReleaseTypeOK
<1>2. Knows(j, work[p]) /\ ~Busy(j) /\ j.at # "write"
  BY <1>1 DEF Knows, Busy
<1>3. proc' = [proc EXCEPT ![p] = j]
  BY DEF Start
<1> HIDE DEF j
<1>4. QED
  BY <1>1, <1>2, <1>3, BeginsOrEnds

LEMMA OverKeeps ==
  ASSUME ReleaseInv, NetInv', NEW p \in Procs, Over(p)
  PROVE  ReleaseInv'
<1>1. NoWork \in Work /\ Knows(NoProc, NoWork) /\ ~Busy(NoProc) /\ NoProc.at # "write"
  BY DEF NoWork, Work, NoProc, Knows, Busy
<1>2. /\ proc' = [proc EXCEPT ![p] = NoProc] /\ work' = [work EXCEPT ![p] = NoWork]
      /\ UNCHANGED <<tree, art, apps>>
  BY DEF Over, Ends, Works
<1>3. QED
  BY <1>1, <1>2, BeginsOrEnds

\* Every process that is under way learns of an edit.
LEMMA EditTreeKeeps ==
  ASSUME ReleaseInv, NetInv', NEW c \in Contracts, EditTree(c)
  PROVE  ReleaseInv'
<1>1. PICK v \in Versions :
          /\ tree' = [tree EXCEPT ![c] = v]
          /\ work' = [p \in Procs |-> IF At(p, "idle") THEN work[p]
                         ELSE [work[p] EXCEPT !.recent[c] = @ \cup {v}]]
          /\ UNCHANGED <<proc, art, apps>>
  BY DEF EditTree
<1>2. tree \in [Contracts -> Versions] /\ work \in [Procs -> Work]
  BY DEF ReleaseInv, ReleaseTypeOK
<1>3. ASSUME NEW p \in Procs
      PROVE  /\ work'[p] \in Work
             /\ work'[p].todo = work[p].todo /\ work'[p].now = work[p].now
             /\ work'[p].read = work[p].read /\ work'[p].of = work[p].of
             /\ work'[p].local = work[p].local /\ work'[p].app = work[p].app
             /\ \A d \in Contracts : work[p].recent[d] \subseteq work'[p].recent[d]
             /\ proc[p].at # "idle" => v \in work'[p].recent[c]
  <2>1. work[p] \in Work /\ work[p].recent \in [Contracts -> SUBSET Versions]
    BY <1>2 DEF Work
  <2>2. CASE proc[p].at = "idle"
    BY <1>1, <2>1, <2>2 DEF At
  <2>3. CASE proc[p].at # "idle"
    <3>1. work'[p] = [work[p] EXCEPT
                 !.recent = [work[p].recent EXCEPT ![c] = @ \cup {v}]]
      BY <1>1, <2>1, <2>3 DEF At, Work
    <3>2. [work[p].recent EXCEPT ![c] = @ \cup {v}] \in [Contracts -> SUBSET Versions]
      BY <2>1
    <3>3. QED
      BY <2>1, <3>1, <3>2 DEF Work
  <2>4. QED
    BY <2>2, <2>3
<1>4. ReleaseTypeOK'
  <2>1. work' \in [Procs -> Work]
    BY <1>1, <1>3
  <2>2. QED
    BY <1>1, <1>2, <2>1 DEF ReleaseInv, ReleaseTypeOK
<1>5. ASSUME NEW p \in Procs PROVE (Knows(proc[p], work[p]) /\ Sees(proc[p], work[p]))'
  <2>1. Knows(proc[p], work[p]) /\ Sees(proc[p], work[p])
    BY DEF ReleaseInv
  <2>2. Knows(proc[p], work[p])'
    BY <1>1, <1>3, <2>1 DEF Knows
  <2>3. ASSUME Busy(proc[p])
        PROVE  (SeesTree(work[p]) /\ SeesReads(work[p]) /\ SeesArt(proc[p], work[p]))'
    <3>1. SeesTree(work[p])'
      BY <1>1, <1>2, <1>3, <2>1, <2>3 DEF Sees, SeesTree, Busy
    <3>2. SeesReads(work[p])'
      <4>1. ASSUME NEW q \in Procs, At(q, "write")'
            PROVE  work'[q].read \in work'[p].recent[work'[q].now]
        <5>1. At(q, "write")
          BY <1>1, <4>1 DEF At
        <5>2. work[q].now \in Contracts
          BY <5>1 DEF ReleaseInv, Knows, At
        <5>3. work[q].read \in work[p].recent[work[q].now]
          BY <2>1, <2>3, <5>1 DEF Sees, SeesReads
        <5>4. QED
          BY <1>3, <5>2, <5>3
      <4>2. QED
        BY <4>1 DEF SeesReads
    <3>3. SeesArt(proc[p], work[p])'
      <4>1. Cleared(proc[p], work[p])' = Cleared(proc[p], work[p])
        BY <1>1, <1>3 DEF Cleared
      <4>2. QED
        BY <1>1, <1>3, <2>1, <2>3, <4>1 DEF Sees, SeesArt, Made, Cleared
    <3>4. QED
      BY <3>1, <3>2, <3>3
  <2>4. QED
    BY <1>1, <2>2, <2>3 DEF Sees, Busy
<1>6. QED
  BY <1>4, <1>5 DEF ReleaseInv

LEMMA ReleaseStep == ReleaseInv /\ [ReleaseNext]_vars => ReleaseInv'
<1> SUFFICES ASSUME ReleaseInv, [ReleaseNext]_vars PROVE ReleaseInv'
  OBVIOUS
<1>1. NetInv'
  BY NetReleaseStep DEF ReleaseInv
<1>2. ASSUME UNCHANGED <<proc, tree, art, work>>, apps' \subseteq App
      PROVE  ReleaseInv'
  BY <1>1, <1>2 DEF ReleaseInv, ReleaseTypeOK, Knows, Sees, SeesTree, SeesReads,
                    SeesArt, Cleared, Busy, At
<1>3. CASE Connecting
  <2>1. CASE EditEnv
    BY <1>2, <1>3, <2>1 DEF Connecting, EditEnv, ReleaseInv, ReleaseTypeOK
  <2>2. ASSUME NEW p \in Procs, Connects(p) PROVE ReleaseInv'
    BY <1>1, <1>3, <2>2, ConnectsKeeps DEF Connecting
  <2>3. ASSUME NEW p \in Procs, NEW n \in NETWORKS,
               NEW kind \in {"script", "demo"}, Start(p, kind, n, "load")
        PROVE  ReleaseInv'
    BY <1>1, <1>3, <2>3, StartScriptKeeps DEF Connecting
  <2>4. QED
    BY <1>3, <2>1, <2>2, <2>3 DEF Connecting
<1>4. ASSUME NEW c \in Contracts, EditTree(c) PROVE ReleaseInv'
  BY <1>1, <1>4, EditTreeKeeps
<1>5. ASSUME NEW s \in Servers, NEW c \in Contracts, Deployed(s, c)
      PROVE  ReleaseInv'
  <2>1. [server |-> s, of |-> c, version |-> Foreign] \in App
    BY VersionAssumption DEF App, Foreign
  <2>2. QED
    BY <1>2, <1>5, <2>1 DEF Deployed, netVars, ReleaseInv, ReleaseTypeOK
<1>6. ASSUME NEW p \in Procs, Builds(p) PROVE ReleaseInv'
  BY <1>1, <1>6, ClearKeeps, ReadSourceKeeps, WriteSpecKeeps, GenerateKeeps,
     BuildFailsKeeps, FindSpecKeeps, DeployKeeps, NextContractKeeps,
     ReadLocalKeeps, CompareKeeps DEF Builds
<1>7. ASSUME NEW p \in Procs, Over(p) PROVE ReleaseInv'
  BY <1>1, <1>7, OverKeeps
<1>8. ASSUME NEW p \in Procs, NEW n \in NETWORKS, NEW c \in Contracts,
             NEW rebuild \in BOOLEAN, StartVerify(p, n, c, rebuild)
      PROVE  ReleaseInv'
  BY <1>1, <1>8, StartVerifyKeeps
<1>9. ASSUME NEW p \in Procs, NEW action \in {"build", "deploy", "all"},
             NEW todo \in SUBSET Contracts \ {{}}, StartMain(p, action, todo)
      PROVE  ReleaseInv'
  BY <1>1, <1>9, StartMainKeeps
<1>10. CASE UNCHANGED vars
  BY <1>2, <1>10 DEF vars, netVars, ReleaseInv, ReleaseTypeOK
<1>11. QED
  BY <1>3, <1>4, <1>5, <1>6, <1>7, <1>8, <1>9, <1>10 DEF ReleaseNext

\* What verify_build says of an application is true of the tree, and what all
\* deploys is what was built of it, however builds, deployments, verifications
\* and edits overlap (verify_build.py:60-137, __main__.py:60-110).
THEOREM AlwaysFromTheTree == ReleaseSpec => []FromTheTree
<1>1. ReleaseInv => FromTheTree
  <2> SUFFICES ASSUME ReleaseInv PROVE FromTheTree
    OBVIOUS
  <2>1. VerifiedTrue
    <3> SUFFICES ASSUME NEW p \in Procs, At(p, "matches") \/ At(p, "differs")
                 PROVE  /\ GenesisOf[work[p].app.server] \in GenesisIds[proc[p].asked]
                        /\ LET c == work[p].of
                               known == IF proc[p].kind = "verify"
                                        THEN work[p].recent[c] ELSE Versions
                           IN IF At(p, "matches") THEN Finds(p, c, known)
                              ELSE ~(known # {} /\ \A v \in known : Finds(p, c, {v}))
      BY DEF VerifiedTrue
    <3>1. Reached(proc[p]) /\ Knows(proc[p], work[p])
      BY Known
    <3>2. GenesisOf[work[p].app.server] \in GenesisIds[proc[p].asked]
      BY <3>1 DEF Reached, Knows, At
    <3> DEFINE known == IF proc[p].kind = "verify"
                        THEN work[p].recent[work[p].of] ELSE Versions
    <3>3. work[p].local \in known
      BY <3>1 DEF Knows, At
    <3>4. At(p, "matches") <=> work[p].app.of = work[p].of
                               /\ work[p].app.version = work[p].local
      BY <3>1 DEF Knows, At
    <3> HIDE DEF known
    <3>5. IF At(p, "matches") THEN Finds(p, work[p].of, known)
          ELSE ~(known # {} /\ \A v \in known : Finds(p, work[p].of, {v}))
      BY <3>3, <3>4 DEF Finds
    <3>6. QED
      BY <3>2, <3>5 DEF known
  <2>2. DeployedFresh
    BY Known DEF DeployedFresh, Knows, At
  <2>3. QED
    BY <2>1, <2>2 DEF FromTheTree
<1>2. QED
  BY <1>1, InitRelease, ReleaseStep, PTL DEF ReleaseSpec

=============================================================================
