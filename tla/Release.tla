------------------------------ MODULE Release ------------------------------
(***************************************************************************)
(* From the source tree to an application and back: the build and the      *)
(* deployments of smart_contracts/__main__.py, and scripts/verify_build.py,*)
(* which builds again and compares with what a chain runs.  They share the *)
(* working tree and the artifacts directory with each other and with the   *)
(* editor, and nothing locks either; every file is read and written at a   *)
(* moment of its own, and each process may end anywhere.                   *)
(*                                                                         *)
(* A program is told apart by its contract and the version of the tree it  *)
(* was compiled from: the same source compiles to the same bytes.          *)
(***************************************************************************)
EXTENDS Network, FiniteSets

CONSTANT MaxVersion   \* of any contract's source

ASSUME VersionAssumption ==
    MaxVersion \in Nat \ {0} /\ None \notin 0 .. MaxVersion

VARIABLES
    tree,    \* tree[c]: the version in the working tree
    art,     \* art[c]: the versions of the ARC-56 file and of the client
             \* generated from it
    apps,    \* applications: the server of their chain, and the program
    work     \* work[p]: the local variables of a build or a verification

vars == <<netVars, tree, art, apps, work>>

\* The folders with a contract.py; each has a deploy_config too.
Contracts == {"rain", "beacon_stub"}
Versions  == 1 .. MaxVersion

\* What another tree compiles to.
Foreign == 0

\* todo: the contracts left; now: the one being built; read: the version the
\* compiler has read and not written; of: --contract; local: the version that
\* verify_build holds; app: the program it found, or the one deployed; recent:
\* the versions each contract's source has had since the process began, or had
\* when a build that was then under way read it.
NoWork == [todo |-> {}, now |-> None, read |-> None, of |-> None,
           local |-> None, app |-> None, recent |-> [c \in Contracts |-> {}]]

ReleaseInit ==
    /\ tree = [c \in Contracts |-> 1]
    /\ art = [c \in Contracts |-> [spec |-> 1, client |-> 1]]
    /\ apps = {}
    /\ work = [p \in Procs |-> NoWork]

Stays == UNCHANGED <<shell, files, keeper, edits>>
Works(p, w) == work' = [work EXCEPT ![p] = w]

\* What a process that starts now may come to build from.
UnderWay(c) == {work[q].read : q \in {r \in Procs : work[r].now = c}} \ {None}
Recent      == [c \in Contracts |-> {tree[c]} \cup UnderWay(c)]

-----------------------------------------------------------------------------
(* main: build, deploy, all *)

\* With no action it builds.  Importing the module loads .env.
StartMain(p, action, todo) ==
    /\ At(p, "idle")
    /\ proc' = [proc EXCEPT ![p] =
           [kind |-> action, at |-> IF action = "deploy" THEN "spec" ELSE "clear",
            asked |-> None, env |-> Loaded(shell, files["default"]),
            node |-> None]]
    /\ Works(p, [NoWork EXCEPT !.todo = todo, !.recent = Recent])
    /\ Stays /\ UNCHANGED <<tree, art, apps>>

\* build: what is there is removed first.
Clear(p) ==
    /\ At(p, "clear")
    /\ \E c \in work[p].todo :
        /\ art' = [art EXCEPT ![c] = [spec |-> None, client |-> None]]
        /\ Works(p, [work[p] EXCEPT !.now = c])
    /\ Goes(p, "read")
    /\ Stays /\ UNCHANGED <<tree, apps>>

\* algokit compile reads the source, and later writes what it made of it.
ReadSource(p) ==
    /\ At(p, "read")
    /\ Works(p, [work[p] EXCEPT !.read = tree[work[p].now]])
    /\ Goes(p, "write")
    /\ Stays /\ UNCHANGED <<tree, art, apps>>

WriteSpec(p) ==
    /\ At(p, "write")
    /\ art' = [art EXCEPT ![work[p].now].spec = work[p].read]
    /\ Works(p, [work[p] EXCEPT !.read = None])
    /\ Goes(p, "generate")
    /\ Stays /\ UNCHANGED <<tree, apps>>

\* The contract is done.  all deploys it before it builds the next.
BuiltOne(p) ==
    LET left == work[p].todo \ {work[p].now} IN
    /\ Goes(p, IF proc[p].kind = "all" THEN "deploy"
               ELSE IF left # {} THEN "clear"
               ELSE IF proc[p].kind = "verify" THEN "local"
               ELSE "built")
    /\ Works(p, [work[p] EXCEPT !.todo = left,
           !.now = IF proc[p].kind = "all" THEN @ ELSE None])

\* The client is generated from the ARC-56 file that is there.  If another
\* build has just removed it, there is none to generate, and that is no error.
Generate(p) ==
    /\ At(p, "generate")
    /\ LET c == work[p].now IN
        art' = IF art[c].spec = None THEN art
               ELSE [art EXCEPT ![c].client = art[c].spec]
    /\ BuiltOne(p)
    /\ Stays /\ UNCHANGED <<tree, apps>>

\* The compiler or the generator fails; for verify_build it is a process of its
\* own that does.
BuildFails(p) ==
    /\ proc[p].at \in {"write", "generate"}
    /\ Works(p, [work[p] EXCEPT !.read = None, !.now = None])
    /\ Goes(p, "failed")
    /\ Stays /\ UNCHANGED <<tree, art, apps>>

\* deploy looks for the ARC-56 file, of each contract in turn.
FindSpec(p) ==
    /\ At(p, "spec")
    /\ \E c \in work[p].todo :
        /\ Works(p, [work[p] EXCEPT !.todo = @ \ {c}, !.now = c])
        /\ Goes(p, IF art[c].spec = None THEN "failed" ELSE "deploy")
    /\ Stays /\ UNCHANGED <<tree, art, apps>>

\* The configuration's deploy imports the client that is there now, and
\* creates an application of its program (or finds one, for the stub).
Deploy(p) ==
    /\ At(p, "deploy")
    /\ LET c   == work[p].now
           app == [server |-> FromEnvironment(proc[p].env),
                   of |-> c, version |-> art[c].client]
       IN IF art[c].client = None
          THEN Goes(p, "failed") /\ UNCHANGED <<apps, work>>
          ELSE /\ apps' = apps \cup {app}
               /\ Works(p, [work[p] EXCEPT !.app = app])
               /\ Goes(p, "deployed")
    /\ Stays /\ UNCHANGED <<tree, art>>

NextContract(p) ==
    /\ At(p, "deployed") /\ work[p].todo # {}
    /\ Works(p, [work[p] EXCEPT !.app = None, !.now = None])
    /\ Goes(p, IF proc[p].kind = "all" THEN "clear" ELSE "spec")
    /\ Stays /\ UNCHANGED <<tree, art, apps>>

-----------------------------------------------------------------------------
(* verify_build *)

\* Unless told not to, it builds everything first.
\* Mutant: what is on disk is trusted, whatever it was told.
FirstLocal(rebuild) == "local"

FirstOf(rebuild) == IF rebuild THEN "clear" ELSE "local"

StartVerify(p, asked, contract, rebuild) ==
    /\ Start(p, IF rebuild THEN "verify" ELSE "compare", asked, FirstOf(rebuild))
    /\ Works(p, [NoWork EXCEPT !.todo = Contracts, !.of = contract,
                               !.recent = Recent])
    /\ UNCHANGED <<tree, art, apps>>

\* The hash of what the ARC-56 file holds.  Then it connects.
ReadLocal(p) ==
    /\ At(p, "local")
    /\ LET spec == art[work[p].of].spec IN
        /\ Works(p, [work[p] EXCEPT !.local = spec])
        /\ Goes(p, IF spec = None THEN "failed" ELSE "load")
    /\ Stays /\ UNCHANGED <<tree, art, apps>>

\* --app-id names any application of the chain it is connected to.
Compare(p) ==
    /\ At(p, "connected") /\ proc[p].kind \in {"verify", "compare"}
    /\ \E app \in apps :
        /\ app.server = proc[p].node
        /\ Works(p, [work[p] EXCEPT !.app = app])
        /\ Goes(p, IF app.of = work[p].of /\ app.version = work[p].local
                   THEN "matches" ELSE "differs")
    /\ Stays /\ UNCHANGED <<tree, art, apps>>

-----------------------------------------------------------------------------
(* Everything else *)

EditTree(c) ==
    /\ edits < MaxEdits /\ edits' = edits + 1
    /\ \E v \in Versions \ {tree[c]} :
        /\ tree' = [tree EXCEPT ![c] = v]
        /\ work' = [p \in Procs |->
               IF At(p, "idle") THEN work[p]
               ELSE [work[p] EXCEPT !.recent[c] = @ \cup {v}]]
    /\ UNCHANGED <<shell, files, proc, keeper, art, apps>>

\* Anybody's application.
Deployed(server, c) ==
    /\ apps' = apps \cup {[server |-> server, of |-> c, version |-> Foreign]}
    /\ UNCHANGED <<netVars, tree, art, work>>

Over(p) == Ends(p) /\ Works(p, NoWork) /\ UNCHANGED <<tree, art, apps>>

Builds(p) ==
    \/ Clear(p) \/ ReadSource(p) \/ WriteSpec(p) \/ Generate(p) \/ BuildFails(p)
    \/ FindSpec(p) \/ Deploy(p) \/ NextContract(p) \/ ReadLocal(p) \/ Compare(p)

\* The processes that only connect, and those on their way to it.
Connecting ==
    /\ \/ EditEnv
       \/ \E p \in Procs : Connects(p)
       \/ \E p \in Procs, n \in NETWORKS, kind \in {"script", "demo"} :
            Start(p, kind, n, "load")
    /\ UNCHANGED <<tree, art, apps, work>>

ReleaseNext ==
    \/ Connecting
    \/ \E c \in Contracts : EditTree(c)
    \/ \E s \in Servers, c \in Contracts : Deployed(s, c)
    \/ \E p \in Procs : Builds(p) \/ Over(p)
    \/ \E p \in Procs, n \in NETWORKS, c \in Contracts, rebuild \in BOOLEAN :
         StartVerify(p, n, c, rebuild)
    \/ \E p \in Procs, action \in {"build", "deploy", "all"},
          todo \in SUBSET Contracts \ {{}} : StartMain(p, action, todo)

ReleaseSpec == NetInit /\ ReleaseInit /\ [][ReleaseNext]_vars
-----------------------------------------------------------------------------
(* Properties *)

Finds(p, c, versions) == \E v \in versions : work[p].app.of = c
                                             /\ work[p].app.version = v

\* What verify_build says of an application is true of this tree, on the chain
\* it was asked about.  "This source" is a version the tree has had since the
\* run began, and "not this source" is not the only one it had, whatever other
\* builds and edits come between; at the worst the version is one that a build
\* still under way had read before (verify_build.py:68).  A run told not to
\* rebuild says as much of what was built last, if that is this tree's at all.
VerifiedTrue ==
    \A p \in Procs :
        At(p, "matches") \/ At(p, "differs") =>
            /\ GenesisOf[work[p].app.server] \in GenesisIds[proc[p].asked]
            /\ LET c == work[p].of
                   known == IF proc[p].kind = "verify" THEN work[p].recent[c]
                            ELSE Versions
               IN IF At(p, "matches") THEN Finds(p, c, known)
                  ELSE ~(known # {} /\ \A v \in known : Finds(p, c, {v}))

\* What all deploys is what its own build made of the tree, or another's made
\* of it meanwhile: never the client of an earlier build.
DeployedFresh ==
    \A p \in Procs :
        proc[p].kind = "all" /\ At(p, "deployed") =>
            work[p].app.version \in work[p].recent[work[p].now]

FromTheTree == VerifiedTrue /\ DeployedFresh
=============================================================================
