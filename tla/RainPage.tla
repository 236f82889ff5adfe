------------------------------ MODULE RainPage ------------------------------
(***************************************************************************)
(* The services behind the web page: the chain (chain.service.ts) and the  *)
(* rains on it (rain.service.ts).  A step is one turn of the browser's     *)
(* event loop: what runs from one await to the next.                       *)
(*                                                                         *)
(* What is read from a node is told apart by where it was read and for     *)
(* whom: a network, a rain on it, an account.  The wallet is external; it  *)
(* changes the connected account at any time.  The shell's tiles watch for *)
(* as long as the page lives, so that the count of watchers never is zero  *)
(* and the timer is never stopped.                                         *)
(***************************************************************************)
EXTENDS Naturals, Sequences, SequencesExt

CONSTANTS
    Networks, Deployed,    \* those with a hub
    Home,                  \* the one the page opens on
    Rains, Accounts,
    None,
    MaxRefreshes,          \* of the rains, that may be under way at once
    MaxEvents              \* of the user's, the wallet's or a read's failing

ASSUME PageAssumption ==
    /\ Deployed \subseteq Networks /\ Home \in Networks
    /\ None \notin Networks \cup Rains \cup Accounts
    /\ None \notin {"send", "create", "reading"}
    /\ {MaxRefreshes, MaxEvents} \subseteq Nat

VARIABLES
    genuine,      \* the networks whose node is the chain it claims to be
    network,
    chain,        \* status ("connecting", "ready" or "error"), and where
                  \* genesisId and round were read
    probe,        \* ChainService.refresh: the newest, and one before it
    account,      \* activeAddress
    watchingId,   \* the rain of the detail page
    stale,        \* the effect on account and network is to run
    page,         \* what RainService has read, each with the network, the rain
                  \* and the account it was read for, and its status ("idle",
                  \* "loading", "ready" or "missing")
    refresh,      \* RainService.refresh: those under way, the oldest first;
                  \* at "rains", "art", "assets" or "ticket"; mine: a write
                  \* waits for this refresh
    busy,         \* a write that has been begun and not ended
    events

chainVars == <<network, chain, probe>>
rainVars  == <<watchingId, stale, page, refresh, busy>>
vars == <<genuine, chainVars, account, rainVars, events>>

Maybe(S) == S \cup {None}

\* Of the refreshes under way one has the generation that may write.  A probe
\* is at "idle", "params" or "status".
Ages == {"newest", "old"}

NoProbe == [at |-> "idle", net |-> None]

Init ==
    /\ genuine \in {G \in SUBSET Networks : Networks \ Deployed \subseteq G}
    /\ network = Home
    /\ chain = [status |-> "connecting", genesis |-> None, round |-> None]
    /\ probe = [age \in Ages |-> NoProbe]
    /\ account \in Maybe(Accounts)
    /\ watchingId \in Maybe(Rains)
    /\ stale = TRUE
    /\ page = [status |-> "idle", rains |-> None, current |-> None,
               held |-> None, ticket |-> None]
    /\ refresh = <<>>
    /\ busy = None
    /\ events = 0

Event  == events < MaxEvents /\ events' = events + 1 /\ UNCHANGED genuine
Routine == UNCHANGED <<genuine, events>>

-----------------------------------------------------------------------------
(* ChainService *)

\* genesisMatches() === false
Mismatch ==
    chain.genesis # None /\ ~(chain.genesis = network /\ network \in genuine)

\* A refresh begins: the generation is counted up.
Supersedes(net, genesis) ==
    /\ NoProbe \in {probe["newest"], probe["old"]}
    /\ probe' = [newest |-> [at |-> IF genesis = None THEN "params" ELSE "status",
                            net |-> net],
                 old |-> IF probe["newest"] = NoProbe THEN probe["old"]
                         ELSE probe["newest"]]

Poll ==
    /\ Supersedes(network, chain.genesis)
    /\ Routine /\ UNCHANGED <<network, chain, account, rainVars>>

\* Mutant: the genesis id of the network before is kept.
SetNetworkKeeping(n) ==
    /\ Event
    /\ n # network
    /\ network' = n
    /\ chain' = [chain EXCEPT !.status = "connecting"]
    /\ Supersedes(n, chain.genesis)
    /\ stale' = TRUE
    /\ UNCHANGED <<account, watchingId, page, refresh, busy>>

SetNetwork(n) ==
    /\ Event
    /\ n # network
    /\ network' = n
    /\ chain' = [chain EXCEPT !.status = "connecting", !.genesis = None]
    /\ Supersedes(n, None)
    /\ stale' = TRUE
    /\ UNCHANGED <<account, watchingId, page, refresh, busy>>

\* What an answer to it does to the service.
\* Mutant: whichever refresh asked.
WriteAlways(age) ==
    IF probe[age].at = "params"
    THEN /\ chain' = [chain EXCEPT !.genesis = probe[age].net]
         /\ probe' = [probe EXCEPT ![age].at = "status"]
    ELSE /\ chain' = [chain EXCEPT !.round = probe[age].net, !.status = "ready"]
         /\ probe' = [probe EXCEPT ![age] = NoProbe]

Write(age) ==
    \/ /\ age = "old"
       /\ probe' = [probe EXCEPT ![age] = NoProbe]
       /\ UNCHANGED chain
    \/ /\ age = "newest" /\ probe[age].at = "params"
       /\ chain' = [chain EXCEPT !.genesis = probe[age].net]
       /\ probe' = [probe EXCEPT ![age].at = "status"]
    \/ /\ age = "newest" /\ probe[age].at = "status"
       /\ chain' = [chain EXCEPT !.round = probe[age].net, !.status = "ready"]
       /\ probe' = [probe EXCEPT ![age] = NoProbe]

Answered(age) ==
    /\ probe[age] # NoProbe
    /\ Write(age)
    /\ Routine /\ UNCHANGED <<network, account, rainVars>>

\* What becomes of an old one makes no difference.
Unanswered ==
    /\ Event
    /\ probe["newest"] # NoProbe
    /\ chain' = [chain EXCEPT !.status = "error"]
    /\ probe' = [probe EXCEPT !["newest"] = NoProbe]
    /\ UNCHANGED <<network, account, rainVars>>

-----------------------------------------------------------------------------
(* RainService.refresh *)

\* Where there is no hub, and where the node is another chain, it ends at once.
Begin(mine) ==
    IF network \notin Deployed \/ Mismatch
    THEN /\ page' = IF network \in Deployed THEN page
                    ELSE [page EXCEPT !.status = "missing", !.rains = None,
                                      !.current = None]
         /\ busy' = IF mine THEN None ELSE busy
         /\ UNCHANGED refresh
    ELSE /\ Len(refresh) < MaxRefreshes
         /\ page' = IF page.status = "idle"
                    THEN [page EXCEPT !.status = "loading"] ELSE page
         /\ refresh' = Append(refresh, [at |-> "rains", net |-> network,
                            rain |-> None, account |-> None, mine |-> mine])
         /\ busy' = IF mine THEN "reading" ELSE busy

\* The refresh writes something and asks for the next thing.
Reads(f, at, shown, then) ==
    /\ refresh[f].at = at
    /\ page' = shown
    /\ refresh' = [refresh EXCEPT ![f] = then]
    /\ UNCHANGED busy

\* Or it ends; a write that waited for it is over.
\* Mutant: only if nothing failed.
EndsReady(f, shown) ==
    /\ page' = shown
    /\ refresh' = RemoveAt(refresh, f)
    /\ busy' = IF refresh[f].mine /\ shown.status = "ready" THEN None ELSE busy

Ends(f, shown) ==
    /\ page' = shown
    /\ refresh' = RemoveAt(refresh, f)
    /\ busy' = IF refresh[f].mine THEN None ELSE busy

\* The hub's state, its schedule and then its boxes; the schedule may be null.
ReadRains(f) ==
    LET j == refresh[f] IN
    Reads(f, "rains", [page EXCEPT !.rains = j.net], [j EXCEPT !.at = "art"])

\* Prize assets and pictures have been loaded; the rain and the account are
\* the ones of this moment.  A rain whose box was not read is not found.
Select(f, found) ==
    LET j    == refresh[f]
        rain == [page EXCEPT !.current =
                    IF found = None THEN None ELSE <<j.net, found>>]
    IN
    /\ j.at = "art"
    /\ IF account = None
       THEN Ends(f, [rain EXCEPT !.held = None, !.ticket = None,
                                 !.status = "ready"])
       ELSE Reads(f, "art", rain, [j EXCEPT !.at = "assets", !.rain = found,
                                            !.account = account])

ReadAssets(f) ==
    LET j    == refresh[f]
        held == [page EXCEPT !.held = <<j.net, j.account>>]
    IN
    /\ j.at = "assets"
    /\ IF j.rain = None
       THEN Ends(f, [held EXCEPT !.ticket = None, !.status = "ready"])
       ELSE Reads(f, "assets", held, [j EXCEPT !.at = "ticket"])

ReadTicket(f) ==
    LET j == refresh[f] IN
    /\ j.at = "ticket"
    /\ Ends(f, [page EXCEPT !.ticket = <<j.net, j.rain, j.account>>,
                            !.status = "ready"])

Proceeds(f) ==
    /\ \/ ReadRains(f) \/ Select(f, watchingId)
       \/ ReadAssets(f) \/ ReadTicket(f)
    /\ Routine /\ UNCHANGED <<chainVars, account, watchingId, stale>>

\* A read fails: one box, or the whole refresh.
Breaks(f) ==
    /\ Event
    /\ \/ watchingId # None /\ Select(f, None)
       \/ /\ refresh[f].at # "art"
          /\ Ends(f, [page EXCEPT !.status = "missing"])
    /\ UNCHANGED <<chainVars, account, watchingId, stale>>

-----------------------------------------------------------------------------
(* What begins a refresh *)

\* Mutant: a page that has been read is not read again.
TimerOnce ==
    /\ page.status # "ready"
    /\ Begin(FALSE)
    /\ Routine /\ UNCHANGED <<chainVars, account, watchingId, stale>>

Timer ==
    /\ Begin(FALSE)
    /\ Routine /\ UNCHANGED <<chainVars, account, watchingId, stale>>

Effect ==
    /\ stale /\ stale' = FALSE
    /\ Begin(FALSE)
    /\ Routine /\ UNCHANGED <<chainVars, account, watchingId>>

Focus(rain) ==
    /\ Event
    /\ watchingId' = rain
    /\ Begin(FALSE)
    /\ UNCHANGED <<chainVars, account, stale>>

Unfocus ==
    /\ Event
    /\ watchingId' = None
    /\ page' = [page EXCEPT !.current = None, !.ticket = None]
    /\ UNCHANGED <<chainVars, account, stale, refresh, busy>>

\* connect, disconnect, use, or a session resumed.
SetAccount(a) ==
    /\ Event
    /\ a # account
    /\ account' = a
    /\ stale' = TRUE
    /\ UNCHANGED <<chainVars, watchingId, page, refresh, busy>>

-----------------------------------------------------------------------------
(* Writes *)

\* Mutant: keyed on the status alone.
MaySendOnStatus ==
    /\ network \in Deployed /\ account # None
    /\ chain.status = "ready"

MaySend ==
    /\ network \in Deployed /\ account # None
    /\ ~Mismatch /\ chain.status = "ready"

\* A button of the rain shown.  The buttons are off while one is busy.
Send ==
    /\ Event
    /\ busy = None /\ page.current # None
    /\ MaySend
    /\ busy' = "send"
    /\ UNCHANGED <<chainVars, account, watchingId, stale, page,
                   refresh>>

\* create does not look at the chain's status.
Create ==
    /\ Event
    /\ busy = None
    /\ network \in Deployed /\ account # None
    /\ busy' = "create"
    /\ UNCHANGED <<chainVars, account, watchingId, stale, page,
                   refresh>>

\* The group has been signed and confirmed.  The flag stays up for a refresh.
Confirmed ==
    /\ busy \in {"send", "create"}
    /\ Begin(TRUE)
    /\ Routine /\ UNCHANGED <<chainVars, account, watchingId, stale>>

\* Declined, or refused by the hub.
Declined ==
    /\ busy \in {"send", "create"}
    /\ busy' = None
    /\ Routine /\ UNCHANGED <<chainVars, account, watchingId, stale, page,
                              refresh>>

-----------------------------------------------------------------------------
User ==
    \/ \E n \in Networks : SetNetwork(n)
    \/ \E r \in Rains : Focus(r)
    \/ Unfocus
    \/ \E a \in Maybe(Accounts) : SetAccount(a)
    \/ Send \/ Create

Next ==
    \/ User
    \/ Poll \/ Unanswered \/ \E age \in Ages : Answered(age)
    \/ \E f \in DOMAIN refresh : Proceeds(f) \/ Breaks(f)
    \/ Timer \/ Effect \/ Confirmed \/ Declined

Spec == Init /\ [][Next]_vars

\* Timers fire, effects run, and reads and signatures come to an end, one way
\* or the other.  Of the chain's reads the newest is answered in time again and
\* again, that is, before the next poll takes over.
Fairness ==
    /\ WF_vars(Poll)
    /\ SF_vars(Answered("newest"))
    /\ WF_vars(Answered("old"))
    /\ \A f \in 1 .. MaxRefreshes :
          WF_vars(f \in DOMAIN refresh /\ (Proceeds(f) \/ Breaks(f)))
    /\ WF_vars(Timer)
    /\ WF_vars(Effect)
    /\ WF_vars(Confirmed \/ Declined)

FairSpec == Spec /\ Fairness
-----------------------------------------------------------------------------
(* Properties *)

\* A round or a genesis id read from the network before does not land under the
\* one that is chosen now, however late it comes (chain.service.ts:154-158).
RoundOfNetwork ==
    /\ chain.genesis \in {None, network}
    /\ chain.status = "ready" => chain.genesis = network /\ chain.round = network

\* A button of a rain signs nothing for a node that is another chain than the
\* one it is listed as (chain.service.ts:38-45).
SendsToItsChain ==
    [][busy' = "send" /\ busy # "send" =>
          network \in genuine /\ chain.round = network]_vars

\* What the page shows is the chosen network's, rain's and account's.
ShowsTheChosen ==
    /\ network \notin Deployed =>
          page.rains = None /\ page.current = None
    /\ network \in Deployed \cap genuine =>
          /\ page.rains = network
          /\ page.current = IF watchingId = None THEN None
                            ELSE <<network, watchingId>>
          /\ page.held = IF account = None THEN None ELSE <<network, account>>
          /\ page.ticket = IF watchingId = None \/ account = None THEN None
                           ELSE <<network, watchingId, account>>

\* Refreshes overlap and the old ones write too; but once the user leaves the
\* page alone and the node answers, it comes to show what was chosen, and goes on
\* showing it.
PageCatchesUp == <>[]ShowsTheChosen

\* The chain's own status catches up as well.
ChainCatchesUp == <>[](chain.status = "ready" /\ RoundOfNetwork)

\* No button stays off for ever: a write that was begun ends.
WritesEnd == busy # None ~> busy = None
=============================================================================
