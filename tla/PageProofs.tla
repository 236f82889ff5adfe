----------------------------- MODULE PageProofs -----------------------------
(***************************************************************************)
(* Proofs about RainPage: whatever the nodes answer and however late, what *)
(* the page holds of a chain is the chosen network's, and no button of a   *)
(* rain signs for a node of another chain.                                 *)
(*                                                                         *)
(* Neither follows from the other or from itself: an answer is written     *)
(* because its generation is the newest, so the invariant must say that    *)
(* the newest generation was asked of the chosen network.                  *)
(***************************************************************************)
EXTENDS RainPage, TLAPS

Statuses == {"connecting", "ready", "error"}
Stages   == {"idle", "params", "status"}

Shapes ==
    /\ network \in Networks
    /\ chain \in [status : Statuses, genesis : Maybe(Networks),
                  round : Maybe(Networks)]
    /\ probe \in [Ages -> [at : Stages, net : Maybe(Networks)]]

\* The newest refresh of the chain was asked of the chosen network, and gets to
\* the status only where the genesis id is known.
NewestIsOurs ==
    /\ probe["newest"].at # "idle" => probe["newest"].net = network
    /\ probe["newest"].at = "status" => chain.genesis = network
    /\ probe["newest"].at = "idle" => probe["newest"] = NoProbe

ChainOK == Shapes /\ NewestIsOurs /\ RoundOfNetwork

-----------------------------------------------------------------------------
(* ChainService *)

LEMMA InitChain == Init => ChainOK
  BY PageAssumption
  DEF Init, ChainOK, Shapes, Statuses, Stages, NewestIsOurs, RoundOfNetwork,
      NoProbe, Maybe, Ages

\* A refresh of the chain supersedes the one before, of whatever network.
LEMMA SupersedesIsOurs ==
  ASSUME Shapes, network' \in Networks,
         NEW genesis \in {None, network'}, chain'.genesis = genesis,
         Supersedes(network', genesis)
  PROVE  /\ probe' \in [Ages -> [at : Stages, net : Maybe(Networks)]]
         /\ NewestIsOurs'
<1> DEFINE asked == [at |-> IF genesis = None THEN "params" ELSE "status",
                     net |-> network']
<1>1. asked \in [at : Stages, net : Maybe(Networks)]
  BY DEF Stages, Maybe
<1>2. /\ probe'["newest"] = asked
      /\ probe'["old"] = IF probe["newest"] = NoProbe THEN probe["old"]
                         ELSE probe["newest"]
      /\ probe' = [newest |-> asked, old |-> probe'["old"]]
  BY DEF Supersedes
<1>3. probe' \in [Ages -> [at : Stages, net : Maybe(Networks)]]
  BY <1>1, <1>2 DEF Shapes, Ages
<1>4. NewestIsOurs'
  BY <1>2 DEF NewestIsOurs
<1>5. QED
  BY <1>3, <1>4

LEMMA PollChain == ChainOK /\ Poll => ChainOK'
<1> SUFFICES ASSUME ChainOK, Poll PROVE ChainOK'
  OBVIOUS
<1>1. /\ network' = network /\ chain' = chain
      /\ Supersedes(network', chain.genesis)
  BY DEF Poll
<1>2. Shapes' /\ NewestIsOurs'
  BY <1>1, SupersedesIsOurs DEF ChainOK, Shapes, RoundOfNetwork
<1>3. RoundOfNetwork'
  BY <1>1 DEF ChainOK, RoundOfNetwork
<1>4. QED
  BY <1>2, <1>3 DEF ChainOK

LEMMA SetNetworkChain ==
  ASSUME ChainOK, NEW n \in Networks, SetNetwork(n)
  PROVE  ChainOK'
<1>1. /\ network' = n
      /\ chain' = [chain EXCEPT !.status = "connecting", !.genesis = None]
      /\ Supersedes(network', None)
  BY DEF SetNetwork
<1>2. /\ chain' \in [status : Statuses, genesis : Maybe(Networks),
                     round : Maybe(Networks)]
      /\ chain'.genesis = None /\ chain'.status = "connecting"
  BY <1>1 DEF ChainOK, Shapes, Statuses, Maybe
<1>3. Shapes' /\ NewestIsOurs'
  BY <1>1, <1>2, SupersedesIsOurs DEF ChainOK, Shapes
<1>4. RoundOfNetwork'
  BY <1>2 DEF RoundOfNetwork
<1>5. QED
  BY <1>3, <1>4 DEF ChainOK

\* An answer to an old refresh writes nothing; one to the newest writes what was
\* read of the chosen network.
LEMMA AnsweredChain ==
  ASSUME ChainOK, NEW age \in Ages, Answered(age)
  PROVE  ChainOK'
<1>1. /\ network' = network /\ probe[age] # NoProbe /\ Write(age)
  BY DEF Answered
<1>2. NoProbe \in [at : Stages, net : Maybe(Networks)]
  BY DEF NoProbe, Stages, Maybe
<1>3. CASE age = "old"
  <2>1. /\ chain' = chain /\ probe' = [probe EXCEPT !["old"] = NoProbe]
    BY <1>1, <1>3 DEF Write
  <2>2. probe'["newest"] = probe["newest"]
    BY <2>1 DEF ChainOK, Shapes, Ages
  <2>3. Shapes'
    BY <1>1, <1>2, <2>1 DEF ChainOK, Shapes
  <2>4. QED
    BY <1>1, <2>1, <2>2, <2>3 DEF ChainOK, NewestIsOurs, RoundOfNetwork
<1>4. CASE age = "newest" /\ probe["newest"].at = "params"
  <2>1. /\ chain' = [chain EXCEPT !.genesis = probe["newest"].net]
        /\ probe' = [probe EXCEPT !["newest"].at = "status"]
    BY <1>1, <1>4 DEF Write
  <2>2. probe["newest"].net = network
    BY <1>4 DEF ChainOK, NewestIsOurs
  <2>3. /\ chain' \in [status : Statuses, genesis : Maybe(Networks),
                       round : Maybe(Networks)]
        /\ chain'.genesis = network /\ chain'.status = chain.status
        /\ chain'.round = chain.round
    BY <2>1, <2>2 DEF ChainOK, Shapes, Maybe
  <2>4. /\ probe' \in [Ages -> [at : Stages, net : Maybe(Networks)]]
        /\ probe'["newest"].at = "status"
        /\ probe'["newest"].net = network
    BY <2>1, <2>2 DEF ChainOK, Shapes, Ages, Stages, Maybe
  <2>5. QED
    BY <1>1, <2>3, <2>4 DEF ChainOK, Shapes, NewestIsOurs, RoundOfNetwork
<1>5. CASE age = "newest" /\ probe["newest"].at # "params"
  <2>1. probe["newest"].at = "status"
    BY <1>1, <1>5 DEF ChainOK, Shapes, NewestIsOurs, Stages, Ages
  <2>2. /\ chain' = [chain EXCEPT !.round = probe["newest"].net,
                                  !.status = "ready"]
        /\ probe' = [probe EXCEPT !["newest"] = NoProbe]
    BY <1>1, <1>5 DEF Write
  <2>3. probe["newest"].net = network /\ chain.genesis = network
    BY <2>1 DEF ChainOK, NewestIsOurs
  <2>4. /\ chain' \in [status : Statuses, genesis : Maybe(Networks),
                       round : Maybe(Networks)]
        /\ chain'.genesis = network /\ chain'.round = network
    BY <2>2, <2>3 DEF ChainOK, Shapes, Maybe, Statuses
  <2>5. /\ probe' \in [Ages -> [at : Stages, net : Maybe(Networks)]]
        /\ probe'["newest"] = NoProbe
    BY <1>2, <2>2 DEF ChainOK, Shapes, Ages
  <2>6. QED
    BY <1>1, <2>4, <2>5
    DEF ChainOK, Shapes, NewestIsOurs, RoundOfNetwork, NoProbe
<1>6. QED
  BY <1>3, <1>4, <1>5 DEF Ages

LEMMA UnansweredChain == ChainOK /\ Unanswered => ChainOK'
<1> SUFFICES ASSUME ChainOK, Unanswered PROVE ChainOK'
  OBVIOUS
<1>1. /\ network' = network
      /\ chain' = [chain EXCEPT !.status = "error"]
      /\ probe' = [probe EXCEPT !["newest"] = NoProbe]
  BY DEF Unanswered
<1>2. /\ chain' \in [status : Statuses, genesis : Maybe(Networks),
                     round : Maybe(Networks)]
      /\ chain'.genesis = chain.genesis /\ chain'.status = "error"
  BY <1>1 DEF ChainOK, Shapes, Statuses
<1>3. /\ probe' \in [Ages -> [at : Stages, net : Maybe(Networks)]]
      /\ probe'["newest"] = NoProbe
  BY <1>1 DEF ChainOK, Shapes, Ages, NoProbe, Stages, Maybe
<1>4. QED
  BY <1>1, <1>2, <1>3
  DEF ChainOK, Shapes, NewestIsOurs, RoundOfNetwork, NoProbe

\* Nothing else touches the network or the chain.
LEMMA ChainStep == ChainOK /\ [Next]_vars => ChainOK'
<1> SUFFICES ASSUME ChainOK, [Next]_vars PROVE ChainOK'
  OBVIOUS
<1>1. ASSUME UNCHANGED chainVars PROVE ChainOK'
  BY <1>1 DEF chainVars, ChainOK, Shapes, NewestIsOurs, RoundOfNetwork
<1>2. ASSUME NEW n \in Networks, SetNetwork(n) PROVE ChainOK'
  BY <1>2, SetNetworkChain
<1>3. ASSUME NEW r \in Rains, Focus(r) PROVE ChainOK'
  BY <1>1, <1>3 DEF Focus
<1>4. ASSUME NEW a \in Maybe(Accounts), SetAccount(a) PROVE ChainOK'
  BY <1>1, <1>4 DEF SetAccount
<1>5. CASE Unfocus \/ Send \/ Create
  BY <1>1, <1>5 DEF Unfocus, Send, Create
<1>6. CASE Poll
  BY <1>6, PollChain
<1>7. CASE Unanswered
  BY <1>7, UnansweredChain
<1>8. ASSUME NEW age \in Ages, Answered(age) PROVE ChainOK'
  BY <1>8, AnsweredChain
<1>9. ASSUME NEW f \in DOMAIN refresh, Proceeds(f) \/ Breaks(f) PROVE ChainOK'
  BY <1>1, <1>9 DEF Proceeds, Breaks
<1>10. CASE Timer \/ Effect \/ Confirmed \/ Declined
  BY <1>1, <1>10 DEF Timer, Effect, Confirmed, Declined
<1>11. CASE UNCHANGED vars
  BY <1>1, <1>11 DEF vars
<1>12. QED
  BY <1>2, <1>3, <1>4, <1>5, <1>6, <1>7, <1>8, <1>9, <1>10, <1>11
  DEF Next, User

LEMMA ChainAlwaysOK == Spec => []ChainOK
<1>1. QED
  BY InitChain, ChainStep, PTL DEF Spec

\* What was read of one network never stands under another, in whatever order
\* the nodes answer (chain.service.ts:154-184).
THEOREM RoundsOfTheNetwork == Spec => []RoundOfNetwork
<1>1. ChainOK => RoundOfNetwork
  BY DEF ChainOK
<1>2. QED
  BY <1>1, ChainAlwaysOK, PTL

-----------------------------------------------------------------------------
(* Sending *)

\* A refresh of the rains leaves the flag, takes it down, or marks it as waiting.
LEMMA BeginSendsNothing ==
  ASSUME NEW mine \in BOOLEAN, Begin(mine)
  PROVE  busy' \in {busy, None, "reading"}
  BY DEF Begin

LEMMA EndsSendsNothing ==
  ASSUME NEW f, NEW shown, Ends(f, shown)
  PROVE  busy' \in {busy, None}
  BY DEF Ends

LEMMA SelectSendsNothing ==
  ASSUME NEW f, NEW found, Select(f, found)
  PROVE  busy' \in {busy, None}
  BY EndsSendsNothing, Zenon DEF Select, Reads

LEMMA ProceedsSendsNothing ==
  ASSUME NEW f, Proceeds(f)
  PROVE  busy' \in {busy, None}
<1>1. CASE ReadRains(f)
  BY <1>1, Zenon DEF ReadRains, Reads
<1>2. CASE Select(f, watchingId)
  BY <1>2, SelectSendsNothing
<1>3. CASE ReadAssets(f)
  BY <1>3, EndsSendsNothing, Zenon DEF ReadAssets, Reads
<1>4. CASE ReadTicket(f)
  BY <1>4, EndsSendsNothing, Zenon DEF ReadTicket
<1>5. QED
  BY <1>1, <1>2, <1>3, <1>4 DEF Proceeds

LEMMA BreaksSendsNothing ==
  ASSUME NEW f, Breaks(f)
  PROVE  busy' \in {busy, None}
  BY SelectSendsNothing, EndsSendsNothing, Zenon DEF Breaks

\* A button asks for a signature on the strength of a genesis id and a round that
\* were both read of the network it is on.
LEMMA SendReadItsChain ==
  ASSUME ChainOK, Send
  PROVE  network \in genuine /\ chain.round = network
<1>1. chain.status = "ready" /\ ~Mismatch
  BY DEF Send, MaySend
<1>2. chain.genesis = network /\ chain.round = network
  BY <1>1 DEF ChainOK, RoundOfNetwork
<1>3. chain.genesis # None
  BY <1>2, PageAssumption DEF ChainOK, Shapes
<1>4. QED
  BY <1>1, <1>2, <1>3 DEF Mismatch

LEMMA SendStep ==
  ASSUME ChainOK, [Next]_vars, busy' = "send", busy # "send"
  PROVE  network \in genuine /\ chain.round = network
<1>1. CASE Send
  BY <1>1, SendReadItsChain
<1>2. ASSUME busy' \in {busy, None, "reading", "create"} PROVE FALSE
  BY <1>2, PageAssumption
<1>3. ASSUME NEW n \in Networks, SetNetwork(n) PROVE FALSE
  BY <1>2, <1>3 DEF SetNetwork
<1>4. ASSUME NEW r \in Rains, Focus(r) PROVE FALSE
  BY <1>2, <1>4, BeginSendsNothing, Zenon DEF Focus
<1>5. ASSUME NEW a \in Maybe(Accounts), SetAccount(a) PROVE FALSE
  BY <1>2, <1>5 DEF SetAccount
<1>6. CASE Unfocus \/ Create
  BY <1>2, <1>6 DEF Unfocus, Create
<1>7. CASE Poll \/ Unanswered
  BY <1>2, <1>7 DEF Poll, Unanswered, rainVars
<1>8. ASSUME NEW age \in Ages, Answered(age) PROVE FALSE
  BY <1>2, <1>8 DEF Answered, rainVars
<1>9. ASSUME NEW f \in DOMAIN refresh, Proceeds(f) \/ Breaks(f) PROVE FALSE
  BY <1>2, <1>9, ProceedsSendsNothing, BreaksSendsNothing
<1>10. CASE Timer \/ Effect \/ Confirmed
  BY <1>2, <1>10, BeginSendsNothing DEF Timer, Effect, Confirmed
<1>11. CASE Declined
  BY <1>2, <1>11 DEF Declined
<1>12. CASE UNCHANGED vars
  BY <1>2, <1>12 DEF vars, rainVars
<1>13. QED
  BY <1>1, <1>3, <1>4, <1>5, <1>6, <1>7, <1>8, <1>9, <1>10, <1>11, <1>12
  DEF Next, User

\* No signature is asked for a node of another chain than the one that is shown,
\* whatever the nodes answer and whenever the user changes the network
\* (rain.service.ts:881-904).
THEOREM SendsAlwaysToItsChain == Spec => SendsToItsChain
<1>1. ChainOK /\ [Next]_vars =>
          [busy' = "send" /\ busy # "send" =>
              network \in genuine /\ chain.round = network]_vars
  BY SendStep
<1>2. QED
  BY <1>1, ChainAlwaysOK, PTL DEF Spec, SendsToItsChain
=============================================================================
