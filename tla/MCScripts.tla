----------------------------- MODULE MCScripts -----------------------------
(* The scripts that show what a hub does; a run has one of them.             *)
(* The one-draw script finds a lottery without a pot, that the funder and    *)
(* perhaps a stranger have entered, the funder with a prize of an earlier    *)
(* draw not claimed, and seven idle rains after it, so that a draw does not  *)
(* always get to the lottery.  The live proof finds what the deploy script   *)
(* leaves, two daily rains, gated on a token that the prover has, while a    *)
(* stranger is about or a run may die; or two lotteries more, which runs     *)
(* opened that died before they opened the asset's rain, that others filled  *)
(* and the prover has a ticket of.  A demonstration finds a new hub.         *)
EXTENDS OneDraw, LiveProof, Demo, TLC

CONSTANTS funder, p1, p2, stranger, minter, token, drop, fake

VARIABLE scene

sceneVars == <<vars, playerVars, proofVars, demo, scene>>

Live == {"stranger", "death", "left over"}

\* How long each goes on, how many rains its hub has, and the most money in any
\* of them.
MCHorizon  == CASE scene = "demo" -> 8 [] scene = "death" -> 6 [] OTHER -> 7
MCRains    == CASE scene = "one draw" -> 8 [] scene = "demo" -> 2 [] OTHER -> 4
MCMostHeld == CASE scene = "one draw" -> 3 [] scene = "demo" -> 5 [] OTHER -> 4

MCAccounts  == {funder, p1, p2, stranger}
MCPlayers   == <<p1, p2>>
MCCreatorOf ==
    [x \in Assets |-> CASE x = token -> minter
                        [] x = fake  -> p2
                        [] OTHER     -> funder]

MCRain(gate, mode, drip, interval, pot, entered) ==
    [creator |-> funder, gate_creator |-> gate, prize_asset |-> Algo,
     mode |-> mode, drip |-> drip, interval_rounds |-> interval,
     last_rain_round |-> 1, pot |-> pot, tickets |-> Cardinality(entered),
     draw_id |-> 0, cumulative |-> 0, wave_cap |-> IF mode = WAVE THEN 1 ELSE 0,
     wave_count |-> 0, last_share |-> 0, last_wave_id |-> 0,
     wave_unclaimed |-> 0, commit_round |-> 0, prize_locked |-> 0]

\* One rain entered, in that order, and what it owes the funder from an earlier
\* drop.
MCHub(scenery, lottery, entered, owed) ==
    /\ round = 2 /\ bootstrapped = 1 /\ cursor = 0 /\ opted_in = {}
    /\ holding = [x \in Assets |-> [a \in Accounts |->
                      IF x = token /\ a = funder THEN "some" ELSE "out"]]
    /\ rains = scenery
    /\ next_rain_id = Len(scenery)
    /\ tickets = [k \in {lottery} \X ToSet(entered) |->
           [credit |-> IF k[2] = funder THEN owed ELSE 0,
            wave_id |-> 0, settled_id |-> 0]]
    /\ indexes = [k \in {lottery} \X (0 .. Len(entered) - 1) |->
           entered[k[2] + 1]]
    /\ held = [r \in 1 .. Len(scenery) |->
           scenery[r].pot + (IF r = lottery THEN owed ELSE 0)]
    /\ reserve = MinBalance

Around   == [i \in 1 .. 7 |-> MCRain(NoGate, SPLIT, 1, 1, 0, {})]
Deployed == <<MCRain(minter, SPLIT, DailyDrip, DailyInterval, 0, {}),
              MCRain(minter, WAVE, DailyDrip, DailyInterval, 0, {})>>
LeftOver == <<MCRain(NoGate, ONE, ShortDrip, MinInterval, Fill, {}),
              MCRain(NoGate, ONE, ShortDrip, MinInterval, Fill, {funder})>>

MCFound ==
    CASE scene = "one draw" ->
           \E entered \in {<<funder>>, <<funder, stranger>>} :
              MCHub(<<MCRain(NoGate, ONE, 1, 1, 0, ToSet(entered))>> \o Around,
                    1, entered, 1)
      [] scene = "demo"      -> Init
      [] scene = "left over" -> MCHub(Deployed \o LeftOver, 4, <<funder>>, 0)
      [] OTHER               -> MCHub(Deployed, 1, <<>>, 0)

\* No daily rains are looked after where the live proof is not run.
MCProofInit ==
    IF scene \in Live THEN ProofInit
    ELSE /\ proof = NoProof /\ left_short = {1, 2} /\ paid = {}
         /\ forgone = {} /\ passed = {} /\ proof_deaths = 0

MCInit ==
    /\ scene \in {"one draw", "demo"} \cup Live
    /\ MCFound
    /\ OneDrawInit /\ MCProofInit /\ demo = NoDemo

MCNext ==
    /\ \/ scene = "one draw" /\ OneDrawNext /\ UNCHANGED <<proofVars, demo>>
       \/ scene = "demo" /\ DemoNext /\ UNCHANGED <<playerVars, proofVars>>
       \/ /\ scene \in Live /\ ProofNext
          /\ scene # "death" => proof_deaths' = 0
          /\ \A k \in DOMAIN tickets' :
                k[2] = funder \/ (k[2] = stranger /\ scene = "stranger")
          /\ UNCHANGED <<playerVars, demo>>
    /\ round' <= MCHorizon /\ next_rain_id' <= MCRains
    /\ \A r \in DOMAIN held' : held'[r] <= MCMostHeld
    /\ UNCHANGED scene

MCSpec == MCInit /\ [][MCNext]_sceneVars
=============================================================================
