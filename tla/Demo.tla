-------------------------------- MODULE Demo --------------------------------
(***************************************************************************)
(* The two demonstrations, each on a hub of its own that it has just       *)
(* created: scripts/rain_demo.py rains ALGO on its players through a       *)
(* keeper, scripts/community_rain_demo.py an asset on the one holder of a  *)
(* collection, after an impostor was turned away.  Both assert what fell,  *)
(* to the last unit.  The hub is open to everybody from its first call on, *)
(* and the demonstrations may be run where there is somebody else.         *)
(*                                                                         *)
(* Abstractions.  The upkeep is only the round it is due in: Keeper has    *)
(* the registry.  What a demonstration does among its own accounts before  *)
(* it calls the hub (paying them, minting, opting in) is one step.         *)
(***************************************************************************)
EXTENDS Scripts, SequencesExt

CONSTANTS
    Guests,                 \* the accounts it makes; the holder, the outsider
    Nft, Prize, Fake,       \* the collection's asset, the prize, and the
                            \* asset that the outsider minted
    DemoDrip, DemoInterval, DemoPot

ASSUME DemoAssumption ==
    /\ Guests \in Seq(Accounts \ {HubCreator})
    /\ IsInjective(Guests) /\ Len(Guests) >= 2
    /\ HubCreator \in Accounts /\ Nft \in Assets /\ Prize \in Clean
    /\ Fake \in Assets /\ CreatorOf[Fake] # CreatorOf[Nft]
    /\ DemoDrip >= Len(Guests) /\ DemoPot >= DemoDrip
    /\ DemoInterval \in MinInterval .. MaxInterval

\* A demonstration's calls are like anybody's; the minter of the collection is
\* an account, and not the zero address.
ASSUME DemoOffersAssumption ==
    /\ SPLIT \in Modes /\ 0 \in WaveCaps /\ DemoDrip \in Drips
    /\ DemoInterval \in Intervals /\ DemoPot \in Amounts
    /\ CreatorOf[Nft] \in Gates \ {NoGate}
    /\ {AppBaseMbr, AssetOptInMbr, RainBoxMbr, TicketMbr} \subseteq MbrPayments

VARIABLE demo   \* the local variables of the run, and where it is

\* rain: its rain on the hub; todo: the accounts a loop has left; until: the
\* round waited for; alone: nobody else entered its rain, added to its pot or
\* drew.
NoDemo == [kind |-> "rain", at |-> "idle", rain |-> 0, todo |-> <<>>,
           until |-> 0, alone |-> TRUE]

demoVars == <<vars, demo>>

DemoAt(step) == demo.at = step
DemoGoes(step) == demo' = [demo EXCEPT !.at = step]

Community == demo.kind = "community"
Holder    == Guests[1]
Outsider  == Guests[2]

\* Who takes part, and what each is to get of a drop.
Entrants  == IF Community THEN <<Holder>> ELSE Guests
DemoShare == DemoDrip \div Len(Entrants)

-----------------------------------------------------------------------------
(* The hub is set up and entered *)

\* The holder has the collection's asset and opts in to the prize; the
\* outsider has its own.
DemoBegins(kind) ==
    /\ DemoAt("idle")
    /\ holding' = IF kind = "rain" THEN holding
                  ELSE [holding EXCEPT ![Nft][Holder] = "some",
                                       ![Prize][Holder] = "empty",
                                       ![Fake][Outsider] = "some"]
    /\ demo' = [NoDemo EXCEPT !.kind = kind, !.at = "bootstrap"]
    /\ UNCHANGED <<round, boxes, hub, held>>

DemoBootstraps ==
    /\ DemoAt("bootstrap")
    /\ Bootstrap(HubCreator, AppBaseMbr)
    /\ DemoGoes(IF Community THEN "opt_in" ELSE "open")

DemoOptsIn ==
    /\ DemoAt("opt_in")
    /\ OptInPrizeAsset(Prize, AssetOptInMbr)
    /\ DemoGoes("open")

\* The rain's id is the call's answer: others may have opened rains before it.
DemoOpens ==
    /\ DemoAt("open")
    /\ CreateRain(HubCreator, IF Community THEN CreatorOf[Nft] ELSE NoGate,
                  IF Community THEN Prize ELSE Algo, DemoDrip, DemoInterval,
                  SPLIT, 0, RainBoxMbr)
    /\ demo' = [demo EXCEPT !.at = "enter", !.rain = next_rain_id',
                            !.todo = Entrants]

DemoEnters ==
    /\ DemoAt("enter")
    /\ Enter(Head(demo.todo), demo.rain, TicketMbr)
    /\ demo' = [demo EXCEPT !.todo = Tail(@),
           !.at = IF Len(demo.todo) > 1 THEN "enter"
                  ELSE IF Community THEN "impostor" ELSE "deposit"]

\* Let in, the run fails; refused for its asset, it goes on.
ImpostorTries ==
    /\ DemoAt("impostor")
    /\ \/ Enter(Outsider, demo.rain, TicketMbr) /\ DemoGoes("failed")
       \/ /\ ~GatePassed(rains[demo.rain], Outsider)
          /\ DemoGoes("deposit")
          /\ UNCHANGED vars

DemoDeposits ==
    /\ DemoAt("deposit")
    /\ Deposit(demo.rain, DemoPot)
    /\ DemoGoes("until")

-----------------------------------------------------------------------------
(* The drop, and what is asserted of it *)

\* The round the upkeep registered now is due in; or so many rounds after the
\* node's last one.
\* Mutant: so many rounds, and not so many more.
DueFromZero == DemoInterval

DueFromNow == IF Community THEN round - 1 + DemoInterval
                           ELSE round + DemoInterval

DemoSetsDue ==
    /\ DemoAt("until")
    /\ demo' = [demo EXCEPT !.at = "draw", !.until = DueFromNow]
    /\ UNCHANGED vars

\* One pass of the keeper, which finds the upkeep due, or draw itself.
DemoDraws ==
    /\ DemoAt("draw")
    /\ Reached(demo.until)
    /\ Draw
    /\ DemoGoes("check")

\* Where it fell on the holder alone the accumulator is not looked at.
PotAsExpected(rec) ==
    /\ rec.pot = DemoPot - DemoShare * Len(Entrants)
    /\ ~Community => rec.cumulative = DemoShare

DemoChecks ==
    /\ DemoAt("check")
    /\ demo' = IF PotAsExpected(rains[demo.rain])
               THEN [demo EXCEPT !.todo = Entrants,
                                 !.at = IF Community THEN "claim" ELSE "owed"]
               ELSE [demo EXCEPT !.at = "failed"]
    /\ UNCHANGED vars

DemoAsks ==
    /\ DemoAt("owed")
    /\ DemoGoes(IF AllocationOf(demo.rain, Head(demo.todo)) = DemoShare
                THEN "claim" ELSE "failed")
    /\ UNCHANGED vars

\* With the last claim (and the upkeep cancelled) it has passed.
DemoClaims ==
    /\ DemoAt("claim")
    /\ Claim(Head(demo.todo), demo.rain)
    /\ demo' = [demo EXCEPT !.todo = Tail(@),
           !.at = IF held[demo.rain] - held'[demo.rain] # DemoShare
                  THEN "failed"
                  ELSE IF Len(demo.todo) > 1 THEN "owed" ELSE "passed"]

DemoStep ==
    \/ \E kind \in {"rain", "community"} : DemoBegins(kind)
    \/ DemoBootstraps \/ DemoOptsIn \/ DemoOpens \/ DemoEnters \/ ImpostorTries
    \/ DemoDeposits \/ DemoSetsDue \/ DemoDraws \/ DemoChecks \/ DemoAsks
    \/ DemoClaims

\* Everybody else.
DemoWorld ==
    \/ Tick /\ UNCHANGED demo
    \/ /\ \E a \in Accounts \ (ToSet(Guests) \cup {HubCreator}) :
            CreateRain(a, NoGate, Algo, DemoDrip, DemoInterval, SPLIT, 0,
                       RainBoxMbr)
       /\ UNCHANGED demo
    \/ /\ \/ \E a \in Accounts \ (ToSet(Guests) \cup {HubCreator}) :
                Enter(a, demo.rain, TicketMbr)
          \/ \E amount \in Amounts : Deposit(demo.rain, amount)
          \/ Draw
       /\ demo' = [demo EXCEPT !.alone = FALSE]

DemoNext == DemoStep \/ DemoWorld

DemoSpec == Init /\ demo = NoDemo /\ [][DemoNext]_demoVars
-----------------------------------------------------------------------------
(* Properties *)

\* A demonstration finds fault with the hub only if somebody else meddled, or
\* its hub has more rains than one draw visits: otherwise one interval after
\* the last call the drop has fallen, in equal shares, the remainder is still
\* in the pot and the impostor is out, however long each request takes
\* (rain_demo.py:164-171, community_rain_demo.py:162 and 188).
DemoTrue ==
    DemoAt("failed") => ~demo.alone \/ next_rain_id > DrawScan
=============================================================================
