----------------------------- MODULE MCRainBot -----------------------------
(* The rain bot on small hubs that have been set up: what precedes the bot's *)
(* first prize is no concern of it.                                          *)
EXTENDS RainBot, TLC

CONSTANTS bot, bob

MCBot  == {bot}
MCBoth == {bot, bob}
MCCreatorOf == [x \in Assets |-> bot]

\* Tickets are numbered in some order of entry.
MCOrder == CHOOSE f \in [0 .. Cardinality(Accounts) - 1 -> Accounts] :
              IsInjective(f)

\* A rain of round 1 that every account has entered: the first of them took a
\* WAVE rain's only seat.
MCRain(mode, drip) ==
    [creator |-> Bot, gate_creator |-> NoGate, prize_asset |-> Algo,
     mode |-> mode, drip |-> drip, interval_rounds |-> MinInterval,
     last_rain_round |-> 1, pot |-> 0, tickets |-> Cardinality(Accounts),
     draw_id |-> 0, cumulative |-> 0,
     wave_cap |-> IF mode = WAVE THEN 1 ELSE 0,
     wave_count |-> IF mode = WAVE THEN 1 ELSE 0,
     last_share |-> 0, last_wave_id |-> 0, wave_unclaimed |-> 0,
     commit_round |-> 0, prize_locked |-> 0]

MCTicket(mode, a) ==
    [credit |-> 0, settled_id |-> 0,
     wave_id |-> IF mode = WAVE /\ a = MCOrder[0] THEN 1 ELSE 0]

\* A lottery, and a rain of any of the modes.
MCReady ==
    /\ round = 1 /\ bootstrapped = 1 /\ cursor = 0
    /\ next_rain_id = MaxRains
    /\ opted_in = {} /\ holding = [x \in Assets |-> <<>>]
    /\ \E mode \in [RainIds -> Modes], drip \in [RainIds -> Drips] :
        /\ mode[1] = ONE
        /\ rains = [r \in RainIds |-> MCRain(mode[r], drip[r])]
        /\ tickets = [k \in RainIds \X Accounts |-> MCTicket(mode[k[1]], k[2])]
        /\ indexes = [k \in {r \in RainIds : mode[r] = ONE}
                              \X (0 .. Cardinality(Accounts) - 1)
                        |-> MCOrder[k[2]]]
    /\ reserve = MinBalance
    /\ held = [r \in RainIds |-> 0]
    /\ job = [p \in Runs |-> Idle]
    /\ file = NoFile
    /\ taken = [r \in RainIds |-> 0]
    /\ fails = 0

MCBotSpec     == MCReady /\ [][BotNext]_allVars
MCFairBotSpec == MCBotSpec /\ BotFairness
=============================================================================
