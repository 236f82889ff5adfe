------------------------------ MODULE Standing ------------------------------
(***************************************************************************)
(* What the repository's own readers say of a rain from its box alone.     *)
(* The client library says whether a rain is due and, if it is not, why    *)
(* (js/src/rain.ts); scripts/seed_wave_pot.py says how much money a rain   *)
(* is short of and deposits it.  Both repeat the contract's arithmetic, so *)
(* each is checked against TryFire in every state the hub reaches.         *)
(***************************************************************************)
EXTENDS Rain

CONSTANT WaveCounts   \* what --waves of seed_wave_pot may say

ASSUME WavesAssumption == WaveCounts \subseteq Nat \ {0}

AtLeastZero(n) == IF n > 0 THEN n ELSE 0

-----------------------------------------------------------------------------
(* js/src/rain.ts *)

\* Mutant: the figure in the box, without the shares that come back.
PayablePotBox(rec) == rec.pot

PayablePot(rec) ==
    IF rec.mode = WAVE THEN rec.pot + rec.last_share * rec.wave_unclaimed
                       ELSE rec.pot

\* dropCost: the people, what each gets and what leaves the pot.
Count(rec)     == IF rec.mode = WAVE THEN rec.wave_count ELSE rec.tickets
DropShare(rec) ==
    IF rec.mode = ONE THEN rec.drip
    ELSE IF Count(rec) = 0 THEN 0
    ELSE rec.drip \div Count(rec)
DropPaid(rec)  ==
    IF rec.mode = ONE THEN (IF rec.tickets > 0 THEN rec.drip ELSE 0)
                      ELSE DropShare(rec) * Count(rec)

\* waitingReason, as whether it names one.
Waiting(rec) ==
    \/ rec.mode = ONE /\ rec.prize_locked > 0
    \/ Count(rec) = 0
    \/ rec.mode # ONE /\ DropShare(rec) = 0
    \/ PayablePot(rec) < DropPaid(rec)

RoundsUntilRain(rec) ==
    IF rec.last_rain_round = 0 THEN 0
    ELSE rec.last_rain_round + rec.interval_rounds - round

Standing(rec) ==
    IF Waiting(rec) THEN "waiting"
    ELSE IF RoundsUntilRain(rec) <= 0 THEN "due"
    ELSE "scheduled"

\* The drops the pot still holds.  A wave nobody is in is priced at one head.
RainsRemaining(rec) ==
    LET heads == IF rec.mode = WAVE /\ rec.wave_count = 0 THEN 1
                                                          ELSE Count(rec)
        share == IF heads = 0 THEN 0 ELSE rec.drip \div heads
    IN IF rec.drip = 0 \/ heads = 0 THEN 0
       ELSE IF rec.mode = ONE THEN PayablePot(rec) \div rec.drip
       ELSE IF share = 0 THEN 0
       ELSE PayablePot(rec) \div (share * heads)

-----------------------------------------------------------------------------
(* scripts/seed_wave_pot.py *)

\* shortfall's second result, as whether there is one.
Blocked(rec) ==
    \/ rec.mode = ONE /\ rec.prize_locked > 0
    \/ rec.mode = WAVE /\ rec.wave_count = 0
    \/ rec.mode # WAVE /\ rec.tickets = 0
    \/ rec.mode # ONE /\ Share(rec) = 0

\* shortfall's first result.
\* Mutant: WAVE's arithmetic over every rain, as its first version had it.
ShortfallWave(rec) ==
    IF Blocked(rec) \/ rec.wave_count = 0 THEN 0
    ELSE AtLeastZero((rec.drip \div rec.wave_count) * rec.wave_count
                        - rec.pot - rec.last_share * rec.wave_unclaimed)

Shortfall(rec) ==
    IF Blocked(rec) THEN 0
    ELSE AtLeastZero(CASE rec.mode = WAVE  -> Paid(rec) - Recycled(rec)
                       [] rec.mode = SPLIT -> Paid(rec) - rec.pot
                       [] OTHER            -> rec.drip - rec.pot)

\* main: what it deposits for that many waves; nothing in a blocked rain.
SeedDeposit(rec, waves) ==
    IF Blocked(rec) THEN 0
    ELSE IF Shortfall(rec) > rec.drip * waves THEN Shortfall(rec)
    ELSE rec.drip * waves

-----------------------------------------------------------------------------
(* What they promise of the contract *)

Fires(rec)        == TryFire(rec).draw_id # rec.draw_id
WithPot(rec, pot) == [rec EXCEPT !.pot = pot]

\* A rain reads `due` exactly when the next draw that visits it pays a drop,
\* and what it says is left in the pot is no less than that drop: so no reader
\* is told a drop is coming that the contract declines, or that none is when it
\* would (js/src/rain.ts:536, "a rain can never be told it is due and told why
\* it is not in the same breath"; :452, no "Drops left 0" beside one coming).
StandingTrue ==
    \A r \in DOMAIN rains :
        LET rec == rains[r] IN
        /\ (Standing(rec) = "due") <=> Fires(rec)
        /\ Standing(rec) = "due" => RainsRemaining(rec) > 0
        /\ ~Blocked(rec) => (RainsRemaining(rec) > 0 <=> ~Waiting(rec))

\* shortfall asks for exactly the money that makes a due rain fire: with it the
\* rain fires, with one unit less it does not, and a rain it calls blocked
\* fires with no pot at all; what main deposits then pays the waves it was
\* asked for (scripts/seed_wave_pot.py:57, "What the pot needs before this rain
\* will pay, and why if it cannot").
ShortfallExact ==
    \A r \in DOMAIN rains :
        LET rec  == rains[r]
            need == Shortfall(rec)
        IN Due(rec) =>
            IF Blocked(rec)
            THEN ~Fires(WithPot(rec, Supply + rec.drip))
            ELSE /\ Fires(WithPot(rec, rec.pot + need))
                 /\ need > 0 => ~Fires(WithPot(rec, rec.pot + need - 1))
                 /\ \A waves \in WaveCounts :
                        RainsRemaining(WithPot(rec,
                            rec.pot + SeedDeposit(rec, waves))) >= waves
=============================================================================
