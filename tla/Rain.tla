-------------------------------- MODULE Rain --------------------------------
(***************************************************************************)
(* The hub of rains (smart_contracts/rain/contract.py).  One application   *)
(* keeps every rain in a box, every ticket in a box and, for the lottery   *)
(* mode, one index box per ticket.  Each ABI method is one action: the AVM *)
(* runs a call to its end or rolls it back, so a call whose assertions     *)
(* fail is no step, and a call that changes nothing is a stuttering step.  *)
(*                                                                         *)
(* Abstractions.  A rain's label is left out.  Money enters from anyone,   *)
(* so a deposit has no depositor.  Of the prize and gate assets only what  *)
(* the contract reads is kept: whether an account has opted in and whether *)
(* it holds any.                                                           *)
(***************************************************************************)
EXTENDS Integers, FiniteSets, Functions, Sums

CONSTANTS
    Accounts,     \* accounts that may open rains, hold tickets and claim
    HubCreator,   \* the account that deployed the hub
    Assets,       \* assets that may be prizes or gate tokens
    Clean,        \* the assets with no clawback, freeze or manager address
    CreatorOf,    \* the account that minted an asset
    Algo,         \* prize_asset 0: the pot is in ALGO
    NoGate,       \* gate_creator zero: entry is open to all
    DrawScan, MinInterval, MaxInterval, CommitDelay, SeedWindow,
    AppBaseMbr, AssetOptInMbr, RainBoxMbr, TicketMbr, IndexMbr,
    MaxUint,      \* the largest AVM integer, 2^64 - 1 on chain
    Supply        \* the most of any one denomination there is

CONSTANTS  \* what callers offer, and the horizon
    Modes, Drips, Intervals, WaveCaps, Gates, Amounts, MbrPayments,
    MaxRains, MaxRound

SPLIT == 0
ONE   == 1
WAVE  == 2

ASSUME AccountsAssumption == IsFiniteSet(Accounts)
ASSUME ScanAssumption  == DrawScan \in Nat \ {0}
ASSUME TimingAssumption ==
    /\ MinInterval \in Nat \ {0} /\ MaxInterval \in Nat
    /\ CommitDelay \in Nat \ {0} /\ SeedWindow \in Nat
ASSUME WordAssumption ==
    MaxUint \in Nat /\ Supply \in Nat /\ Supply <= MaxUint
ASSUME MbrAssumption ==
    /\ AppBaseMbr \in Nat /\ AssetOptInMbr \in Nat /\ RainBoxMbr \in Nat
    /\ TicketMbr \in Nat /\ IndexMbr \in Nat /\ MbrPayments \subseteq Nat
ASSUME AssetsAssumption ==
    /\ IsFiniteSet(Assets) /\ Algo \notin Assets /\ Clean \subseteq Assets
    /\ DOMAIN CreatorOf = Assets
ASSUME InputAssumption ==
    /\ Modes \subseteq {SPLIT, ONE, WAVE} /\ Drips \subseteq 0 .. MaxUint
    /\ Intervals \subseteq Nat /\ WaveCaps \subseteq 0 .. MaxUint
    /\ Amounts \subseteq Nat /\ MaxRains \in Nat /\ MaxRound \in Nat \ {0}

VARIABLES
    round,         \* Global.round
    bootstrapped,
    next_rain_id,
    cursor,
    rains,         \* rain boxes:   id -> RainRec
    tickets,       \* ticket boxes: <<id, account>> -> Ticket
    indexes,       \* index boxes:  <<id, n>> -> account
    opted_in,      \* the assets the hub holds
    holding,       \* holding[x][a]: what account a has of asset x
    reserve,       \* ALGO received as minimum-balance payments
    held           \* held[id]: what deposits to that rain brought in, less
                   \* what claims on it took out; the hub's balance of a
                   \* denomination is the sum over its rains

boxes  == <<rains, tickets, indexes>>
hub    == <<bootstrapped, next_rain_id, cursor, opted_in, reserve>>
vars   == <<round, boxes, hub, holding, held>>

-----------------------------------------------------------------------------
(* Records *)

RainRec ==
    [creator : Accounts, gate_creator : Gates \cup {NoGate},
     prize_asset : Assets \cup {Algo}, mode : {SPLIT, ONE, WAVE},
     drip : Nat, interval_rounds : Nat \ {0}, last_rain_round : Nat,
     pot : Nat, tickets : Nat, draw_id : Nat, cumulative : Nat,
     wave_cap : Nat, wave_count : Nat, last_share : Nat,
     last_wave_id : Nat, wave_unclaimed : Nat,
     commit_round : Nat, prize_locked : Nat]

Ticket == [credit : Nat, wave_id : Nat, settled_id : Nat]

\* What an account has of an asset.
Holdings == {"out", "empty", "some"}

\* Box.value = v: the box is created, or overwritten if it is there.
Put(f, k, v) == [x \in DOMAIN f \cup {k} |-> IF x = k THEN v ELSE f[x]]

Holders(r)  == {a \in Accounts : <<r, a>> \in DOMAIN tickets}

\* _require_gate: some asset of the collection is held, and is not the prize.
GatePassed(rec, a) ==
    rec.gate_creator # NoGate =>
        \E x \in Assets : /\ holding[x][a] = "some"
                          /\ CreatorOf[x] = rec.gate_creator
                          /\ x # rec.prize_asset

\* _require_mbr: the payment covers the box it is for.
MbrPaid(mbr, minimum) == mbr >= minimum

\* _pay: an ALGO payment arrives; an asset reaches only who has opted in to it.
CanBePaid(rec, a) ==
    rec.prize_asset # Algo => holding[rec.prize_asset][a] # "out"

-----------------------------------------------------------------------------
(* Settling the last WAVE drop, on a rain and one of its tickets *)

Unsettled(rec, t) ==
    /\ rec.mode = WAVE
    /\ t.wave_id = rec.last_wave_id
    /\ t.settled_id # rec.last_wave_id

\* Mutant: every visit is counted as a settlement.
SettledRecAgain(rec, t) ==
    IF rec.mode = WAVE /\ rec.wave_unclaimed > 0
    THEN [rec EXCEPT !.wave_unclaimed = @ - 1]
    ELSE rec

SettledRec(rec, t) ==
    IF Unsettled(rec, t) /\ rec.wave_unclaimed > 0
    THEN [rec EXCEPT !.wave_unclaimed = @ - 1]
    ELSE rec

\* Mutant: the share replaces what was settled before.
SettledTicketOver(rec, t) ==
    IF Unsettled(rec, t)
    THEN [t EXCEPT !.credit = rec.last_share,
                   !.settled_id = rec.last_wave_id]
    ELSE t

SettledTicket(rec, t) ==
    IF Unsettled(rec, t)
    THEN [t EXCEPT !.credit = @ + rec.last_share,
                   !.settled_id = rec.last_wave_id]
    ELSE t

\* allocation_of: what the ticket's holder could claim now.
Allocation(rec, t) ==
    CASE rec.mode = SPLIT    -> rec.cumulative - t.credit
      [] Unsettled(rec, t)   -> t.credit + rec.last_share
      [] OTHER               -> t.credit

AllocationOf(r, a) ==
    IF <<r, a>> \in DOMAIN tickets
    THEN Allocation(rains[r], tickets[<<r, a>>])
    ELSE 0

-----------------------------------------------------------------------------
(* Firing one rain: _try_fire and its three cases *)

\* Mutant: the interval ends a round early.
DueEarly(rec) == \/ rec.last_rain_round = 0
                 \/ round + 1 >= rec.last_rain_round + rec.interval_rounds

Due(rec) == \/ rec.last_rain_round = 0
            \/ round >= rec.last_rain_round + rec.interval_rounds

\* How many a SPLIT or WAVE drop is divided among, and each one's share.
Sharers(rec) == IF rec.mode = WAVE THEN rec.wave_count ELSE rec.tickets
Share(rec)   == IF Sharers(rec) = 0 THEN 0 ELSE rec.drip \div Sharers(rec)
Paid(rec)    == Share(rec) * Sharers(rec)

\* The pot a WAVE drop is paid from: unclaimed shares have come back to it.
Recycled(rec) == rec.pot + rec.last_share * rec.wave_unclaimed

\* Mutant: the remainder of the division leaves the pot too.
FireSplitDrip(rec) ==
    IF Share(rec) > 0 /\ rec.pot >= rec.drip
    THEN [rec EXCEPT !.pot = @ - rec.drip,
                     !.cumulative = @ + Share(rec),
                     !.draw_id = @ + 1,
                     !.last_rain_round = round]
    ELSE rec

FireSplit(rec) ==
    IF Share(rec) > 0 /\ rec.pot >= Paid(rec)
    THEN [rec EXCEPT !.pot = @ - Paid(rec),
                     !.cumulative = @ + Share(rec),
                     !.draw_id = @ + 1,
                     !.last_rain_round = round]
    ELSE rec

WaveFalls(rec) ==
    [rec EXCEPT !.pot = Recycled(rec) - Paid(rec),
                !.draw_id = @ + 1,
                !.last_rain_round = round,
                !.last_share = Share(rec),
                !.last_wave_id = @ + 1,
                !.wave_unclaimed = rec.wave_count,
                !.wave_count = 0]

\* Mutant: a roll-back that clears nothing.
FireWaveUncleared(rec) ==
    IF rec.wave_count = 0 /\ rec.wave_unclaimed > 0
    THEN [rec EXCEPT !.pot = Recycled(rec)]
    ELSE IF Share(rec) > 0 /\ Recycled(rec) >= Paid(rec)
    THEN WaveFalls(rec)
    ELSE rec

FireWave(rec) ==
    IF rec.wave_count = 0 /\ rec.wave_unclaimed > 0
    THEN [rec EXCEPT !.pot = Recycled(rec),
                     !.wave_unclaimed = 0,
                     !.last_share = 0]
    ELSE IF Share(rec) > 0 /\ Recycled(rec) >= Paid(rec)
    THEN WaveFalls(rec)
    ELSE rec

PrizeLocked(rec) ==
    [rec EXCEPT !.pot = @ - rec.drip,
                !.prize_locked = rec.drip,
                !.commit_round = round + CommitDelay,
                !.draw_id = @ + 1,
                !.last_rain_round = round]

\* Mutant: a drop the pot cannot pay.
FireOneUnpaid(rec) ==
    IF rec.prize_locked = 0 /\ rec.tickets > 0 THEN PrizeLocked(rec) ELSE rec

FireOne(rec) ==
    IF rec.prize_locked = 0 /\ rec.tickets > 0 /\ rec.pot >= rec.drip
    THEN PrizeLocked(rec)
    ELSE rec

TryFire(rec) ==
    IF Due(rec)
    THEN CASE rec.mode = SPLIT -> FireSplit(rec)
           [] rec.mode = WAVE  -> FireWave(rec)
           [] OTHER            -> FireOne(rec)
    ELSE rec

\* The AVM refuses a sum past MaxUint, and with it the whole call.
FireOverflows(rec) == TryFire(rec).cumulative > MaxUint

-----------------------------------------------------------------------------
Init ==
    /\ round = 1
    /\ bootstrapped = 0 /\ next_rain_id = 0 /\ cursor = 0
    /\ rains = [r \in {} |-> 0]
    /\ tickets = [k \in {} |-> 0]
    /\ indexes = [k \in {} |-> 0]
    /\ opted_in = {}
    /\ holding = [x \in Assets |-> [a \in Accounts |-> "out"]]
    /\ reserve = 0
    /\ held = [r \in {} |-> 0]

(* The chain: blocks pass, and accounts come by assets and part with them. *)

Tick ==
    /\ round < MaxRound
    /\ round' = round + 1
    /\ UNCHANGED <<boxes, hub, holding, held>>

Trade(a, x, h) ==
    /\ holding' = [holding EXCEPT ![x][a] = h]
    /\ UNCHANGED <<round, boxes, hub, held>>

(* The hub's set-up *)

Bootstrap(a, mbr) ==
    /\ a = HubCreator
    /\ bootstrapped = 0
    /\ MbrPaid(mbr, AppBaseMbr)
    /\ bootstrapped' = 1
    /\ reserve' = reserve + mbr
    /\ UNCHANGED <<round, boxes, next_rain_id, cursor, opted_in, holding,
                   held>>

OptInPrizeAsset(x, mbr) ==
    /\ bootstrapped = 1
    /\ x \in Clean \ opted_in
    /\ MbrPaid(mbr, AssetOptInMbr)
    /\ opted_in' = opted_in \cup {x}
    /\ reserve' = reserve + mbr
    /\ UNCHANGED <<round, boxes, bootstrapped, next_rain_id, cursor, holding,
                   held>>

TermsValid(drip, interval) ==
    drip > 0 /\ interval >= MinInterval /\ interval <= MaxInterval

CreateRain(a, gate, prize, drip, interval, mode, cap, mbr) ==
    /\ next_rain_id < MaxRains
    /\ bootstrapped = 1
    /\ TermsValid(drip, interval)
    /\ (mode = WAVE) <=> (cap > 0)
    /\ prize # Algo => prize \in opted_in
    /\ MbrPaid(mbr, RainBoxMbr)
    /\ next_rain_id' = next_rain_id + 1
    /\ rains' = Put(rains, next_rain_id + 1,
            [creator |-> a, gate_creator |-> gate, prize_asset |-> prize,
             mode |-> mode, drip |-> drip, interval_rounds |-> interval,
             last_rain_round |-> round, pot |-> 0, tickets |-> 0,
             draw_id |-> 0, cumulative |-> 0, wave_cap |-> cap,
             wave_count |-> 0, last_share |-> 0, last_wave_id |-> 0,
             wave_unclaimed |-> 0, commit_round |-> 0, prize_locked |-> 0])
    /\ held' = Put(held, next_rain_id + 1, 0)
    /\ reserve' = reserve + mbr
    /\ UNCHANGED <<round, tickets, indexes, bootstrapped, cursor, opted_in,
                   holding>>

SetRain(a, r, drip, interval) ==
    /\ r \in DOMAIN rains
    /\ rains[r].creator = a
    /\ TermsValid(drip, interval)
    /\ rains' = [rains EXCEPT ![r] = [rains[r] EXCEPT
               !.drip = drip, !.interval_rounds = interval]]
    /\ UNCHANGED <<round, tickets, indexes, hub, holding, held>>

(* Holders *)

\* The seat a new ticket or a check-in takes in the open WAVE drop, if any.
SeatFree(rec) == rec.mode = WAVE /\ rec.wave_count < rec.wave_cap

\* Mutant: the index box is not paid for.
EnterMbrTicket(rec) == TicketMbr

EnterMbr(rec) == IF rec.mode = ONE THEN TicketMbr + IndexMbr ELSE TicketMbr

\* A SPLIT ticket starts with what fell before it as its debt.
\* Mutant: it starts owed all of it.
EnterCreditPast(rec) == 0

EnterCredit(rec) == IF rec.mode = SPLIT THEN rec.cumulative ELSE 0

\* While a lottery's draw is open, nobody may join it.
\* Mutant: anybody may.
EntryOpenAlways(rec) == TRUE

EntryOpen(rec) == rec.mode = ONE => rec.prize_locked = 0

\* The number of a new lottery ticket.
\* Mutant: numbers from one.
TicketIndexOne(rec) == rec.tickets + 1

TicketIndex(rec) == rec.tickets

Enter(a, r, mbr) ==
    /\ r \in DOMAIN rains
    /\ LET rec == rains[r] IN
        /\ GatePassed(rec, a)
        /\ MbrPaid(mbr, EnterMbr(rec))
        /\ <<r, a>> \notin DOMAIN tickets
        /\ EntryOpen(rec)
        /\ indexes' = IF rec.mode = ONE
                      THEN Put(indexes, <<r, TicketIndex(rec)>>, a)
                      ELSE indexes
        /\ tickets' = Put(tickets, <<r, a>>,
               [credit |-> EnterCredit(rec),
                wave_id |-> IF SeatFree(rec) THEN rec.last_wave_id + 1 ELSE 0,
                settled_id |-> 0])
        /\ rains' = [rains EXCEPT ![r] = [rec EXCEPT
               !.tickets = @ + 1,
               !.wave_count = IF SeatFree(rec) THEN @ + 1 ELSE @]]
    /\ reserve' = reserve + mbr
    /\ UNCHANGED <<round, bootstrapped, next_rain_id, cursor, opted_in,
                   holding, held>>

Gm(a, r) ==
    /\ <<r, a>> \in DOMAIN tickets
    /\ rains[r].mode = WAVE
    /\ GatePassed(rains[r], a)
    /\ LET rec  == SettledRec(rains[r], tickets[<<r, a>>])
           t    == SettledTicket(rains[r], tickets[<<r, a>>])
           open == rec.last_wave_id + 1
           in   == t.wave_id # open /\ SeatFree(rec)
       IN /\ tickets' = [tickets EXCEPT
                 ![<<r, a>>] = IF in THEN [t EXCEPT !.wave_id = open] ELSE t]
          /\ rains' = [rains EXCEPT
                 ![r] = IF in THEN [rec EXCEPT !.wave_count = @ + 1] ELSE rec]
    /\ UNCHANGED <<round, indexes, hub, holding, held>>

\* deposit and deposit_asset differ in the kind of payment they accept, and
\* each refuses the other's rains: between them any rain takes its own prize.
Deposit(r, amount) ==
    /\ r \in DOMAIN rains
    /\ amount > 0
    /\ held[r] + amount <= Supply
    /\ rains' = [rains EXCEPT ![r] = [rains[r] EXCEPT !.pot = @ + amount]]
    /\ held' = [held EXCEPT ![r] = @ + amount]
    /\ UNCHANGED <<round, tickets, indexes, hub, holding>>

\* claim, when something is owed: it is paid, or the call fails.
Claim(a, r) ==
    /\ <<r, a>> \in DOMAIN tickets
    /\ LET rec  == SettledRec(rains[r], tickets[<<r, a>>])
           t    == SettledTicket(rains[r], tickets[<<r, a>>])
           owed == IF rec.mode = SPLIT THEN rec.cumulative - t.credit
                                       ELSE t.credit
       IN /\ rains' = [rains EXCEPT ![r] = rec]
          /\ tickets' = [tickets EXCEPT ![<<r, a>>] =
                 IF owed = 0 THEN t
                 ELSE [t EXCEPT !.credit = IF rec.mode = SPLIT
                                           THEN rec.cumulative ELSE 0]]
          /\ owed > 0 => GatePassed(rec, a) /\ CanBePaid(rec, a)
          /\ held' = [held EXCEPT ![r] = @ - owed]
          /\ holding' = IF owed > 0 /\ rec.prize_asset # Algo
                        THEN [holding EXCEPT ![rec.prize_asset][a] = "some"]
                        ELSE holding
    /\ UNCHANGED <<round, indexes, hub>>

(* The scheduled call, and the lottery's two ends *)

\* draw visits DRAW_SCAN ids from the cursor on, wrapping around.  A rain is
\* fired by its own record alone, and firing it again changes nothing, so the
\* order of the visits and a second visit make no difference.
\* Mutant: every scan starts from the first rain.
VisitedFirst == {(step % next_rain_id) + 1 : step \in 0 .. DrawScan - 1}

Visited == {((cursor + step) % next_rain_id) + 1 : step \in 0 .. DrawScan - 1}

Drawn == [r \in DOMAIN rains |->
            IF r \in Visited THEN TryFire(rains[r]) ELSE rains[r]]

\* The same as the loop runs it: one _try_fire after another, each on the boxes
\* the one before it left.
DrawLoop[step \in 0 .. DrawScan] ==
    IF step = 0 THEN rains
    ELSE LET rid == ((cursor + step - 1) % next_rain_id) + 1
         IN [DrawLoop[step - 1] EXCEPT ![rid] = TryFire(@)]

DrawFails == next_rain_id > 0 /\ \E r \in Visited : FireOverflows(rains[r])

Draw ==
    /\ next_rain_id > 0
    /\ ~DrawFails
    /\ rains' = Drawn
    /\ cursor' = (cursor + DrawScan) % next_rain_id
    /\ UNCHANGED <<round, tickets, indexes, bootstrapped, next_rain_id,
                   opted_in, holding, reserve, held>>

DrawOpen(r) ==
    r \in DOMAIN rains /\ rains[r].mode = ONE /\ rains[r].prize_locked > 0

\* The block seed picks any index.
Resolve(r) ==
    /\ DrawOpen(r)
    /\ round > rains[r].commit_round
    /\ round <= rains[r].commit_round + SeedWindow
    /\ \E index \in 0 .. rains[r].tickets - 1 :
        /\ <<r, index>> \in DOMAIN indexes
        /\ LET winner == <<r, indexes[<<r, index>>]>> IN
            /\ winner \in DOMAIN tickets
            /\ tickets' = [tickets EXCEPT ![winner] =
                   [tickets[winner] EXCEPT !.credit = @ + rains[r].prize_locked]]
    /\ rains' = [rains EXCEPT ![r] = [rains[r] EXCEPT
           !.prize_locked = 0, !.commit_round = 0]]
    /\ UNCHANGED <<round, indexes, hub, holding, held>>

Abandon(r) ==
    /\ DrawOpen(r)
    /\ round > rains[r].commit_round + SeedWindow
    /\ rains' = [rains EXCEPT ![r] = [rains[r] EXCEPT
           !.pot = @ + rains[r].prize_locked,
           !.prize_locked = 0, !.commit_round = 0]]
    /\ UNCHANGED <<round, tickets, indexes, hub, holding, held>>

-----------------------------------------------------------------------------
RainIds == 1 .. MaxRains

Next ==
    \/ Tick
    \/ \E a \in Accounts, x \in Assets, h \in Holdings : Trade(a, x, h)
    \/ \E a \in Accounts \cup {HubCreator}, mbr \in MbrPayments :
            Bootstrap(a, mbr)
    \/ \E x \in Assets, mbr \in MbrPayments : OptInPrizeAsset(x, mbr)
    \/ \E a \in Accounts, gate \in Gates \cup {NoGate},
          prize \in Assets \cup {Algo}, drip \in Drips,
          interval \in Intervals, mode \in Modes, cap \in WaveCaps,
          mbr \in MbrPayments :
            CreateRain(a, gate, prize, drip, interval, mode, cap, mbr)
    \/ \E a \in Accounts, r \in RainIds, drip \in Drips,
          interval \in Intervals : SetRain(a, r, drip, interval)
    \/ \E a \in Accounts, r \in RainIds, mbr \in MbrPayments : Enter(a, r, mbr)
    \/ \E a \in Accounts, r \in RainIds : Gm(a, r) \/ Claim(a, r)
    \/ \E r \in RainIds, amount \in Amounts : Deposit(r, amount)
    \/ Draw
    \/ \E r \in RainIds : Resolve(r) \/ Abandon(r)

Spec == Init /\ [][Next]_vars

\* Blocks pass, the keeper goes on calling draw, and somebody closes a draw
\* that can be closed (rain_bot resolves and abandons).
Fairness ==
    /\ WF_vars(Tick)
    /\ WF_vars(Draw)
    /\ \A r \in RainIds : WF_vars(Resolve(r) \/ Abandon(r))

FairSpec == Spec /\ Fairness
-----------------------------------------------------------------------------
(* Safety *)

Allocations(r) == [a \in Accounts |-> AllocationOf(r, a)]

\* The tickets seated in the open WAVE drop, and those of the last drop whose
\* share nobody has settled.
Seated(r)  == {a \in Holders(r) :
                 tickets[<<r, a>>].wave_id = rains[r].last_wave_id + 1}
Pending(r) == {a \in Holders(r) : Unsettled(rains[r], tickets[<<r, a>>])}

Seats(r) == {k[2] : k \in {j \in DOMAIN indexes : j[1] = r}}

\* The boxes hold what their layout says, under ids given out in order.
TypeOK ==
    /\ round \in Nat \ {0} /\ bootstrapped \in {0, 1}
    /\ next_rain_id \in Nat /\ cursor \in Nat /\ reserve \in Nat
    /\ opted_in \subseteq Assets
    /\ holding \in [Assets -> [Accounts -> Holdings]]
    /\ rains \in [1 .. next_rain_id -> RainRec]
    /\ held \in [1 .. next_rain_id -> Int]
    /\ DOMAIN tickets \subseteq (1 .. next_rain_id) \X Accounts
    /\ \A k \in DOMAIN tickets : tickets[k] \in Ticket
    /\ DOMAIN indexes \subseteq (1 .. next_rain_id) \X Nat
    /\ \A k \in DOMAIN indexes : indexes[k] \in Accounts

\* A ticket is never ahead of its rain: a SPLIT ticket's debt is at most the
\* accumulator (claim subtracts one from the other), and a WAVE ticket is
\* seated in no drop past the open one and settled for none that has not fallen.
InStep(r) ==
    \A a \in Holders(r) :
        LET rec == rains[r]
            t   == tickets[<<r, a>>]
        IN /\ rec.mode = SPLIT => t.credit <= rec.cumulative
           /\ rec.mode = WAVE  => /\ t.wave_id <= rec.last_wave_id + 1
                                  /\ t.settled_id <= rec.last_wave_id

TicketsInStep == \A r \in DOMAIN rains : InStep(r)

\* What a rain's depositors put in, less what it paid out, is to the last unit
\* its pot, its locked prize and what its ticket holders can claim: no drop,
\* settlement, roll-back, resolve or abandon makes or loses money, and no rain
\* is paid from another's pot (requirements.md "The hub takes nothing",
\* REQ-rain-016).
Solvent(r) ==
    held[r] = rains[r].pot + rains[r].prize_locked + Total(Allocations(r))

Solvency == \A r \in DOMAIN rains : Solvent(r)

\* The counters in a rain box count its ticket boxes: tickets all of them,
\* wave_count the seats of the open drop, never past wave_cap, and
\* wave_unclaimed the shares of the last drop still to be settled, unless they
\* were taken back.  _fire_wave returns last_share * wave_unclaimed to the pot
\* on the strength of it (REQ-rain-011).
SeatsCounted(r) ==
    LET rec == rains[r] IN
    /\ rec.tickets = Cardinality(Holders(r))
    /\ rec.mode = WAVE =>
        /\ rec.wave_count = Cardinality(Seated(r))
        /\ rec.wave_count <= rec.wave_cap
        /\ IF rec.last_share = 0
           THEN rec.wave_unclaimed = 0
           ELSE rec.wave_unclaimed = Cardinality(Pending(r))

SeatsMatch == \A r \in DOMAIN rains : SeatsCounted(r)

\* What a rain's box says of its tickets and what the tickets say of their rain
\* agree, in both directions: the two above.
TicketsAgree == TicketsInStep /\ SeatsMatch

\* The index boxes of a lottery number its ticket holders 0 .. tickets - 1, one
\* number each, so seed % tickets always finds a ticket and every ticket can
\* win (the asserts "Missing ticket index" and "Missing ticket" in resolve).
IndexesMatch ==
    \A r \in DOMAIN rains :
        rains[r].mode = ONE =>
            /\ Seats(r) = 0 .. rains[r].tickets - 1
            /\ [i \in Seats(r) |-> indexes[<<r, i>>]]
                    \in Bijection(Seats(r), Holders(r))

\* Apart from the accumulator, which DrawFails guards, no sum a method writes
\* passes the AVM's integers, so none of these calls is refused for overflow.
WordsFit ==
    \A r \in DOMAIN rains :
        /\ rains[r].cumulative <= MaxUint
        /\ rains[r].pot + rains[r].prize_locked <= MaxUint
        /\ rains[r].mode = WAVE => Recycled(rains[r]) <= MaxUint
        /\ \A a \in Accounts :
              AllocationOf(r, a) + rains[r].prize_locked <= MaxUint

MinBalance ==
    AppBaseMbr + AssetOptInMbr * Cardinality(opted_in)
        + RainBoxMbr * Cardinality(DOMAIN rains)
        + TicketMbr * Cardinality(DOMAIN tickets)
        + IndexMbr * Cardinality(DOMAIN indexes)

\* The minimum-balance payments cover every box and opt-in the hub has, so the
\* ALGO of the pots is never what keeps the account above its minimum and a
\* claim in ALGO is never refused for it (REQ-rain-001, REQ-rain-021).
BoxesFunded == bootstrapped = 1 => reserve >= MinBalance

-----------------------------------------------------------------------------
(* What a step may do *)

\* Whatever raises what an account can claim is a drop it held a ticket for
\* before the drop: the one SPLIT or WAVE drop of that step, by its share, or
\* the resolve of the locked prize, by all of it and for one account
\* (REQ-rain-010, REQ-rain-011, REQ-rain-014).
CreditOnlyByDrop ==
    [][\A r \in DOMAIN rains, a \in Accounts :
         AllocationOf(r, a)' > AllocationOf(r, a) =>
            /\ a \in Holders(r)
            /\ \/ /\ rains[r].mode # ONE
                  /\ rains'[r].draw_id = rains[r].draw_id + 1
                  /\ AllocationOf(r, a)' = AllocationOf(r, a) + Share(rains[r])
                  /\ rains[r].mode = WAVE => a \in Seated(r)
               \/ /\ rains[r].mode = ONE
                  /\ rains[r].prize_locked > 0
                  /\ rains'[r].prize_locked = 0
                  /\ AllocationOf(r, a)' =
                        AllocationOf(r, a) + rains[r].prize_locked
                  /\ \A b \in Accounts \ {a} :
                        AllocationOf(r, b)' = AllocationOf(r, b)]_vars

\* What an account can claim falls in two ways only.  Either it is paid out in
\* full, to that account and out of that rain alone; or it was a WAVE share
\* nobody settled, which goes back to the pot when the rain next fires, and
\* what had been settled stays (REQ-rain-011, REQ-rain-016).
CreditOnlyLostWhenDue ==
    [][\A r \in DOMAIN rains, a \in Accounts :
         AllocationOf(r, a)' < AllocationOf(r, a) =>
            \/ /\ AllocationOf(r, a)' = 0
               /\ held' = [held EXCEPT ![r] = @ - AllocationOf(r, a)]
               /\ \A b \in Accounts \ {a} :
                     AllocationOf(r, b)' = AllocationOf(r, b)
            \/ /\ a \in Pending(r)
               /\ Due(rains[r])
               /\ AllocationOf(r, a)' = tickets[<<r, a>>].credit
               /\ held' = held]_vars

\* Money leaves a pot only as a drop: at most drip, once per call whatever the
\* scan visits, and no sooner than interval_rounds after the drop before
\* (REQ-rain-006, REQ-rain-007).
PotFallsByDrop ==
    [][\A r \in DOMAIN rains :
         rains'[r].pot < rains[r].pot \/ rains'[r].draw_id # rains[r].draw_id =>
            /\ rains'[r].draw_id = rains[r].draw_id + 1
            /\ rains'[r].last_rain_round = round
            /\ round >= rains[r].last_rain_round + rains[r].interval_rounds
            /\ rains'[r].pot >= rains[r].pot - rains[r].drip]_vars

\* While a prize is locked, the numbering its winner is drawn from stands
\* still: the same accounts hold the same indexes until the draw is closed
\* (REQ-rain-013, rain.spec.md invariant 16).
OutcomeFixed ==
    [][\A r \in DOMAIN rains :
         DrawOpen(r) /\ DrawOpen(r)' =>
            /\ rains'[r].commit_round = rains[r].commit_round
            /\ rains'[r].prize_locked = rains[r].prize_locked
            /\ rains'[r].tickets = rains[r].tickets
            /\ \A i \in Seats(r) : indexes'[<<r, i>>] = indexes[<<r, i>>]]_vars

\* The loop and Draw's one step agree, also where a hub of fewer rains than
\* DRAW_SCAN makes the loop visit a rain twice in a call: the second visit
\* neither pays a second drop nor takes back a second time (REQ-rain-006,
\* REQ-rain-007).
SecondVisitIsVain == next_rain_id > 0 => DrawLoop[DrawScan] = Drawn

\* draw can always be called: nothing a rain's record holds makes it reject
\* (rain.spec.md invariant 1, REQ-rain-005).
DrawNeverFails == ~DrawFails

-----------------------------------------------------------------------------
(* What the hub is for *)

Promise == INSTANCE Tills WITH
               Rains <- RainIds,
               till  <- held,
               due   <- [r \in DOMAIN rains |-> Allocations(r)],
               mode  <- [r \in DOMAIN rains |-> rains[r].mode]

\* The hub implements Tills: to depositors and holders it is a till per rain
\* with what is due from it, however the waves, seats, draws and locks inside
\* it go (requirements.md "The hub takes nothing", REQ-rain-016).
KeepsTills == Promise!Spec

-----------------------------------------------------------------------------
(* Liveness *)

DrawOpenFor(r, c) == DrawOpen(r) /\ rains[r].commit_round = c

\* A locked prize does not stay locked: a draw committed early enough for its
\* window to close within the horizon is resolved or abandoned (REQ-rain-015).
LockEnds ==
    \A r \in RainIds, c \in 1 .. MaxRound - SeedWindow - 1 :
        DrawOpenFor(r, c) ~> ~DrawOpenFor(r, c)

\* A rain that would fire if draw visited it fires, however many rains share
\* the hub, or it stops being able to: the cursor comes round (REQ-rain-006).
Fireable(r) ==
    r \in DOMAIN rains /\ TryFire(rains[r]).draw_id # rains[r].draw_id

EveryRainServed ==
    \A r \in RainIds : \A d \in 0 .. MaxRound :
        (Fireable(r) /\ rains[r].draw_id = d)
            ~> (~Fireable(r) \/ rains[r].draw_id # d)
=============================================================================
