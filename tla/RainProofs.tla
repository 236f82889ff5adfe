----------------------------- MODULE RainProofs -----------------------------
(* What holds of the hub for every number of accounts, rains and rounds.     *)
EXTENDS Rain, SumsProofs

USE DEF SPLIT, ONE, WAVE

-----------------------------------------------------------------------------
(* Records *)

\* Writing a box keeps a collection of boxes well typed.
LEMMA PutType ==
  ASSUME NEW S, NEW V, NEW f \in [S -> V], NEW k, NEW v \in V
  PROVE  Put(f, k, v) \in [S \cup {k} -> V]
BY DEF Put

\* A quotient of naturals is one, and dividing drops nothing but a remainder.
LEMMA Quotient ==
  ASSUME NEW n \in Nat, NEW d \in Nat, d > 0
  PROVE  n \div d \in Nat /\ (n \div d) * d \in Nat /\ (n \div d) * d <= n
OBVIOUS

\* Products of naturals are naturals.
LEMMA Product ==
  ASSUME NEW m \in Nat, NEW n \in Nat
  PROVE  m * n \in Nat
OBVIOUS

\* The amounts a fire computes are naturals.
LEMMA AmountsType ==
  ASSUME NEW rec \in RainRec
  PROVE  /\ Sharers(rec) \in Nat
         /\ Share(rec) \in Nat
         /\ Paid(rec) \in Nat
         /\ Recycled(rec) \in Nat
         /\ Share(rec) > 0 => Sharers(rec) > 0
<1>1. /\ rec.drip \in Nat /\ rec.tickets \in Nat /\ rec.wave_count \in Nat
      /\ rec.pot \in Nat /\ rec.last_share \in Nat /\ rec.wave_unclaimed \in Nat
  BY DEF RainRec
<1>2. Sharers(rec) \in Nat
  BY <1>1 DEF Sharers
<1>3. Share(rec) \in Nat /\ (Share(rec) > 0 => Sharers(rec) > 0)
  BY <1>1, <1>2, Quotient DEF Share
<1>4. Paid(rec) \in Nat
  BY <1>2, <1>3, Product DEF Paid
<1>5. Recycled(rec) \in Nat
  BY <1>1, Product DEF Recycled
<1> QED
  BY <1>2, <1>3, <1>4, <1>5

\* Firing leaves a rain's terms, its ticket count and its record type alone.
LEMMA FireType ==
  ASSUME NEW rec \in RainRec, round \in Nat
  PROVE  /\ TryFire(rec) \in RainRec
         /\ TryFire(rec).mode = rec.mode
         /\ TryFire(rec).tickets = rec.tickets
         /\ TryFire(rec).wave_cap = rec.wave_cap
<1> DEFINE Good(new) == /\ new \in RainRec
                        /\ new.mode = rec.mode
                        /\ new.tickets = rec.tickets
                        /\ new.wave_cap = rec.wave_cap
<1>1. /\ Paid(rec) \in Nat /\ Share(rec) \in Nat /\ Recycled(rec) \in Nat
      /\ round + CommitDelay \in Nat
  BY AmountsType, TimingAssumption
<1>2. Good(rec)
  OBVIOUS
<1>3. Good(FireSplit(rec))
  <2>1. CASE Share(rec) > 0 /\ rec.pot >= Paid(rec)
    <3>1. rec.pot - Paid(rec) \in Nat /\ rec.cumulative + Share(rec) \in Nat
          /\ rec.draw_id + 1 \in Nat
      BY <1>1, <2>1 DEF RainRec
    <3> QED
      BY <2>1, <3>1 DEF FireSplit, RainRec
  <2> QED
    BY <1>2, <2>1 DEF FireSplit
<1>4. Good(FireWave(rec))
  <2>1. CASE rec.wave_count = 0 /\ rec.wave_unclaimed > 0
    BY <1>1, <2>1 DEF FireWave, WaveFalls, RainRec
  <2>2. CASE /\ ~(rec.wave_count = 0 /\ rec.wave_unclaimed > 0)
             /\ Share(rec) > 0 /\ Recycled(rec) >= Paid(rec)
    <3>1. Recycled(rec) - Paid(rec) \in Nat /\ rec.last_wave_id + 1 \in Nat
          /\ rec.draw_id + 1 \in Nat
      BY <1>1, <2>2 DEF RainRec
    <3> QED
      BY <1>1, <2>2, <3>1 DEF FireWave, WaveFalls, RainRec
  <2> QED
    BY <1>2, <2>1, <2>2 DEF FireWave, WaveFalls
<1>5. Good(FireOne(rec))
  <2>1. CASE rec.prize_locked = 0 /\ rec.tickets > 0 /\ rec.pot >= rec.drip
    <3>1. rec.pot - rec.drip \in Nat /\ rec.draw_id + 1 \in Nat
      BY <2>1 DEF RainRec
    <3> QED
      BY <1>1, <2>1, <3>1 DEF FireOne, PrizeLocked, RainRec
  <2> QED
    BY <1>2, <2>1 DEF FireOne, PrizeLocked
<1> HIDE DEF Good
<1>6. Good(TryFire(rec))
  BY <1>2, <1>3, <1>4, <1>5 DEF TryFire
<1> QED
  BY <1>6 DEF Good

\* Settling a ticket leaves both records well typed.
LEMMA SettleType ==
  ASSUME NEW rec \in RainRec, NEW t \in Ticket
  PROVE  SettledRec(rec, t) \in RainRec /\ SettledTicket(rec, t) \in Ticket
<1>1. rec.last_share \in Nat /\ rec.last_wave_id \in Nat /\ t.credit \in Nat
      /\ rec.wave_unclaimed \in Nat
  BY DEF RainRec, Ticket
<1>2. rec.wave_unclaimed > 0 => rec.wave_unclaimed - 1 \in Nat
  BY <1>1
<1>3. SettledRec(rec, t) \in RainRec
  BY <1>2 DEF SettledRec, RainRec
<1>4. t.credit + rec.last_share \in Nat
  BY <1>1
<1>5. SettledTicket(rec, t) \in Ticket
  BY <1>1, <1>4 DEF SettledTicket, Ticket
<1> QED
  BY <1>3, <1>5

-----------------------------------------------------------------------------
(* Type correctness *)

\* Overwriting a rain box, or a ticket box, with a well-typed record.
LEMMA RainWrite ==
  ASSUME TypeOK, NEW r \in 1 .. next_rain_id, NEW rec \in RainRec
  PROVE  [rains EXCEPT ![r] = rec] \in [1 .. next_rain_id -> RainRec]
BY DEF TypeOK

LEMMA TicketWrite ==
  ASSUME TypeOK, NEW k \in DOMAIN tickets, NEW t \in Ticket
  PROVE  LET new == [tickets EXCEPT ![k] = t]
         IN  DOMAIN new = DOMAIN tickets /\ \A j \in DOMAIN new : new[j] \in Ticket
BY DEF TypeOK

LEMMA TypeInit == Init => TypeOK
BY TimingAssumption DEF Init, TypeOK, Holdings

LEMMA TypeTick == ASSUME TypeOK, Tick PROVE TypeOK'
BY DEF TypeOK, Tick, boxes, hub

LEMMA TypeTrade ==
  ASSUME TypeOK, NEW a \in Accounts, NEW x \in Assets, NEW h \in Holdings,
         Trade(a, x, h)
  PROVE  TypeOK'
BY DEF TypeOK, Trade, boxes, hub

LEMMA TypeSetUp ==
  ASSUME TypeOK, NEW mbr \in MbrPayments,
         \/ \E a \in Accounts \cup {HubCreator} : Bootstrap(a, mbr)
         \/ \E x \in Assets : OptInPrizeAsset(x, mbr)
  PROVE  TypeOK'
<1>1. reserve + mbr \in Nat
  BY MbrAssumption DEF TypeOK
<1> QED
  BY <1>1, AssetsAssumption DEF TypeOK, Bootstrap, OptInPrizeAsset, boxes

LEMMA TypeCreate ==
  ASSUME TypeOK, NEW a \in Accounts, NEW gate \in Gates \cup {NoGate},
         NEW prize \in Assets \cup {Algo}, NEW drip \in Drips,
         NEW interval \in Intervals, NEW mode \in Modes, NEW cap \in WaveCaps,
         NEW mbr \in MbrPayments,
         CreateRain(a, gate, prize, drip, interval, mode, cap, mbr)
  PROVE  TypeOK'
<1> DEFINE n   == next_rain_id + 1
           rec == rains'[n]
<1>1. /\ next_rain_id \in Nat /\ n \in Nat /\ reserve + mbr \in Nat
      /\ (1 .. next_rain_id) \cup {n} = 1 .. n
      /\ (1 .. next_rain_id) \X Accounts \subseteq (1 .. n) \X Accounts
      /\ (1 .. next_rain_id) \X Nat \subseteq (1 .. n) \X Nat
  BY MbrAssumption DEF TypeOK
<1>2. /\ drip \in Nat /\ interval \in Nat \ {0} /\ cap \in Nat /\ round \in Nat
      /\ mode \in {SPLIT, ONE, WAVE}
  BY InputAssumption, TimingAssumption, WordAssumption
  DEF TypeOK, CreateRain, TermsValid
<1>3. rec \in RainRec
  BY <1>2 DEF CreateRain, Put, RainRec
<1>4. rains' \in [1 .. n -> RainRec]
  <2>1. rains' = Put(rains, n, rec)
    BY DEF CreateRain, Put
  <2>2. Put(rains, n, rec) \in [(1 .. next_rain_id) \cup {n} -> RainRec]
    BY <1>3, PutType DEF TypeOK
  <2> QED
    BY <1>1, <2>1, <2>2
<1>5. held' \in [1 .. n -> Int]
  <2>1. Put(held, n, 0) \in [(1 .. next_rain_id) \cup {n} -> Int]
    <3>1. held \in [1 .. next_rain_id -> Int] /\ 0 \in Int
      BY DEF TypeOK
    <3> HIDE DEF n
    <3> QED
      BY <3>1, PutType
  <2> QED
    BY <1>1, <2>1 DEF CreateRain
<1> QED
  BY <1>1, <1>4, <1>5 DEF TypeOK, CreateRain

LEMMA TypeSetRain ==
  ASSUME TypeOK, NEW a \in Accounts, NEW r \in RainIds, NEW drip \in Drips,
         NEW interval \in Intervals, SetRain(a, r, drip, interval)
  PROVE  TypeOK'
<1>1. drip \in Nat /\ interval \in Nat \ {0} /\ r \in 1 .. next_rain_id
  BY InputAssumption, TimingAssumption, WordAssumption
  DEF TypeOK, SetRain, TermsValid
<1>2. rains[r] \in RainRec
  BY <1>1 DEF TypeOK
<1> DEFINE new == [rains[r] EXCEPT !.drip = drip, !.interval_rounds = interval]
<1>3. new \in RainRec
  BY <1>1, <1>2 DEF RainRec
<1>4. rains' = [rains EXCEPT ![r] = new]
  BY DEF SetRain
<1> HIDE DEF new
<1>5. rains' \in [1 .. next_rain_id -> RainRec]
  BY <1>1, <1>3, <1>4, RainWrite
<1> QED
  BY <1>5 DEF TypeOK, SetRain, hub

LEMMA TypeEnter ==
  ASSUME TypeOK, NEW a \in Accounts, NEW r \in RainIds, NEW mbr \in MbrPayments,
         Enter(a, r, mbr)
  PROVE  TypeOK'
<1> DEFINE rec == rains[r]
           t   == [credit |-> EnterCredit(rec),
                   wave_id |-> IF SeatFree(rec) THEN rec.last_wave_id + 1 ELSE 0,
                   settled_id |-> 0]
<1>1. r \in 1 .. next_rain_id /\ rec \in RainRec /\ reserve + mbr \in Nat
  BY MbrAssumption DEF TypeOK, Enter
<1>2. /\ rec.tickets + 1 \in Nat /\ rec.wave_count + 1 \in Nat
      /\ rec.last_wave_id + 1 \in Nat /\ rec.cumulative \in Nat
      /\ rec.tickets \in Nat
  BY <1>1 DEF RainRec
<1>3. t \in Ticket
  BY <1>2 DEF Ticket, EnterCredit
<1>4. rains' \in [1 .. next_rain_id -> RainRec]
  BY <1>1, <1>2 DEF TypeOK, Enter, RainRec
<1>5. /\ DOMAIN tickets' \subseteq (1 .. next_rain_id) \X Accounts
      /\ \A k \in DOMAIN tickets' : tickets'[k] \in Ticket
  <2>1. tickets' = Put(tickets, <<r, a>>, t)
    BY DEF Enter
  <2> HIDE DEF t
  <2> QED
    BY <1>1, <1>3, <2>1 DEF TypeOK, Put
<1>6. /\ DOMAIN indexes' \subseteq (1 .. next_rain_id) \X Nat
      /\ \A k \in DOMAIN indexes' : indexes'[k] \in Accounts
  BY <1>1, <1>2 DEF TypeOK, Enter, Put, TicketIndex
<1> QED
  BY <1>1, <1>4, <1>5, <1>6 DEF TypeOK, Enter

LEMMA TypeGm ==
  ASSUME TypeOK, NEW a \in Accounts, NEW r \in RainIds, Gm(a, r)
  PROVE  TypeOK'
<1> DEFINE rec == SettledRec(rains[r], tickets[<<r, a>>])
           t   == SettledTicket(rains[r], tickets[<<r, a>>])
<1>1. r \in 1 .. next_rain_id
  BY DEF TypeOK, Gm
<1>2. rec \in RainRec /\ t \in Ticket
  BY <1>1, SettleType DEF TypeOK, Gm
<1>3. rec.last_wave_id + 1 \in Nat /\ rec.wave_count + 1 \in Nat
  BY <1>2 DEF RainRec
<1>4. /\ [t EXCEPT !.wave_id = rec.last_wave_id + 1] \in Ticket
      /\ [rec EXCEPT !.wave_count = @ + 1] \in RainRec
  <2> HIDE DEF rec, t
  <2> QED
    BY <1>2, <1>3 DEF RainRec, Ticket
<1>5. rains' \in [1 .. next_rain_id -> RainRec]
  BY <1>1, <1>2, <1>4 DEF TypeOK, Gm
<1>6. DOMAIN tickets' = DOMAIN tickets
      /\ \A k \in DOMAIN tickets' : tickets'[k] \in Ticket
  BY <1>2, <1>4 DEF TypeOK, Gm
<1> QED
  BY <1>5, <1>6 DEF TypeOK, Gm, hub

LEMMA TypeDeposit ==
  ASSUME TypeOK, NEW r \in RainIds, NEW amount \in Nat, Deposit(r, amount)
  PROVE  TypeOK'
<1>1. r \in 1 .. next_rain_id /\ rains[r] \in RainRec
      /\ held[r] + amount \in Int
  BY DEF TypeOK, Deposit
<1>2. rains[r].pot + amount \in Nat
  BY <1>1 DEF RainRec
<1> DEFINE new == [rains[r] EXCEPT !.pot = @ + amount]
<1>3. new \in RainRec
  BY <1>1, <1>2 DEF RainRec
<1>4. rains' = [rains EXCEPT ![r] = new]
  BY DEF Deposit
<1> HIDE DEF new
<1>5. rains' \in [1 .. next_rain_id -> RainRec]
  BY <1>1, <1>3, <1>4, RainWrite
<1> QED
  BY <1>1, <1>5 DEF TypeOK, Deposit, hub

LEMMA TypeClaim ==
  ASSUME TypeOK, NEW a \in Accounts, NEW r \in RainIds, Claim(a, r)
  PROVE  TypeOK'
<1> DEFINE rec  == SettledRec(rains[r], tickets[<<r, a>>])
           t    == SettledTicket(rains[r], tickets[<<r, a>>])
           owed == IF rec.mode = SPLIT THEN rec.cumulative - t.credit
                                       ELSE t.credit
           t2   == IF owed = 0 THEN t
                   ELSE [t EXCEPT !.credit = IF rec.mode = SPLIT
                                             THEN rec.cumulative ELSE 0]
<1>1. r \in 1 .. next_rain_id
  BY DEF TypeOK, Claim
<1>2. rec \in RainRec /\ t \in Ticket
  BY <1>1, SettleType DEF TypeOK, Claim
<1>3. rec.cumulative \in Nat /\ t.credit \in Nat
  BY <1>2 DEF RainRec, Ticket
<1>4. owed \in Int /\ t2 \in Ticket
  <2> HIDE DEF rec, t
  <2> QED
    BY <1>2, <1>3 DEF Ticket
<1>5. /\ rains' = [rains EXCEPT ![r] = rec]
      /\ tickets' = [tickets EXCEPT ![<<r, a>>] = t2]
      /\ held' = [held EXCEPT ![r] = @ - owed]
  BY DEF Claim
<1>6. holding' \in [Assets -> [Accounts -> Holdings]]
  BY DEF Claim, TypeOK, Holdings
<1> HIDE DEF rec, t2, owed
<1>7. rains' \in [1 .. next_rain_id -> RainRec]
  BY <1>1, <1>2, <1>5 DEF TypeOK
<1>8. held' \in [1 .. next_rain_id -> Int]
  BY <1>1, <1>4, <1>5 DEF TypeOK
<1>9. /\ DOMAIN tickets' = DOMAIN tickets
      /\ \A k \in DOMAIN tickets' : tickets'[k] \in Ticket
  BY <1>4, <1>5 DEF TypeOK
<1>10. UNCHANGED <<round, indexes, hub>>
  BY DEF Claim
<1> QED
  BY <1>6, <1>7, <1>8, <1>9, <1>10 DEF TypeOK, hub

LEMMA TypeDraw == ASSUME TypeOK, Draw PROVE TypeOK'
<1>1. \A r \in 1 .. next_rain_id : TryFire(rains[r]) \in RainRec
  BY FireType DEF TypeOK
<1>2. rains' \in [1 .. next_rain_id -> RainRec]
  BY <1>1 DEF TypeOK, Draw, Drawn
<1>3. (cursor + DrawScan) % next_rain_id \in Nat
  BY ScanAssumption DEF TypeOK, Draw
<1> QED
  BY <1>2, <1>3 DEF TypeOK, Draw

LEMMA TypeClose ==
  ASSUME TypeOK, NEW r \in RainIds, Resolve(r) \/ Abandon(r)
  PROVE  TypeOK'
<1>1. r \in 1 .. next_rain_id /\ rains[r] \in RainRec
  BY DEF TypeOK, Resolve, Abandon, DrawOpen
<1>2. rains[r].prize_locked \in Nat
      /\ rains[r].pot + rains[r].prize_locked \in Nat
  BY <1>1 DEF RainRec
<1>3. CASE Resolve(r)
  <2> DEFINE new == [rains[r] EXCEPT !.prize_locked = 0, !.commit_round = 0]
  <2>1. new \in RainRec
    BY <1>1 DEF RainRec
  <2>2. rains' = [rains EXCEPT ![r] = new]
    BY <1>3 DEF Resolve
  <2>3. PICK k \in DOMAIN tickets : tickets' = [tickets EXCEPT
            ![k] = [tickets[k] EXCEPT !.credit = @ + rains[r].prize_locked]]
    BY <1>3 DEF Resolve
  <2> DEFINE t == [tickets[k] EXCEPT !.credit = @ + rains[r].prize_locked]
  <2>4. tickets[k] \in Ticket
    BY DEF TypeOK
  <2>5. tickets[k].credit + rains[r].prize_locked \in Nat
    BY <1>2, <2>4 DEF Ticket
  <2>6. t \in Ticket
    BY <2>4, <2>5 DEF Ticket
  <2>7. tickets' = [tickets EXCEPT ![k] = t]
    BY <2>3
  <2> HIDE DEF new, t
  <2>8. rains' \in [1 .. next_rain_id -> RainRec]
    BY <1>1, <2>1, <2>2, RainWrite
  <2>9. DOMAIN tickets' = DOMAIN tickets
        /\ \A j \in DOMAIN tickets' : tickets'[j] \in Ticket
    BY <2>6, <2>7, TicketWrite
  <2> QED
    BY <1>3, <2>8, <2>9 DEF TypeOK, Resolve, hub
<1>4. CASE Abandon(r)
  <2> DEFINE new == [rains[r] EXCEPT !.pot = @ + rains[r].prize_locked,
                                     !.prize_locked = 0, !.commit_round = 0]
  <2>1. new \in RainRec
    BY <1>1, <1>2 DEF RainRec
  <2>2. rains' = [rains EXCEPT ![r] = new]
    BY <1>4 DEF Abandon
  <2> HIDE DEF new
  <2>3. rains' \in [1 .. next_rain_id -> RainRec]
    BY <1>1, <2>1, <2>2, RainWrite
  <2> QED
    BY <1>4, <2>3 DEF TypeOK, Abandon, hub
<1> QED
  BY <1>3, <1>4

LEMMA TypeStep == TypeOK /\ [Next]_vars => TypeOK'
<1> SUFFICES ASSUME TypeOK, [Next]_vars  PROVE TypeOK'
  OBVIOUS
<1>1. CASE UNCHANGED vars
  BY <1>1 DEF TypeOK, vars, boxes, hub
<1>2. ASSUME NEW r \in RainIds, NEW amount \in Amounts, Deposit(r, amount)
      PROVE  TypeOK'
  BY <1>2, TypeDeposit, InputAssumption
<1>3. CASE Next
  BY <1>2, <1>3, TypeTick, TypeTrade, TypeSetUp, TypeCreate, TypeSetRain,
     TypeEnter, TypeGm, TypeClaim, TypeDraw, TypeClose DEF Next
<1> QED
  BY <1>1, <1>3

\* Every box always holds what its layout says, under ids given out in order.
THEOREM TypeCorrect == Spec => []TypeOK
<1> QED
  BY TypeInit, TypeStep, PTL DEF Spec

-----------------------------------------------------------------------------
(* How a step can touch one rain: not at all, by firing it, or by one call   *)
(* on it.                                                                    *)

TicketsSame(q) ==
    \A a \in Accounts :
        /\ <<q, a>> \in DOMAIN tickets' <=> <<q, a>> \in DOMAIN tickets
        /\ <<q, a>> \in DOMAIN tickets =>
               tickets'[<<q, a>>] = tickets[<<q, a>>]

IndexesSame(q) ==
    \A n \in Nat :
        /\ <<q, n>> \in DOMAIN indexes' <=> <<q, n>> \in DOMAIN indexes
        /\ <<q, n>> \in DOMAIN indexes =>
               indexes'[<<q, n>>] = indexes[<<q, n>>]

Untouched(q) ==
    /\ rains'[q] = rains[q] /\ held'[q] = held[q]
    /\ TicketsSame(q) /\ IndexesSame(q)

Fired(q) ==
    /\ rains'[q] = TryFire(rains[q]) /\ held' = held
    /\ TryFire(rains[q]).cumulative <= MaxUint
    /\ TicketsSame(q) /\ IndexesSame(q)

Called(q) ==
    \/ \E a \in Accounts, drip \in Drips, interval \in Intervals :
          SetRain(a, q, drip, interval)
    \/ \E a \in Accounts, mbr \in MbrPayments : Enter(a, q, mbr)
    \/ \E a \in Accounts : Gm(a, q) \/ Claim(a, q)
    \/ \E amount \in Amounts : Deposit(q, amount)
    \/ Resolve(q) \/ Abandon(q)

Fresh(q) ==
    /\ q \notin DOMAIN rains /\ held'[q] = 0
    /\ rains'[q].pot = 0 /\ rains'[q].prize_locked = 0 /\ rains'[q].tickets = 0
    /\ rains'[q].wave_count = 0 /\ rains'[q].last_share = 0
    /\ rains'[q].wave_unclaimed = 0 /\ rains'[q].cumulative = 0
    /\ \A a \in Accounts : <<q, a>> \notin DOMAIN tickets'
    /\ \A n \in Nat : <<q, n>> \notin DOMAIN indexes'

\* draw fires a rain or leaves it alone.
LEMMA DrawShape ==
  ASSUME TypeOK, Draw, NEW q \in DOMAIN rains'
  PROVE  q \in DOMAIN rains /\ (Untouched(q) \/ Fired(q))
<1>1. q \in DOMAIN rains /\ UNCHANGED <<tickets, indexes, held>>
  BY DEF Draw, Drawn
<1>2. CASE q \in Visited
  <2>1. TryFire(rains[q]).cumulative \in Nat /\ MaxUint \in Nat
    BY <1>1, FireType, WordAssumption DEF TypeOK, RainRec
  <2>2. ~FireOverflows(rains[q]) /\ rains'[q] = TryFire(rains[q])
    BY <1>1, <1>2 DEF Draw, Drawn, DrawFails
  <2> QED
    BY <1>1, <2>1, <2>2 DEF Fired, TicketsSame, IndexesSame, FireOverflows
<1>3. CASE q \notin Visited
  BY <1>1, <1>3 DEF Draw, Drawn, Untouched, TicketsSame, IndexesSame
<1> QED
  BY <1>1, <1>2, <1>3

\* A call on one rain leaves the others alone.
LEMMA CallTouchesOne ==
  ASSUME TypeOK, NEW r \in RainIds, Called(r)
  PROVE  /\ r \in DOMAIN rains /\ DOMAIN rains' = DOMAIN rains
         /\ \A q \in DOMAIN rains : q # r => Untouched(q)
<1>1. r \in DOMAIN rains /\ DOMAIN rains' = DOMAIN rains
  BY DEF Called, SetRain, Enter, Gm, Claim, Deposit, Resolve, Abandon,
         DrawOpen, TypeOK
<1>2. ASSUME NEW q \in DOMAIN rains, q # r  PROVE Untouched(q)
  <2>1. rains'[q] = rains[q]
    BY <1>2 DEF Called, SetRain, Enter, Gm, Claim, Deposit, Resolve,
                      Abandon
  <2>2. held'[q] = held[q]
    BY <1>1, <1>2, <2>1 DEF Called, SetRain, Enter, Gm, Claim, Deposit, Resolve,
                      Abandon, TypeOK
  <2>3. TicketsSame(q)
    <3>1. \A a, b : <<q, a>> # <<r, b>>
      BY <1>2
    <3>2. CASE UNCHANGED tickets
      BY <3>2 DEF TicketsSame
    <3>3. CASE \E b, t : tickets' = Put(tickets, <<r, b>>, t)
      BY <3>1, <3>3 DEF TicketsSame, Put
    <3>4. CASE \E b, t : tickets' = [tickets EXCEPT ![<<r, b>>] = t]
      BY <3>1, <3>4 DEF TicketsSame
    <3>5. CASE \E a \in Accounts, mbr \in MbrPayments : Enter(a, r, mbr)
      BY <3>3, <3>5 DEF Enter
    <3>6. CASE \E a \in Accounts : Gm(a, r) \/ Claim(a, r)
      BY <3>4, <3>6 DEF Gm, Claim
    <3>7. CASE Resolve(r)
      BY <3>4, <3>7 DEF Resolve
    <3> QED
      BY <3>2, <3>5, <3>6, <3>7
      DEF Called, SetRain, Deposit, Abandon
  <2>4. IndexesSame(q)
    <3>1. \A n, b : <<q, n>> # <<r, b>>
      BY <1>2
    <3>2. CASE UNCHANGED indexes
      BY <3>2 DEF IndexesSame
    <3>3. CASE \E n, a : indexes' = Put(indexes, <<r, n>>, a)
      BY <3>1, <3>3 DEF IndexesSame, Put
    <3> QED
      BY <3>2, <3>3
      DEF Called, SetRain, Enter, Gm, Claim, Deposit, Resolve, Abandon
  <2> QED
    BY <2>1, <2>2, <2>3, <2>4 DEF Untouched
<1> QED
  BY <1>1, <1>2

\* Every step leaves each rain untouched, fires it, is a call on it, or opens it.
LEMMA StepShape ==
  ASSUME TypeOK, [Next]_vars, NEW q \in DOMAIN rains'
  PROVE  \/ q \in DOMAIN rains /\ (Untouched(q) \/ Fired(q) \/ Called(q))
         \/ Fresh(q)
<1> DEFINE Goal == \/ q \in DOMAIN rains /\ (Untouched(q) \/ Fired(q) \/ Called(q))
                   \/ Fresh(q)
<1>1. CASE /\ UNCHANGED <<rains, tickets, indexes, held>>
  BY <1>1 DEF Untouched, TicketsSame, IndexesSame
<1>2. ASSUME Draw  PROVE Goal
  BY <1>2, DrawShape
<1>3. ASSUME NEW a \in Accounts, NEW gate \in Gates \cup {NoGate},
             NEW prize \in Assets \cup {Algo}, NEW drip \in Drips,
             NEW interval \in Intervals, NEW mode \in Modes,
             NEW cap \in WaveCaps, NEW mbr \in MbrPayments,
             CreateRain(a, gate, prize, drip, interval, mode, cap, mbr)
      PROVE  Goal
  <2>1. /\ next_rain_id \in Nat
        /\ DOMAIN rains = 1 .. next_rain_id /\ DOMAIN held = 1 .. next_rain_id
        /\ DOMAIN tickets \subseteq (1 .. next_rain_id) \X Accounts
        /\ DOMAIN indexes \subseteq (1 .. next_rain_id) \X Nat
    BY DEF TypeOK
  <2>2. UNCHANGED <<tickets, indexes>>
    BY <1>3 DEF CreateRain
  <2>3. CASE q = next_rain_id + 1
    <3>1. /\ rains'[q].pot = 0 /\ rains'[q].prize_locked = 0
          /\ rains'[q].tickets = 0 /\ rains'[q].wave_count = 0
          /\ rains'[q].last_share = 0 /\ rains'[q].wave_unclaimed = 0
          /\ rains'[q].cumulative = 0
      BY <1>3, <2>3 DEF CreateRain, Put
    <3>2. held'[q] = 0 /\ q \notin DOMAIN rains
      BY <1>3, <2>1, <2>3 DEF CreateRain, Put
    <3> QED
      BY <2>1, <2>2, <3>1, <3>2 DEF Fresh
  <2>4. CASE q # next_rain_id + 1
    <3>1. q \in DOMAIN rains /\ rains'[q] = rains[q] /\ held'[q] = held[q]
      BY <1>3, <2>1, <2>4 DEF CreateRain, Put
    <3> QED
      BY <2>2, <3>1 DEF Untouched, TicketsSame, IndexesSame
  <2> QED
    BY <2>3, <2>4
<1>4. ASSUME NEW r \in RainIds, Called(r)
      PROVE  Goal
  BY <1>4, CallTouchesOne
<1>5. ASSUME \/ Tick \/ UNCHANGED vars
             \/ \E a \in Accounts, x \in Assets, h \in Holdings : Trade(a, x, h)
             \/ \E a \in Accounts \cup {HubCreator}, mbr \in MbrPayments :
                  Bootstrap(a, mbr)
             \/ \E x \in Assets, mbr \in MbrPayments : OptInPrizeAsset(x, mbr)
      PROVE  Goal
  BY <1>1, <1>5 DEF Tick, Trade, Bootstrap, OptInPrizeAsset, boxes, vars
<1> HIDE DEF Goal
<1>6. ASSUME Next  PROVE Goal
  <2>1. CASE \E r \in RainIds : Called(r)
    BY <1>4, <2>1
  <2>2. CASE ~ \E r \in RainIds : Called(r)
    BY <1>2, <1>3, <1>5, <1>6, <2>2 DEF Next, Called
  <2> QED
    BY <2>1, <2>2
<1> QED
  BY <1>5, <1>6 DEF Goal

-----------------------------------------------------------------------------
(* The counters of a rain box *)

LEMMA HoldersFinite ==
  ASSUME NEW q
  PROVE  /\ IsFiniteSet(Holders(q)) /\ Cardinality(Holders(q)) \in Nat
         /\ IsFiniteSet(Seated(q)) /\ Cardinality(Seated(q)) \in Nat
         /\ IsFiniteSet(Pending(q)) /\ Cardinality(Pending(q)) \in Nat
<1>1. IsFiniteSet(Holders(q))
  BY AccountsAssumption, FS_Subset DEF Holders
<1>2. Seated(q) \in SUBSET Holders(q) /\ Pending(q) \in SUBSET Holders(q)
  BY DEF Seated, Pending
<1>3. IsFiniteSet(Seated(q)) /\ IsFiniteSet(Pending(q))
  BY <1>1, <1>2, FS_Subset
<1> QED
  BY <1>1, <1>3, FS_CardinalityType

\* What a ticket of q is, once the types are spelt out.
LEMMA TicketFacts ==
  ASSUME TypeOK, NEW q \in DOMAIN rains, NEW a \in Holders(q)
  PROVE  /\ <<q, a>> \in DOMAIN tickets
         /\ tickets[<<q, a>>] \in Ticket
         /\ tickets[<<q, a>>].credit \in Nat
         /\ tickets[<<q, a>>].wave_id \in Nat
         /\ tickets[<<q, a>>].settled_id \in Nat
BY DEF TypeOK, Holders, Ticket

LEMMA RainFacts ==
  ASSUME TypeOK, NEW q \in DOMAIN rains
  PROVE  /\ rains[q] \in RainRec
         /\ rains[q].mode \in {SPLIT, ONE, WAVE}
         /\ rains[q].drip \in Nat /\ rains[q].pot \in Nat
         /\ rains[q].tickets \in Nat /\ rains[q].cumulative \in Nat
         /\ rains[q].wave_cap \in Nat /\ rains[q].wave_count \in Nat
         /\ rains[q].last_share \in Nat /\ rains[q].last_wave_id \in Nat
         /\ rains[q].wave_unclaimed \in Nat /\ rains[q].prize_locked \in Nat
         /\ rains[q].commit_round \in Nat
         /\ round \in Nat /\ held[q] \in Int
BY DEF TypeOK, RainRec

\* A step that leaves what the counters are about alone.
SeatsQuiet(q) ==
    /\ rains'[q].mode = rains[q].mode
    /\ rains'[q].tickets = rains[q].tickets
    /\ rains'[q].wave_count = rains[q].wave_count
    /\ rains'[q].wave_cap = rains[q].wave_cap
    /\ rains'[q].last_share = rains[q].last_share
    /\ rains'[q].last_wave_id = rains[q].last_wave_id
    /\ rains'[q].wave_unclaimed = rains[q].wave_unclaimed
    /\ rains'[q].cumulative >= rains[q].cumulative
    /\ \A a \in Accounts :
          LET k == <<q, a>> IN
          /\ k \in DOMAIN tickets' <=> k \in DOMAIN tickets
          /\ k \in DOMAIN tickets =>
                /\ tickets'[k].wave_id = tickets[k].wave_id
                /\ tickets'[k].settled_id = tickets[k].settled_id
                /\ rains[q].mode = SPLIT =>
                       tickets'[k].credit = tickets[k].credit

LEMMA SeatsQuietKeeps ==
  ASSUME TypeOK, TypeOK', NEW q \in DOMAIN rains, q \in DOMAIN rains',
         SeatsQuiet(q), InStep(q), SeatsCounted(q)
  PROVE  InStep(q)' /\ SeatsCounted(q)'
<1>1. Holders(q)' = Holders(q)
  BY DEF Holders, SeatsQuiet
<1>2. Seated(q)' = Seated(q)
  BY <1>1 DEF Seated, SeatsQuiet, Holders
<1>3. Pending(q)' = Pending(q)
  BY <1>1 DEF Pending, Unsettled, SeatsQuiet, Holders
<1>4. SeatsCounted(q)'
  BY <1>1, <1>2, <1>3 DEF SeatsCounted, SeatsQuiet
<1>5. InStep(q)'
  <2> SUFFICES ASSUME NEW a \in Holders(q)
               PROVE  LET rec == rains'[q]
                          t   == tickets'[<<q, a>>]
                      IN /\ rec.mode = SPLIT => t.credit <= rec.cumulative
                         /\ rec.mode = WAVE =>
                              /\ t.wave_id <= rec.last_wave_id + 1
                              /\ t.settled_id <= rec.last_wave_id
    BY <1>1 DEF InStep
  <2>1. rains'[q].cumulative \in Nat /\ rains[q].cumulative \in Nat
        /\ tickets[<<q, a>>].credit \in Nat
    BY TicketFacts DEF TypeOK, RainRec
  <2> QED
    BY <2>1 DEF InStep, SeatsQuiet, Holders
<1> QED
  BY <1>4, <1>5

\* A SPLIT or ONE drop, or none, is quiet.
LEMMA FireQuiet ==
  ASSUME TypeOK, NEW q \in DOMAIN rains, TicketsSame(q),
         \/ rains'[q] = rains[q]
         \/ rains'[q] = FireSplit(rains[q])
         \/ rains'[q] = FireOne(rains[q])
  PROVE  SeatsQuiet(q)
<1>1. Share(rains[q]) \in Nat /\ rains[q].cumulative \in Nat
  BY RainFacts, AmountsType
<1>2. rains[q] \in RainRec
  BY RainFacts
<1>3. CASE rains'[q] = rains[q]
  BY <1>1, <1>3 DEF SeatsQuiet, TicketsSame
<1>4. CASE rains'[q] = FireSplit(rains[q])
  BY <1>1, <1>2, <1>4 DEF SeatsQuiet, TicketsSame, FireSplit, RainRec
<1>5. CASE rains'[q] = FireOne(rains[q])
  BY <1>1, <1>2, <1>5 DEF SeatsQuiet, TicketsSame, FireOne, PrizeLocked, RainRec
<1> QED
  BY <1>3, <1>4, <1>5

\* A WAVE drop seats nobody in the next drop and leaves the whole of the old
\* one pending.
LEMMA FireWaveKeepsSeats ==
  ASSUME TypeOK, TypeOK', NEW q \in DOMAIN rains, q \in DOMAIN rains',
         rains[q].mode = WAVE, rains'[q] = FireWave(rains[q]), TicketsSame(q),
         InStep(q), SeatsCounted(q)
  PROVE  InStep(q)' /\ SeatsCounted(q)'
<1> DEFINE rec == rains[q]
<1>1. rec \in RainRec /\ rec.last_wave_id \in Nat /\ rec.wave_count \in Nat
      /\ rec.tickets \in Nat /\ rec.wave_cap \in Nat
  BY RainFacts
<1>2. Holders(q)' = Holders(q)
      /\ \A a \in Holders(q) : tickets'[<<q, a>>] = tickets[<<q, a>>]
  BY DEF Holders, TicketsSame
<1>3. CASE rec.wave_count = 0 /\ rec.wave_unclaimed > 0
  <2>1. rains'[q] = [rec EXCEPT !.pot = Recycled(rec), !.wave_unclaimed = 0,
                                !.last_share = 0]
    BY <1>3 DEF FireWave, WaveFalls
  <2>2. /\ rains'[q].mode = WAVE /\ rains'[q].tickets = rec.tickets
        /\ rains'[q].wave_count = rec.wave_count
        /\ rains'[q].wave_cap = rec.wave_cap /\ rains'[q].last_share = 0
        /\ rains'[q].wave_unclaimed = 0
        /\ rains'[q].last_wave_id = rec.last_wave_id
    BY <1>1, <2>1 DEF RainRec
  <2>3. Seated(q)' = Seated(q)
    BY <1>2, <2>2 DEF Seated
  <2>4. SeatsCounted(q)'
    BY <1>2, <2>2, <2>3 DEF SeatsCounted
  <2>5. InStep(q)'
    BY <1>2, <2>2 DEF InStep
  <2> QED
    BY <2>4, <2>5
<1>4. CASE /\ ~(rec.wave_count = 0 /\ rec.wave_unclaimed > 0)
           /\ Share(rec) > 0 /\ Recycled(rec) >= Paid(rec)
  <2>1. rains'[q] = [rec EXCEPT !.pot = Recycled(rec) - Paid(rec),
                     !.draw_id = @ + 1, !.last_rain_round = round,
                     !.last_share = Share(rec), !.last_wave_id = @ + 1,
                     !.wave_unclaimed = rec.wave_count, !.wave_count = 0]
    BY <1>4 DEF FireWave, WaveFalls
  <2>2. /\ rains'[q].mode = WAVE /\ rains'[q].tickets = rec.tickets
        /\ rains'[q].wave_count = 0 /\ rains'[q].wave_cap = rec.wave_cap
        /\ rains'[q].last_share = Share(rec)
        /\ rains'[q].wave_unclaimed = rec.wave_count
        /\ rains'[q].last_wave_id = rec.last_wave_id + 1
    BY <1>1, <2>1 DEF RainRec
  <2>3. \A a \in Holders(q) :
           /\ tickets[<<q, a>>].wave_id \in Nat
           /\ tickets[<<q, a>>].wave_id <= rec.last_wave_id + 1
           /\ tickets[<<q, a>>].settled_id \in Nat
           /\ tickets[<<q, a>>].settled_id <= rec.last_wave_id
    BY TicketFacts DEF InStep
  <2>4. Seated(q)' = {}
    BY <1>1, <1>2, <2>2, <2>3 DEF Seated
  <2>5. Pending(q)' = Seated(q)
    <3>1. \A a \in Holders(q) : Unsettled(rains'[q], tickets'[<<q, a>>])
                 <=> tickets[<<q, a>>].wave_id = rec.last_wave_id + 1
      BY <1>1, <1>2, <2>2, <2>3 DEF Unsettled
    <3> QED
      BY <1>2, <3>1 DEF Pending, Seated
  <2>6. SeatsCounted(q)'
    <3>1. Cardinality({}) = 0 /\ Share(rec) \in Nat
      BY FS_EmptySet, <1>1, AmountsType
    <3> QED
      BY <1>1, <1>2, <1>4, <2>2, <2>4, <2>5, <3>1 DEF SeatsCounted
  <2>7. InStep(q)'
    BY <1>1, <1>2, <2>2, <2>3 DEF InStep
  <2> QED
    BY <2>6, <2>7
<1>5. CASE rains'[q] = rec
  BY <1>5, FireQuiet, SeatsQuietKeeps
<1> QED
  BY <1>3, <1>4, <1>5 DEF FireWave, WaveFalls

LEMMA FiredKeepsSeats ==
  ASSUME TypeOK, TypeOK', NEW q \in DOMAIN rains, q \in DOMAIN rains',
         Fired(q), InStep(q), SeatsCounted(q)
  PROVE  InStep(q)' /\ SeatsCounted(q)'
<1>1. TicketsSame(q) /\ rains'[q] = TryFire(rains[q])
  BY DEF Fired
<1>2. CASE rains[q].mode = WAVE /\ rains'[q] = FireWave(rains[q])
  BY <1>1, <1>2, FireWaveKeepsSeats
<1>3. CASE \/ rains'[q] = rains[q]
           \/ rains'[q] = FireSplit(rains[q])
           \/ rains'[q] = FireOne(rains[q])
  BY <1>1, <1>3, FireQuiet, SeatsQuietKeeps
<1> QED
  BY <1>1, <1>2, <1>3, RainFacts DEF TryFire

\* The part of claim and gm that settles account a's ticket on q; gm may then
\* seat it in the open drop.
SettledBy(q, a) ==
    LET rec == rains[q]
        t   == tickets[<<q, a>>]
        new == rains'[q]
        tk  == tickets'[<<q, a>>]
    IN /\ \A b \in Accounts :
             /\ <<q, b>> \in DOMAIN tickets' <=> <<q, b>> \in DOMAIN tickets
             /\ b # a /\ <<q, b>> \in DOMAIN tickets =>
                    tickets'[<<q, b>>] = tickets[<<q, b>>]
       /\ new.mode = rec.mode /\ new.tickets = rec.tickets
       /\ new.wave_cap = rec.wave_cap /\ new.last_share = rec.last_share
       /\ new.last_wave_id = rec.last_wave_id /\ new.cumulative = rec.cumulative
       /\ new.wave_unclaimed = SettledRec(rec, t).wave_unclaimed
       /\ tk.settled_id = SettledTicket(rec, t).settled_id
       /\ \/ tk.wave_id = t.wave_id /\ new.wave_count = rec.wave_count
          \/ /\ rec.mode = WAVE
             /\ t.wave_id # rec.last_wave_id + 1
             /\ rec.wave_count < rec.wave_cap
             /\ tk.wave_id = rec.last_wave_id + 1
             /\ new.wave_count = rec.wave_count + 1
       /\ rec.mode = SPLIT => tk.credit \in {t.credit, rec.cumulative}

LEMMA SettledByKeepsSeats ==
  ASSUME TypeOK, TypeOK', NEW q \in DOMAIN rains, q \in DOMAIN rains',
         NEW a \in Holders(q), SettledBy(q, a), InStep(q), SeatsCounted(q)
  PROVE  InStep(q)' /\ SeatsCounted(q)'
<1> DEFINE rec == rains[q]
           t   == tickets[<<q, a>>]
           tk  == tickets'[<<q, a>>]
<1>1. /\ rec.mode \in {SPLIT, ONE, WAVE}
      /\ rec.last_wave_id \in Nat /\ rec.wave_count \in Nat
      /\ rec.wave_cap \in Nat /\ rec.wave_unclaimed \in Nat
      /\ rec.last_share \in Nat /\ rec.cumulative \in Nat
  BY RainFacts
<1>2. t.wave_id \in Nat /\ t.settled_id \in Nat /\ t.credit \in Nat
      /\ t \in Ticket
  BY TicketFacts
<1>3. Holders(q)' = Holders(q)
  BY DEF Holders, SettledBy
<1>4. \A b \in Holders(q) \ {a} : tickets'[<<q, b>>] = tickets[<<q, b>>]
  BY DEF Holders, SettledBy
<1>5. SettledRec(rec, t).wave_unclaimed =
        IF Unsettled(rec, t) /\ rec.wave_unclaimed > 0
        THEN rec.wave_unclaimed - 1 ELSE rec.wave_unclaimed
  BY RainFacts DEF SettledRec, RainRec
<1>6. SettledTicket(rec, t).settled_id =
        IF Unsettled(rec, t) THEN rec.last_wave_id ELSE t.settled_id
  BY <1>2 DEF SettledTicket, Ticket
<1>7. InStep(q)'
  <2>1. \A b \in Holders(q) : tickets[<<q, b>>].wave_id \in Nat
    BY TicketFacts
  <2>2. /\ rec.mode = SPLIT => tk.credit <= rec.cumulative
        /\ rec.mode = WAVE  => /\ tk.wave_id <= rec.last_wave_id + 1
                               /\ tk.settled_id <= rec.last_wave_id
    BY <1>1, <1>2, <1>6 DEF InStep, SettledBy
  <2> QED
    BY <1>3, <1>4, <2>2 DEF InStep, SettledBy
<1>8. rec.mode = WAVE => Pending(q)' = Pending(q) \ {a}
  <2> SUFFICES ASSUME rec.mode = WAVE  PROVE Pending(q)' = Pending(q) \ {a}
    OBVIOUS
  <2>1. ~Unsettled(rains'[q], tk)
    BY <1>1, <1>2, <1>6 DEF Unsettled, SettledBy
  <2>2. \A b \in Holders(q) \ {a} : Unsettled(rains'[q], tickets'[<<q, b>>])
                                  <=> Unsettled(rec, tickets[<<q, b>>])
    BY <1>4 DEF Unsettled, SettledBy
  <2> QED
    BY <1>3, <2>1, <2>2 DEF Pending
<1>9. rec.mode = WAVE =>
          /\ rains'[q].wave_count = Cardinality(Seated(q)')
          /\ rains'[q].wave_count <= rec.wave_cap
  <2>1. CASE tk.wave_id = t.wave_id /\ rains'[q].wave_count = rec.wave_count
    <3>1. Seated(q)' = Seated(q)
      BY <1>3, <1>4, <2>1 DEF Seated, SettledBy
    <3> QED
      BY <2>1, <3>1 DEF SeatsCounted
  <2>2. CASE /\ rec.mode = WAVE
             /\ t.wave_id # rec.last_wave_id + 1
             /\ rec.wave_count < rec.wave_cap
             /\ tk.wave_id = rec.last_wave_id + 1
             /\ rains'[q].wave_count = rec.wave_count + 1
    <3>1. Seated(q)' = Seated(q) \cup {a} /\ a \notin Seated(q)
      BY <1>3, <1>4, <2>2 DEF Seated, SettledBy
    <3>2. Cardinality(Seated(q) \cup {a}) = Cardinality(Seated(q)) + 1
      BY <3>1, HoldersFinite, FS_AddElement
    <3> QED
      BY <1>1, <2>2, <3>1, <3>2 DEF SeatsCounted
  <2> QED
    BY <2>1, <2>2 DEF SettledBy
<1>10. rec.mode = WAVE =>
          IF rec.last_share = 0 THEN rains'[q].wave_unclaimed = 0
          ELSE rains'[q].wave_unclaimed = Cardinality(Pending(q)')
  <2> SUFFICES ASSUME rec.mode = WAVE
               PROVE  IF rec.last_share = 0 THEN rains'[q].wave_unclaimed = 0
                      ELSE rains'[q].wave_unclaimed = Cardinality(Pending(q)')
    OBVIOUS
  <2>1. CASE rec.last_share = 0
    BY <1>1, <1>5, <2>1 DEF SeatsCounted, SettledBy
  <2>2. CASE rec.last_share # 0 /\ a \in Pending(q)
    <3>1. Cardinality(Pending(q) \ {a}) = Cardinality(Pending(q)) - 1
      BY <2>2, HoldersFinite, FS_RemoveElement
    <3>2. Cardinality(Pending(q)) \in Nat /\ Cardinality(Pending(q)) # 0
      BY <2>2, HoldersFinite, FS_EmptySet
    <3>3. Unsettled(rec, t)
      BY <2>2 DEF Pending
    <3>4. rec.wave_unclaimed = Cardinality(Pending(q))
      BY <2>2 DEF SeatsCounted
    <3>5. rains'[q].wave_unclaimed = rec.wave_unclaimed - 1
      BY <1>1, <1>5, <3>2, <3>3, <3>4 DEF SettledBy
    <3> QED
      BY <1>8, <2>2, <3>1, <3>4, <3>5
  <2>3. CASE rec.last_share # 0 /\ a \notin Pending(q)
    <3>1. ~Unsettled(rec, t)
      BY <2>3 DEF Pending
    <3>2. Pending(q)' = Pending(q)
      BY <1>8, <2>3
    <3> QED
      BY <1>5, <2>3, <3>1, <3>2 DEF SeatsCounted, SettledBy
  <2> QED
    BY <2>1, <2>2, <2>3
<1>11. SeatsCounted(q)'
  BY <1>3, <1>9, <1>10 DEF SeatsCounted, SettledBy
<1> QED
  BY <1>7, <1>11

LEMMA SettlesBy ==
  ASSUME TypeOK, NEW q \in DOMAIN rains, NEW a \in Accounts,
         Gm(a, q) \/ Claim(a, q)
  PROVE  a \in Holders(q) /\ SettledBy(q, a)
<1> DEFINE rec == rains[q]
           k   == <<q, a>>
           t   == tickets[k]
           sr  == SettledRec(rec, t)
           st  == SettledTicket(rec, t)
<1>1. a \in Holders(q) /\ k \in DOMAIN tickets
  BY DEF Gm, Claim, Holders
<1>2. rec \in RainRec /\ t \in Ticket
  BY <1>1, RainFacts, TicketFacts
<1>3. sr \in RainRec /\ st \in Ticket
  BY <1>2, SettleType
<1>4. /\ sr.mode = rec.mode /\ sr.tickets = rec.tickets
      /\ sr.wave_cap = rec.wave_cap /\ sr.last_share = rec.last_share
      /\ sr.last_wave_id = rec.last_wave_id /\ sr.cumulative = rec.cumulative
      /\ sr.wave_count = rec.wave_count
      /\ st.wave_id = t.wave_id
      /\ rec.mode = SPLIT => st.credit = t.credit
  BY <1>2 DEF SettledRec, SettledTicket, Unsettled, RainRec, Ticket
<1> HIDE DEF sr, st
<1>5. CASE Gm(a, q)
  <2> DEFINE in == st.wave_id # sr.last_wave_id + 1 /\ SeatFree(sr)
             nt == IF in THEN [st EXCEPT !.wave_id = sr.last_wave_id + 1] ELSE st
             nr == IF in THEN [sr EXCEPT !.wave_count = @ + 1] ELSE sr
  <2>1. tickets' = [tickets EXCEPT ![k] = nt] /\ rains' = [rains EXCEPT ![q] = nr]
    BY <1>5 DEF Gm, sr, st
  <2>2. rec.mode = WAVE
    BY <1>5 DEF Gm
  <2>3. /\ nr.mode = rec.mode /\ nr.tickets = rec.tickets
        /\ nr.wave_cap = rec.wave_cap /\ nr.last_share = rec.last_share
        /\ nr.last_wave_id = rec.last_wave_id /\ nr.cumulative = rec.cumulative
        /\ nr.wave_unclaimed = sr.wave_unclaimed
        /\ nt.settled_id = st.settled_id
    BY <1>3, <1>4 DEF RainRec, Ticket
  <2>4. CASE in
    <3>1. nt.wave_id = rec.last_wave_id + 1 /\ nr.wave_count = rec.wave_count + 1
      BY <1>3, <1>4, <2>4 DEF RainRec, Ticket
    <3> HIDE DEF nt, nr
    <3> QED
      BY <1>1, <1>4, <2>1, <2>2, <2>3, <2>4, <3>1
      DEF SettledBy, SeatFree, sr, st
  <2>5. CASE ~in
    <3>1. nt = st /\ nr = sr
      BY <2>5
    <3> HIDE DEF nt, nr
    <3> QED
      BY <1>1, <1>4, <2>1, <2>2, <2>3, <3>1 DEF SettledBy, sr, st
  <2> QED
    BY <2>4, <2>5
<1>6. CASE Claim(a, q)
  <2> DEFINE owed == IF sr.mode = SPLIT THEN sr.cumulative - st.credit
                                        ELSE st.credit
             nt   == IF owed = 0 THEN st
                     ELSE [st EXCEPT !.credit = IF sr.mode = SPLIT
                                                THEN sr.cumulative ELSE 0]
  <2>1. tickets' = [tickets EXCEPT ![k] = nt] /\ rains' = [rains EXCEPT ![q] = sr]
    BY <1>6 DEF Claim, sr, st
  <2>2. /\ nt.wave_id = st.wave_id /\ nt.settled_id = st.settled_id
        /\ sr.mode = SPLIT => nt.credit \in {st.credit, sr.cumulative}
    BY <1>3 DEF Ticket
  <2> HIDE DEF nt
  <2> QED
    BY <1>1, <1>4, <2>1, <2>2 DEF SettledBy, sr, st
<1> QED
  BY <1>1, <1>5, <1>6

LEMMA EnterKeepsSeats ==
  ASSUME TypeOK, TypeOK', NEW q \in DOMAIN rains, q \in DOMAIN rains',
         NEW a \in Accounts, NEW mbr \in MbrPayments, Enter(a, q, mbr),
         InStep(q), SeatsCounted(q)
  PROVE  InStep(q)' /\ SeatsCounted(q)'
<1> DEFINE rec == rains[q]
           k   == <<q, a>>
           new == rains'[q]
           t   == [credit |-> EnterCredit(rec),
                   wave_id |-> IF SeatFree(rec) THEN rec.last_wave_id + 1 ELSE 0,
                   settled_id |-> 0]
<1>1. /\ rec \in RainRec
      /\ rec.mode \in {SPLIT, ONE, WAVE} /\ rec.tickets \in Nat
      /\ rec.last_wave_id \in Nat /\ rec.wave_count \in Nat
      /\ rec.wave_cap \in Nat /\ rec.wave_unclaimed \in Nat
      /\ rec.last_share \in Nat /\ rec.cumulative \in Nat
  BY RainFacts
<1>2. /\ new.mode = rec.mode /\ new.tickets = rec.tickets + 1
      /\ new.wave_cap = rec.wave_cap /\ new.last_share = rec.last_share
      /\ new.last_wave_id = rec.last_wave_id /\ new.cumulative = rec.cumulative
      /\ new.wave_unclaimed = rec.wave_unclaimed
      /\ new.wave_count = IF SeatFree(rec) THEN rec.wave_count + 1
                          ELSE rec.wave_count
  BY <1>1 DEF Enter, RainRec
<1>3. k \notin DOMAIN tickets /\ tickets' = Put(tickets, k, t)
  BY DEF Enter
<1>4. Holders(q)' = Holders(q) \cup {a} /\ a \notin Holders(q)
  BY <1>3 DEF Holders, Put
<1>5. /\ tickets'[k] = t
      /\ \A b \in Holders(q) : tickets'[<<q, b>>] = tickets[<<q, b>>]
  <2> HIDE DEF t
  <2> QED
    BY <1>3 DEF Holders, Put
<1>6. ~Unsettled(new, tickets'[k])
  BY <1>1, <1>2, <1>5 DEF Unsettled, SeatFree
<1>7. Pending(q)' = Pending(q)
  <2>1. \A b \in Holders(q) : Unsettled(new, tickets'[<<q, b>>])
                          <=> Unsettled(rec, tickets[<<q, b>>])
    BY <1>2, <1>5 DEF Unsettled
  <2> QED
    BY <1>4, <1>6, <2>1 DEF Pending
<1>8. rec.mode = WAVE => /\ new.wave_count = Cardinality(Seated(q)')
                         /\ new.wave_count <= rec.wave_cap
  <2> SUFFICES ASSUME rec.mode = WAVE
               PROVE  /\ new.wave_count = Cardinality(Seated(q)')
                      /\ new.wave_count <= rec.wave_cap
    OBVIOUS
  <2>1. CASE SeatFree(rec)
    <3>1. Seated(q)' = Seated(q) \cup {a} /\ a \notin Seated(q)
      BY <1>1, <1>2, <1>4, <1>5, <2>1 DEF Seated
    <3>2. Cardinality(Seated(q) \cup {a}) = Cardinality(Seated(q)) + 1
      BY <3>1, HoldersFinite, FS_AddElement
    <3> QED
      BY <1>1, <1>2, <2>1, <3>1, <3>2 DEF SeatsCounted, SeatFree
  <2>2. CASE ~SeatFree(rec)
    <3>1. Seated(q)' = Seated(q)
      BY <1>1, <1>2, <1>4, <1>5, <2>2 DEF Seated
    <3> QED
      BY <1>2, <2>2, <3>1 DEF SeatsCounted
  <2> QED
    BY <2>1, <2>2
<1>9. new.tickets = Cardinality(Holders(q)')
  <2>1. Cardinality(Holders(q) \cup {a}) = Cardinality(Holders(q)) + 1
    BY <1>4, HoldersFinite, FS_AddElement
  <2> QED
    BY <1>2, <1>4, <2>1 DEF SeatsCounted
<1>10. SeatsCounted(q)'
  BY <1>2, <1>7, <1>8, <1>9 DEF SeatsCounted
<1>11. InStep(q)'
  <2>1. /\ rec.mode = SPLIT => tickets'[k].credit <= new.cumulative
        /\ rec.mode = WAVE => /\ tickets'[k].wave_id <= new.last_wave_id + 1
                              /\ tickets'[k].settled_id <= new.last_wave_id
    BY <1>1, <1>2, <1>5 DEF EnterCredit
  <2> HIDE DEF t
  <2> QED
    BY <1>2, <1>4, <1>5, <2>1 DEF InStep
<1> QED
  BY <1>10, <1>11

\* The calls that neither seat nor settle a ticket.
LEMMA OtherCallsQuiet ==
  ASSUME TypeOK, TypeOK', NEW q \in DOMAIN rains,
         \/ \E a \in Accounts, drip \in Drips, interval \in Intervals :
               SetRain(a, q, drip, interval)
         \/ \E amount \in Amounts : Deposit(q, amount)
         \/ Resolve(q) \/ Abandon(q)
  PROVE  SeatsQuiet(q)
<1>1. rains[q] \in RainRec /\ rains[q].cumulative \in Nat
  BY RainFacts
<1>2. /\ rains'[q].mode = rains[q].mode
      /\ rains'[q].tickets = rains[q].tickets
      /\ rains'[q].wave_count = rains[q].wave_count
      /\ rains'[q].wave_cap = rains[q].wave_cap
      /\ rains'[q].last_share = rains[q].last_share
      /\ rains'[q].last_wave_id = rains[q].last_wave_id
      /\ rains'[q].wave_unclaimed = rains[q].wave_unclaimed
      /\ rains'[q].cumulative = rains[q].cumulative
  <2>1. CASE \E a \in Accounts, drip \in Drips, interval \in Intervals :
               SetRain(a, q, drip, interval)
    BY <1>1, <2>1, ZenonT(60) DEF SetRain, RainRec
  <2>2. CASE \E amount \in Amounts : Deposit(q, amount)
    BY <1>1, <2>2 DEF Deposit, RainRec
  <2>3. CASE Resolve(q)
    <3>1. rains'[q] = [rains[q] EXCEPT !.prize_locked = 0, !.commit_round = 0]
      BY <2>3 DEF Resolve
    <3> QED
      BY <1>1, <3>1 DEF RainRec
  <2>4. CASE Abandon(q)
    BY <1>1, <2>4 DEF Abandon, RainRec
  <2> QED
    BY <2>1, <2>2, <2>3, <2>4
<1>3. CASE Resolve(q)
  <2>1. PICK k \in DOMAIN tickets : tickets' = [tickets EXCEPT
            ![k] = [tickets[k] EXCEPT !.credit = @ + rains[q].prize_locked]]
    BY <1>3 DEF Resolve
  <2>2. tickets[k] \in Ticket
    BY DEF TypeOK
  <2>3. /\ tickets'[k].wave_id = tickets[k].wave_id
        /\ tickets'[k].settled_id = tickets[k].settled_id
    BY <2>1, <2>2 DEF Ticket
  <2>4. \A j \in DOMAIN tickets \ {k} : tickets'[j] = tickets[j]
    BY <2>1
  <2>5. DOMAIN tickets' = DOMAIN tickets
    BY <2>1
  <2>6. rains[q].mode # SPLIT
    BY <1>3 DEF Resolve, DrawOpen
  <2> QED
    BY <1>1, <1>2, <2>3, <2>4, <2>5, <2>6 DEF SeatsQuiet
<1>4. CASE UNCHANGED tickets
  BY <1>1, <1>2, <1>4 DEF SeatsQuiet
<1> QED
  BY <1>3, <1>4 DEF SetRain, Deposit, Abandon

\* A rain just opened counts nothing.
LEMMA FreshSeats ==
  ASSUME TypeOK', NEW q \in DOMAIN rains', Fresh(q)
  PROVE  InStep(q)' /\ SeatsCounted(q)'
<1>1. Holders(q)' = {} /\ Seated(q)' = {} /\ Pending(q)' = {}
  BY DEF Fresh, Holders, Seated, Pending
<1>2. Cardinality({}) = 0
  BY FS_EmptySet
<1>3. rains'[q].wave_cap \in Nat
  BY DEF TypeOK, RainRec
<1> QED
  BY <1>1, <1>2, <1>3 DEF Fresh, InStep, SeatsCounted

SeatsInv == TypeOK /\ TicketsInStep /\ SeatsMatch

LEMMA SeatsStep == SeatsInv /\ [Next]_vars /\ TypeOK' => SeatsInv'
<1> SUFFICES ASSUME SeatsInv, [Next]_vars, TypeOK', NEW q \in DOMAIN rains'
             PROVE  InStep(q)' /\ SeatsCounted(q)'
  BY DEF SeatsInv, TicketsInStep, SeatsMatch
<1>1. CASE Fresh(q)
  BY <1>1, FreshSeats
<1>2. ASSUME q \in DOMAIN rains, Untouched(q) \/ Fired(q) \/ Called(q)
      PROVE  InStep(q)' /\ SeatsCounted(q)'
  <2>1. TypeOK /\ InStep(q) /\ SeatsCounted(q)
    BY <1>2 DEF SeatsInv, TicketsInStep, SeatsMatch
  <2>2. CASE Untouched(q)
    BY <1>2, <2>1, <2>2, FireQuiet, SeatsQuietKeeps DEF Untouched
  <2>3. CASE Fired(q)
    BY <1>2, <2>1, <2>3, FiredKeepsSeats
  <2>4. CASE \E a \in Accounts, mbr \in MbrPayments : Enter(a, q, mbr)
    BY <1>2, <2>1, <2>4, EnterKeepsSeats
  <2>5. CASE \E a \in Accounts : Gm(a, q) \/ Claim(a, q)
    <3>1. PICK a \in Accounts : Gm(a, q) \/ Claim(a, q)
      BY <2>5
    <3>2. a \in Holders(q) /\ SettledBy(q, a)
      BY <1>2, <2>1, <3>1, SettlesBy
    <3> QED
      BY <1>2, <2>1, <3>2, SettledByKeepsSeats
  <2> QED
    BY <1>2, <2>1, <2>2, <2>3, <2>4, <2>5, OtherCallsQuiet, SeatsQuietKeeps
    DEF Called
<1> QED
  BY <1>1, <1>2, StepShape DEF SeatsInv

\* The counters in a rain box always count its ticket boxes, so the money a
\* WAVE drop takes back is exactly what was left unclaimed.
THEOREM SeatsAlwaysMatch == Spec => [](TicketsInStep /\ SeatsMatch)
<1>1. Init => TicketsInStep /\ SeatsMatch
  BY DEF Init, TicketsInStep, SeatsMatch
<1>2. SeatsInv /\ [Next]_vars /\ TypeOK' => SeatsInv'
  BY SeatsStep
<1>3. SeatsInv => TicketsInStep /\ SeatsMatch
  BY DEF SeatsInv
<1>4. TypeOK /\ TicketsInStep /\ SeatsMatch => SeatsInv
  BY DEF SeatsInv
<1> QED
  BY <1>1, <1>2, <1>3, <1>4, TypeInit, TypeCorrect, PTL DEF Spec

\* Rain and ticket boxes agree: claim never subtracts a debt from less than it,
\* no ticket is seated or settled for a drop still to come, and the shares that
\* _fire_wave takes back are those nobody settled.
THEOREM TicketsAlwaysAgree == Spec => []TicketsAgree
BY SeatsAlwaysMatch, PTL DEF TicketsAgree

-----------------------------------------------------------------------------
(* Conservation: the money a rain holds is what it has promised *)

LEMMA AllocationsType ==
  ASSUME TypeOK, NEW q \in DOMAIN rains, InStep(q)
  PROVE  /\ Allocations(q) \in [Accounts -> Nat]
         /\ Total(Allocations(q)) \in Nat
<1>1. ASSUME NEW a \in Accounts  PROVE AllocationOf(q, a) \in Nat
  <2>1. CASE <<q, a>> \in DOMAIN tickets
    <3>1. a \in Holders(q)
      BY <2>1 DEF Holders
    <3>2. /\ tickets[<<q, a>>].credit \in Nat
          /\ rains[q].cumulative \in Nat /\ rains[q].last_share \in Nat
          /\ rains[q].mode = SPLIT =>
                tickets[<<q, a>>].credit <= rains[q].cumulative
      BY <3>1, TicketFacts, RainFacts DEF InStep
    <3> QED
      BY <2>1, <3>2 DEF AllocationOf, Allocation
  <2>2. CASE <<q, a>> \notin DOMAIN tickets
    BY <2>2 DEF AllocationOf
  <2> QED
    BY <2>1, <2>2
<1>2. Allocations(q) \in [Accounts -> Nat]
  BY <1>1 DEF Allocations
<1> QED
  BY <1>2, AccountsAssumption, TotalType

\* What an account can claim depends on four fields of the rain and its ticket.
LEMMA AllocationsKept ==
  ASSUME NEW q, TicketsSame(q),
         rains'[q].mode = rains[q].mode,
         rains'[q].cumulative = rains[q].cumulative,
         rains'[q].last_share = rains[q].last_share,
         rains'[q].last_wave_id = rains[q].last_wave_id
  PROVE  Allocations(q)' = Allocations(q)
<1>1. \A a \in Accounts : AllocationOf(q, a)' = AllocationOf(q, a)
  BY DEF TicketsSame, AllocationOf, Allocation, Unsettled
<1> QED
  BY <1>1 DEF Allocations

\* SPLIT: each ticket holder is owed one more share, and the pot pays them all.
LEMMA FireSplitSolvent ==
  ASSUME TypeOK, TypeOK', NEW q \in DOMAIN rains, q \in DOMAIN rains',
         rains[q].mode = SPLIT, rains'[q] = FireSplit(rains[q]),
         held'[q] = held[q], TicketsSame(q),
         InStep(q), SeatsCounted(q), Solvent(q)
  PROVE  Solvent(q)'
<1> DEFINE rec == rains[q]
           s   == Share(rec)
<1>1. /\ rec \in RainRec /\ rec.pot \in Nat /\ rec.prize_locked \in Nat
      /\ rec.cumulative \in Nat /\ rec.tickets \in Nat
      /\ s \in Nat /\ Paid(rec) \in Nat /\ held[q] \in Int
  BY RainFacts, AmountsType
<1>2. CASE s > 0 /\ rec.pot >= Paid(rec)
  <2>1. /\ rains'[q].mode = SPLIT
        /\ rains'[q].pot = rec.pot - Paid(rec)
        /\ rains'[q].prize_locked = rec.prize_locked
        /\ rains'[q].cumulative = rec.cumulative + s
    BY <1>1, <1>2 DEF FireSplit, RainRec
  <2>2. Allocations(q)' = Raise(Allocations(q), Holders(q), s)
    <3>1. \A a \in Accounts : AllocationOf(q, a)' =
             IF a \in Holders(q) THEN AllocationOf(q, a) + s
                                 ELSE AllocationOf(q, a)
      <4> TAKE a \in Accounts
      <4>1. CASE a \in Holders(q)
        <5>1. tickets'[<<q, a>>] = tickets[<<q, a>>]
              /\ tickets[<<q, a>>].credit \in Nat
              /\ <<q, a>> \in DOMAIN tickets /\ <<q, a>> \in DOMAIN tickets'
          BY <4>1, TicketFacts DEF TicketsSame
        <5>2. AllocationOf(q, a) = rec.cumulative - tickets[<<q, a>>].credit
          BY <5>1 DEF AllocationOf, Allocation, Unsettled
        <5>3. AllocationOf(q, a)' =
                 rains'[q].cumulative - tickets'[<<q, a>>].credit
          BY <2>1, <5>1 DEF AllocationOf, Allocation, Unsettled
        <5>4. AllocationOf(q, a)' = AllocationOf(q, a) + s
          <6> HIDE DEF rec, s
          <6> QED
            BY <1>1, <2>1, <5>1, <5>2, <5>3
        <5> QED
          BY <4>1, <5>4
      <4>2. CASE a \notin Holders(q)
        BY <4>2 DEF Holders, TicketsSame, AllocationOf
      <4> QED
        BY <4>1, <4>2
    <3> QED
      BY <3>1 DEF Raise, Allocations
  <2>3. Total(Allocations(q)') = Total(Allocations(q)) + s * Cardinality(Holders(q))
    <3>1. Holders(q) \in SUBSET Accounts
      BY DEF Holders
    <3> QED
      BY <1>1, <2>2, <3>1, AllocationsType, AccountsAssumption, TotalRaise
  <2>4. Paid(rec) = s * Cardinality(Holders(q))
    BY DEF Paid, Sharers, SeatsCounted
  <2>5. Total(Allocations(q)) \in Nat
    BY AllocationsType
  <2> QED
    BY <1>1, <2>1, <2>3, <2>4, <2>5 DEF Solvent
<1>3. CASE ~(s > 0 /\ rec.pot >= Paid(rec))
  <2>1. rains'[q] = rec
    BY <1>3 DEF FireSplit
  <2> QED
    BY <2>1, AllocationsKept DEF Solvent
<1> QED
  BY <1>2, <1>3

\* WAVE: what can be claimed is what has been settled and, for each ticket of
\* the last drop still pending, its share.
LEMMA WaveAllocations ==
  ASSUME TypeOK, NEW q \in DOMAIN rains, rains[q].mode = WAVE
  PROVE  LET settled == [a \in Accounts |-> IF a \in Holders(q)
                                           THEN tickets[<<q, a>>].credit ELSE 0]
         IN /\ settled \in [Accounts -> Nat]
            /\ Total(settled) \in Nat
            /\ Total(Allocations(q)) =
                 Total(settled) + rains[q].last_share * Cardinality(Pending(q))
<1> DEFINE settled == [a \in Accounts |-> IF a \in Holders(q)
                                         THEN tickets[<<q, a>>].credit ELSE 0]
           share   == rains[q].last_share
<1>1. settled \in [Accounts -> Nat]
  BY TicketFacts
<1>2. share \in Nat
  BY RainFacts
<1>3. Allocations(q) = Raise(settled, Pending(q), share)
  <2>1. \A a \in Accounts : AllocationOf(q, a) =
           IF a \in Pending(q) THEN settled[a] + share ELSE settled[a]
    BY DEF AllocationOf, Allocation, Pending, Holders, Unsettled
  <2> HIDE DEF settled
  <2> QED
    BY <1>1, <2>1 DEF Allocations, Raise
<1>4. Pending(q) \in SUBSET Accounts
  BY DEF Pending, Holders
<1>5. Total(settled) \in Nat
  BY <1>1, AccountsAssumption, TotalType
<1>6. Total(Raise(settled, Pending(q), share)) =
        Total(settled) + share * Cardinality(Pending(q))
  <2> HIDE DEF settled, share
  <2> QED
    BY <1>1, <1>2, <1>4, AccountsAssumption, TotalRaise
<1> QED
  BY <1>1, <1>3, <1>5, <1>6

\* The same of every state, and so of the one a step leads to.
LEMMA WaveAllocationsAlways ==
  \A r \in DOMAIN rains :
    TypeOK /\ rains[r].mode = WAVE =>
      Total(Allocations(r)) =
        Total([a \in Accounts |-> IF a \in Holders(r)
                                  THEN tickets[<<r, a>>].credit ELSE 0])
          + rains[r].last_share * Cardinality(Pending(r))
BY WaveAllocations

LEMMA WaveAllocationsNext ==
  (\A r \in DOMAIN rains :
    TypeOK /\ rains[r].mode = WAVE =>
      Total(Allocations(r)) =
        Total([a \in Accounts |-> IF a \in Holders(r)
                                  THEN tickets[<<r, a>>].credit ELSE 0])
          + rains[r].last_share * Cardinality(Pending(r)))'
BY WaveAllocationsAlways, PTL

\* WAVE: what the last drop's absentees could have claimed is what comes back,
\* and each account seated in the new drop is owed its share.
LEMMA FireWaveSolvent ==
  ASSUME TypeOK, TypeOK', NEW q \in DOMAIN rains, q \in DOMAIN rains',
         rains[q].mode = WAVE, rains'[q] = FireWave(rains[q]),
         held'[q] = held[q], TicketsSame(q),
         SeatsCounted(q), SeatsCounted(q)', Solvent(q)
  PROVE  Solvent(q)'
<1> DEFINE rec  == rains[q]
           new  == rains'[q]
           settled == [a \in Accounts |-> IF a \in Holders(q)
                                         THEN tickets[<<q, a>>].credit ELSE 0]
           owed == Total(settled)
           back == rec.last_share * rec.wave_unclaimed
           due  == new.last_share * Cardinality(Pending(q)')
<1>1. /\ rec \in RainRec /\ rec.pot \in Nat /\ rec.prize_locked \in Nat
      /\ rec.last_share \in Nat /\ rec.wave_unclaimed \in Nat
      /\ Recycled(rec) \in Nat /\ Paid(rec) \in Nat /\ Share(rec) \in Nat
      /\ held[q] \in Int /\ rec.wave_count \in Nat
  BY RainFacts, AmountsType
<1>2. /\ owed \in Nat
      /\ Total(Allocations(q)) =
           owed + rec.last_share * Cardinality(Pending(q))
  BY WaveAllocations
<1>3. rec.last_share * Cardinality(Pending(q)) = back
  <2>1. Cardinality(Pending(q)) \in Nat
    BY HoldersFinite
  <2>2. CASE rec.last_share = 0
    BY <1>1, <2>1, <2>2
  <2>3. CASE rec.last_share # 0
    BY <2>3 DEF SeatsCounted
  <2> QED
    BY <2>2, <2>3
<1>4. Recycled(rec) = rec.pot + back
  BY DEF Recycled
<1>5. back \in Nat
  BY <1>1, Product
<1>6. held[q] = rec.pot + rec.prize_locked + owed + back
  <2> HIDE DEF rec, owed, back
  <2> QED
    BY <1>1, <1>2, <1>3, <1>5 DEF Solvent, rec
<1>7. ASSUME new.mode = WAVE  PROVE Total(Allocations(q)') = owed + due
  <2>1. settled = [a \in Accounts |-> IF a \in Holders(q)'
                                     THEN tickets'[<<q, a>>].credit ELSE 0]
    BY DEF Holders, TicketsSame
  <2> HIDE DEF settled
  <2> QED
    BY <1>7, <2>1, WaveAllocationsNext
<1>8. CASE rec.wave_count = 0 /\ rec.wave_unclaimed > 0
  <2>1. /\ new.mode = WAVE /\ new.pot = Recycled(rec)
        /\ new.prize_locked = rec.prize_locked /\ new.last_share = 0
    BY <1>1, <1>8 DEF FireWave, WaveFalls, RainRec
  <2>2. due = 0
    <3>1. Cardinality(Pending(q)') \in Nat
      <4>1. Holders(q)' \in SUBSET Accounts /\ Pending(q)' \in SUBSET Accounts
        BY DEF Pending, Holders
      <4>2. IsFiniteSet(Pending(q)')
        BY <4>1, AccountsAssumption, FS_Subset
      <4> QED
        BY <4>2, FS_CardinalityType
    <3> QED
      BY <2>1, <3>1
  <2>3. Total(Allocations(q)') = owed
    <3> HIDE DEF owed, due
    <3> QED
      BY <1>2, <1>7, <2>1, <2>2
  <2>4. held[q] = Recycled(rec) + rec.prize_locked + owed
    <3> HIDE DEF rec, owed, back
    <3> QED
      BY <1>1, <1>2, <1>4, <1>5, <1>6
  <2> HIDE DEF rec, owed
  <2> QED
    BY <2>1, <2>3, <2>4 DEF Solvent
<1>9. CASE /\ ~(rec.wave_count = 0 /\ rec.wave_unclaimed > 0)
           /\ Share(rec) > 0 /\ Recycled(rec) >= Paid(rec)
  <2>1. /\ new.mode = WAVE /\ new.pot = Recycled(rec) - Paid(rec)
        /\ new.prize_locked = rec.prize_locked
        /\ new.last_share = Share(rec)
        /\ new.wave_unclaimed = rec.wave_count
    BY <1>1, <1>9 DEF FireWave, WaveFalls, RainRec
  <2>2. due = Paid(rec)
    <3>1. new.wave_unclaimed = Cardinality(Pending(q)')
      BY <1>1, <1>9, <2>1 DEF SeatsCounted
    <3> QED
      BY <2>1, <3>1 DEF Paid, Sharers
  <2>3. Total(Allocations(q)') = owed + Paid(rec)
    BY <1>7, <2>1, <2>2
  <2> HIDE DEF rec, new, owed, back
  <2> QED
    BY <1>1, <1>2, <1>4, <1>5, <1>6, <2>1, <2>3 DEF Solvent, new
<1>10. CASE /\ ~(rec.wave_count = 0 /\ rec.wave_unclaimed > 0)
            /\ ~(Share(rec) > 0 /\ Recycled(rec) >= Paid(rec))
  <2>1. rains'[q] = rec
    BY <1>10 DEF FireWave, WaveFalls
  <2> QED
    BY <2>1, AllocationsKept DEF Solvent
<1> QED
  BY <1>8, <1>9, <1>10

\* ONE: the prize leaves the pot and is locked.
LEMMA FireOneSolvent ==
  ASSUME TypeOK, NEW q \in DOMAIN rains, TicketsSame(q),
         rains'[q] = FireOne(rains[q]), held'[q] = held[q],
         InStep(q), Solvent(q)
  PROVE  Solvent(q)'
<1> DEFINE rec == rains[q]
           new == rains'[q]
<1>1. /\ rec \in RainRec /\ rec.pot \in Nat /\ rec.prize_locked \in Nat
      /\ rec.drip \in Nat /\ held[q] \in Int
  BY RainFacts DEF RainRec
<1>2. CASE rec.prize_locked = 0 /\ rec.tickets > 0 /\ rec.pot >= rec.drip
  <2>1. /\ new.mode = rec.mode /\ new.cumulative = rec.cumulative
        /\ new.last_share = rec.last_share
        /\ new.last_wave_id = rec.last_wave_id
        /\ new.pot = rec.pot - rec.drip /\ new.prize_locked = rec.drip
    BY <1>1, <1>2 DEF FireOne, PrizeLocked, RainRec
  <2>2. Allocations(q)' = Allocations(q)
    BY <2>1, AllocationsKept
  <2>3. Total(Allocations(q)) \in Nat
    BY AllocationsType
  <2> HIDE DEF rec, new
  <2> QED
    BY <1>1, <1>2, <2>1, <2>2, <2>3 DEF Solvent, rec, new
<1>3. CASE ~(rec.prize_locked = 0 /\ rec.tickets > 0 /\ rec.pot >= rec.drip)
  <2>1. rains'[q] = rec
    BY <1>3 DEF FireOne, PrizeLocked
  <2> QED
    BY <2>1, AllocationsKept DEF Solvent
<1> QED
  BY <1>2, <1>3

LEMMA FiredSolvent ==
  ASSUME TypeOK, TypeOK', NEW q \in DOMAIN rains, q \in DOMAIN rains',
         Fired(q), InStep(q), SeatsCounted(q), SeatsCounted(q)', Solvent(q)
  PROVE  Solvent(q)'
<1>1. TicketsSame(q) /\ rains'[q] = TryFire(rains[q]) /\ held'[q] = held[q]
  BY DEF Fired
<1>2. CASE rains[q].mode = WAVE /\ rains'[q] = FireWave(rains[q])
  BY <1>1, <1>2, FireWaveSolvent
<1>3. CASE rains[q].mode = SPLIT /\ rains'[q] = FireSplit(rains[q])
  BY <1>1, <1>3, FireSplitSolvent
<1>4. CASE rains'[q] = FireOne(rains[q])
  BY <1>1, <1>4, FireOneSolvent
<1>5. CASE rains'[q] = rains[q]
  BY <1>1, <1>5, AllocationsKept DEF Solvent
<1> QED
  BY <1>1, <1>2, <1>3, <1>4, <1>5, RainFacts DEF TryFire

\* One account's claim grows by s and the others' stand, or all of it goes.
LEMMA OneRaised ==
  ASSUME NEW q, NEW a \in Accounts, NEW s \in Nat,
         Allocations(q) \in [Accounts -> Nat],
         \A b \in Accounts : AllocationOf(q, b)' =
            IF b = a THEN AllocationOf(q, b) + s ELSE AllocationOf(q, b)
  PROVE  Total(Allocations(q)') = Total(Allocations(q)) + s
<1>1. Allocations(q)' = Raise(Allocations(q), {a}, s)
  BY DEF Raise, Allocations
<1>2. Cardinality({a}) = 1
  BY FS_Singleton
<1>3. s * 1 = s
  OBVIOUS
<1> QED
  BY <1>1, <1>2, <1>3, AccountsAssumption, TotalRaise

LEMMA OneCleared ==
  ASSUME NEW q, NEW a \in Accounts, Allocations(q) \in [Accounts -> Nat],
         \A b \in Accounts : AllocationOf(q, b)' =
            IF b = a THEN 0 ELSE AllocationOf(q, b)
  PROVE  /\ Total(Allocations(q)') \in Nat
         /\ Total(Allocations(q)) = Total(Allocations(q)') + AllocationOf(q, a)
<1> DEFINE s == AllocationOf(q, a)
<1>1. s \in Nat
  BY DEF Allocations
<1>2. Allocations(q)' \in [Accounts -> Nat]
  BY DEF Allocations
<1>3. Allocations(q) = Raise(Allocations(q)', {a}, s)
  <2>1. \A b \in Accounts : AllocationOf(q, b) \in Nat
    BY DEF Allocations
  <2> QED
    BY <2>1 DEF Raise, Allocations
<1> HIDE DEF s
<1>4. Cardinality({a}) = 1
  BY FS_Singleton
<1>7. s * 1 = s
  BY <1>1
<1>5. Total(Allocations(q)') \in Nat
  BY <1>2, AccountsAssumption, TotalType
<1>6. Total(Raise(Allocations(q)', {a}, s)) =
         Total(Allocations(q)') + s * Cardinality({a})
  BY <1>1, <1>2, AccountsAssumption, TotalRaise
<1> QED
  BY <1>3, <1>4, <1>5, <1>6, <1>7 DEF s

\* A new ticket is owed nothing.
LEMMA EnterOwes ==
  ASSUME TypeOK, NEW q \in DOMAIN rains,
         NEW a \in Accounts, NEW mbr \in MbrPayments, Enter(a, q, mbr)
  PROVE  /\ \A b \in Accounts : AllocationOf(q, b)' = AllocationOf(q, b)
         /\ rains'[q].pot = rains[q].pot
         /\ rains'[q].prize_locked = rains[q].prize_locked
<1> DEFINE rec == rains[q]
           k   == <<q, a>>
           new == rains'[q]
           t   == [credit |-> EnterCredit(rec),
                   wave_id |-> IF SeatFree(rec) THEN rec.last_wave_id + 1 ELSE 0,
                   settled_id |-> 0]
<1>1. /\ rec \in RainRec /\ rec.last_wave_id \in Nat /\ rec.cumulative \in Nat
      /\ rec.tickets \in Nat /\ rec.mode \in {SPLIT, ONE, WAVE}
  BY RainFacts
<1>2. /\ new.mode = rec.mode /\ new.last_share = rec.last_share
      /\ new.last_wave_id = rec.last_wave_id /\ new.cumulative = rec.cumulative
      /\ new.pot = rec.pot /\ new.prize_locked = rec.prize_locked
  BY <1>1 DEF Enter, RainRec
<1>3. k \notin DOMAIN tickets /\ tickets' = Put(tickets, k, t)
  BY DEF Enter
<1>4. AllocationOf(q, a)' = 0 /\ AllocationOf(q, a) = 0
  <2>1. k \in DOMAIN tickets' /\ tickets'[k] = t
    <3> HIDE DEF t
    <3> QED
      BY <1>3 DEF Put
  <2>2. ~Unsettled(new, t)
    BY <1>1, <1>2 DEF Unsettled, SeatFree
  <2>3. t.credit = IF rec.mode = SPLIT THEN rec.cumulative ELSE 0
    BY DEF EnterCredit
  <2>4. rec.cumulative - rec.cumulative = 0
    BY <1>1
  <2>5. Allocation(new, t) = 0
    <3> HIDE DEF t, new
    <3> QED
      BY <1>2, <2>2, <2>3, <2>4 DEF Allocation
  <2> HIDE DEF t
  <2> QED
    BY <1>3, <2>1, <2>5 DEF AllocationOf
<1>5. \A b \in Accounts : AllocationOf(q, b)' = AllocationOf(q, b)
  <2> SUFFICES ASSUME NEW b \in Accounts, b # a
               PROVE  AllocationOf(q, b)' = AllocationOf(q, b)
    BY <1>4
  <2>1. /\ <<q, b>> \in DOMAIN tickets' <=> <<q, b>> \in DOMAIN tickets
        /\ <<q, b>> \in DOMAIN tickets =>
              tickets'[<<q, b>>] = tickets[<<q, b>>]
    <3> HIDE DEF t
    <3> QED
      BY <1>3 DEF Put
  <2> HIDE DEF t
  <2> QED
    BY <1>2, <2>1 DEF AllocationOf, Allocation, Unsettled
<1> QED
  BY <1>2, <1>5

\* gm moves a share from pending to settled, and owes no more than before.
LEMMA GmOwes ==
  ASSUME TypeOK, NEW q \in DOMAIN rains, NEW a \in Accounts, Gm(a, q)
  PROVE  /\ \A b \in Accounts : AllocationOf(q, b)' = AllocationOf(q, b)
         /\ rains'[q].pot = rains[q].pot
         /\ rains'[q].prize_locked = rains[q].prize_locked
<1> DEFINE rec == rains[q]
           k   == <<q, a>>
           t   == tickets[k]
           sr  == SettledRec(rec, t)
           st  == SettledTicket(rec, t)
           in  == st.wave_id # sr.last_wave_id + 1 /\ SeatFree(sr)
           nt  == IF in THEN [st EXCEPT !.wave_id = sr.last_wave_id + 1] ELSE st
           nr  == IF in THEN [sr EXCEPT !.wave_count = @ + 1] ELSE sr
<1>1. k \in DOMAIN tickets /\ a \in Holders(q) /\ rec.mode = WAVE
  BY DEF Gm, Holders
<1>2. rec \in RainRec /\ t \in Ticket /\ rec.last_wave_id \in Nat
  BY <1>1, RainFacts, TicketFacts
<1>3. sr \in RainRec /\ st \in Ticket
  BY <1>2, SettleType
<1>4. /\ sr.mode = WAVE /\ sr.last_share = rec.last_share
      /\ sr.last_wave_id = rec.last_wave_id /\ sr.cumulative = rec.cumulative
      /\ sr.pot = rec.pot /\ sr.prize_locked = rec.prize_locked
      /\ ~Unsettled(sr, st)
      /\ st.credit = Allocation(rec, t)
  BY <1>1, <1>2 DEF SettledRec, SettledTicket, Unsettled, RainRec, Ticket,
                    Allocation
<1>5. tickets' = [tickets EXCEPT ![k] = nt] /\ rains' = [rains EXCEPT ![q] = nr]
  BY DEF Gm
<1> HIDE DEF sr, st
<1>6. /\ nr.mode = WAVE /\ nr.last_share = rec.last_share
      /\ nr.last_wave_id = rec.last_wave_id /\ nr.cumulative = rec.cumulative
      /\ nr.pot = rec.pot /\ nr.prize_locked = rec.prize_locked
      /\ nt.credit = Allocation(rec, t) /\ ~Unsettled(nr, nt)
  <2>1. CASE in
    <3>1. nt.wave_id = rec.last_wave_id + 1 /\ nt.credit = st.credit
      BY <1>3, <1>4, <2>1 DEF Ticket
    <3>2. /\ nr.mode = WAVE /\ nr.last_share = rec.last_share
          /\ nr.last_wave_id = rec.last_wave_id /\ nr.cumulative = rec.cumulative
          /\ nr.pot = rec.pot /\ nr.prize_locked = rec.prize_locked
      BY <1>3, <1>4, <2>1 DEF RainRec
    <3> HIDE DEF nt, nr
    <3> QED
      BY <1>2, <1>4, <3>1, <3>2 DEF Unsettled
  <2>2. CASE ~in
    BY <1>4, <2>2
  <2> QED
    BY <2>1, <2>2
<1> HIDE DEF nt, nr, in
<1>7. \A b \in Accounts : AllocationOf(q, b)' = AllocationOf(q, b)
  <2> TAKE b \in Accounts
  <2>1. CASE b = a
    <3>1. AllocationOf(q, a) = Allocation(rec, t)
      BY <1>1 DEF AllocationOf
    <3>2. AllocationOf(q, a)' = Allocation(nr, nt)
      BY <1>1, <1>5 DEF AllocationOf
    <3>3. Allocation(nr, nt) = nt.credit
      BY <1>6 DEF Allocation
    <3> QED
      BY <1>6, <2>1, <3>1, <3>2, <3>3
  <2>2. CASE b # a
    <3>1. <<q, b>> \in DOMAIN tickets =>
             tickets'[<<q, b>>] = tickets[<<q, b>>]
      BY <1>5, <2>2
    <3> QED
      BY <1>1, <1>5, <1>6, <3>1 DEF AllocationOf, Allocation, Unsettled
  <2> QED
    BY <2>1, <2>2
<1> QED
  BY <1>5, <1>6, <1>7

\* Neither changes what the hub holds.
LEMMA SeatCallsSolvent ==
  ASSUME TypeOK, NEW q \in DOMAIN rains, NEW a \in Accounts, Solvent(q),
         Gm(a, q) \/ \E mbr \in MbrPayments : Enter(a, q, mbr)
  PROVE  Solvent(q)'
<1>1. /\ \A b \in Accounts : AllocationOf(q, b)' = AllocationOf(q, b)
      /\ rains'[q].pot = rains[q].pot
      /\ rains'[q].prize_locked = rains[q].prize_locked
  BY EnterOwes, GmOwes
<1>2. Allocations(q)' = Allocations(q)
  BY <1>1 DEF Allocations
<1>3. held' = held
  BY DEF Gm, Enter
<1> QED
  BY <1>1, <1>2, <1>3 DEF Solvent

\* claim takes out of the hub exactly what it takes off the books.
LEMMA ClaimPays ==
  ASSUME TypeOK, NEW q \in DOMAIN rains, NEW a \in Accounts, Claim(a, q)
  PROVE  /\ held' = [held EXCEPT ![q] = @ - AllocationOf(q, a)]
         /\ held'[q] = held[q] - AllocationOf(q, a)
         /\ \A b \in Accounts : AllocationOf(q, b)' =
               IF b = a THEN 0 ELSE AllocationOf(q, b)
         /\ rains'[q].pot = rains[q].pot
         /\ rains'[q].prize_locked = rains[q].prize_locked
<1> DEFINE rec  == rains[q]
           k    == <<q, a>>
           t    == tickets[k]
           sr   == SettledRec(rec, t)
           st   == SettledTicket(rec, t)
           owed == IF sr.mode = SPLIT THEN sr.cumulative - st.credit
                                      ELSE st.credit
           nt   == IF owed = 0 THEN st
                   ELSE [st EXCEPT !.credit = IF sr.mode = SPLIT
                                              THEN sr.cumulative ELSE 0]
<1>1. k \in DOMAIN tickets /\ a \in Holders(q)
  BY DEF Claim, Holders
<1>2. /\ rec \in RainRec /\ t \in Ticket /\ rec.last_wave_id \in Nat
      /\ rec.pot \in Nat /\ rec.prize_locked \in Nat /\ rec.cumulative \in Nat
      /\ held[q] \in Int /\ q \in DOMAIN held
  BY <1>1, RainFacts, TicketFacts DEF TypeOK
<1>3. sr \in RainRec /\ st \in Ticket
  BY <1>2, SettleType
<1>4. /\ sr.mode = rec.mode /\ sr.last_share = rec.last_share
      /\ sr.last_wave_id = rec.last_wave_id /\ sr.cumulative = rec.cumulative
      /\ sr.pot = rec.pot /\ sr.prize_locked = rec.prize_locked
      /\ ~Unsettled(sr, st)
      /\ Allocation(rec, t) = owed
  BY <1>1, <1>2 DEF SettledRec, SettledTicket, Unsettled, RainRec, Ticket,
                    Allocation
<1>5. /\ tickets' = [tickets EXCEPT ![k] = nt]
      /\ rains' = [rains EXCEPT ![q] = sr]
      /\ held' = [held EXCEPT ![q] = held[q] - owed]
  BY DEF Claim
<1> HIDE DEF sr, st
<1>6. /\ nt.credit = IF sr.mode = SPLIT THEN sr.cumulative ELSE 0
      /\ ~Unsettled(sr, nt)
  <2>1. st.credit \in Nat /\ sr.cumulative \in Nat
    BY <1>3 DEF RainRec, Ticket
  <2>2. CASE owed = 0
    BY <1>4, <2>1, <2>2
  <2>3. CASE owed # 0
    <3>1. /\ nt.wave_id = st.wave_id /\ nt.settled_id = st.settled_id
          /\ nt.credit = IF sr.mode = SPLIT THEN sr.cumulative ELSE 0
      BY <1>3, <2>3 DEF Ticket
    <3> HIDE DEF nt
    <3> QED
      BY <1>4, <3>1 DEF Unsettled
  <2> QED
    BY <2>2, <2>3
<1> HIDE DEF nt, owed
<1>7. AllocationOf(q, a) = owed
  BY <1>1, <1>4 DEF AllocationOf
<1>8. \A b \in Accounts : AllocationOf(q, b)' =
         IF b = a THEN 0 ELSE AllocationOf(q, b)
  <2> TAKE b \in Accounts
  <2>1. CASE b = a
    <3>1. AllocationOf(q, a)' = Allocation(sr, nt)
      BY <1>1, <1>5 DEF AllocationOf
    <3>2. sr.cumulative - sr.cumulative = 0
      BY <1>2, <1>4
    <3>3. Allocation(sr, nt) = 0
      BY <1>6, <3>2 DEF Allocation
    <3> QED
      BY <2>1, <3>1, <3>3
  <2>2. CASE b # a
    <3>1. <<q, b>> \in DOMAIN tickets =>
             tickets'[<<q, b>>] = tickets[<<q, b>>]
      BY <1>5, <2>2
    <3> QED
      BY <1>1, <1>4, <1>5, <2>2, <3>1 DEF AllocationOf, Allocation, Unsettled
  <2> QED
    BY <2>1, <2>2
<1> QED
  BY <1>2, <1>4, <1>5, <1>7, <1>8

LEMMA ClaimSolvent ==
  ASSUME TypeOK, NEW q \in DOMAIN rains, NEW a \in Accounts, Claim(a, q),
         InStep(q), Solvent(q)
  PROVE  Solvent(q)'
<1>1. /\ rains[q].pot \in Nat /\ rains[q].prize_locked \in Nat /\ held[q] \in Int
  BY RainFacts
<1>2. Allocations(q) \in [Accounts -> Nat]
  BY AllocationsType
<1>3. AllocationOf(q, a) \in Nat
  BY <1>2 DEF Allocations
<1>4. /\ Total(Allocations(q)') \in Nat
      /\ Total(Allocations(q)) = Total(Allocations(q)') + AllocationOf(q, a)
  BY <1>2, ClaimPays, OneCleared
<1> QED
  BY <1>1, <1>3, <1>4, ClaimPays DEF Solvent

\* The prize a lottery had locked is its winner's to claim.
LEMMA ResolveOwes ==
  ASSUME TypeOK, NEW q \in DOMAIN rains, Resolve(q)
  PROVE  /\ \E a \in Holders(q) : \A b \in Accounts : AllocationOf(q, b)' =
               IF b = a THEN AllocationOf(q, b) + rains[q].prize_locked
                        ELSE AllocationOf(q, b)
         /\ rains'[q].pot = rains[q].pot
         /\ rains'[q].prize_locked = 0
<1> DEFINE rec == rains[q]
           s   == rec.prize_locked
<1>1. PICK index \in 0 .. rec.tickets - 1 :
         /\ <<q, index>> \in DOMAIN indexes
         /\ LET winner == <<q, indexes[<<q, index>>]>> IN
              /\ winner \in DOMAIN tickets
              /\ tickets' = [tickets EXCEPT ![winner] =
                   [tickets[winner] EXCEPT !.credit = tickets[winner].credit + s]]
  BY DEF Resolve
<1> DEFINE a == indexes[<<q, index>>]
           k == <<q, a>>
<1>2. /\ a \in Accounts /\ k \in DOMAIN tickets
      /\ tickets[k] \in Ticket /\ tickets[k].credit \in Nat
  BY <1>1 DEF TypeOK, Ticket
<1>3. /\ rec \in RainRec /\ s \in Nat /\ rec.pot \in Nat /\ held[q] \in Int
      /\ rec.mode = ONE
  BY RainFacts DEF Resolve, DrawOpen
<1>4. rains'[q] = [rec EXCEPT !.prize_locked = 0, !.commit_round = 0]
  BY DEF Resolve
<1>5. /\ rains'[q].mode = rec.mode /\ rains'[q].last_share = rec.last_share
      /\ rains'[q].last_wave_id = rec.last_wave_id
      /\ rains'[q].cumulative = rec.cumulative
      /\ rains'[q].pot = rec.pot /\ rains'[q].prize_locked = 0
  BY <1>3, <1>4 DEF RainRec
<1>6. tickets'[k].credit = tickets[k].credit + s /\ DOMAIN tickets' = DOMAIN tickets
  BY <1>1, <1>2 DEF Ticket
<1>7. \A j \in DOMAIN tickets : j # k => tickets'[j] = tickets[j]
  BY <1>1
<1> HIDE DEF a
<1>8. \A b \in Accounts : AllocationOf(q, b)' =
         IF b = a THEN AllocationOf(q, b) + s ELSE AllocationOf(q, b)
  <2> TAKE b \in Accounts
  <2>1. CASE b = a
    BY <1>2, <1>3, <1>5, <1>6, <2>1 DEF AllocationOf, Allocation, Unsettled
  <2>2. CASE b # a
    BY <1>5, <1>6, <1>7, <2>2 DEF AllocationOf, Allocation, Unsettled
  <2> QED
    BY <2>1, <2>2
<1>9. a \in Holders(q)
  BY <1>2 DEF Holders
<1> QED
  BY <1>5, <1>8, <1>9

LEMMA ResolveSolvent ==
  ASSUME TypeOK, NEW q \in DOMAIN rains, Resolve(q), InStep(q), Solvent(q)
  PROVE  Solvent(q)'
<1> DEFINE s == rains[q].prize_locked
<1>1. s \in Nat /\ rains[q].pot \in Nat /\ held[q] \in Int
  BY RainFacts
<1>2. PICK a \in Holders(q) : \A b \in Accounts : AllocationOf(q, b)' =
         IF b = a THEN AllocationOf(q, b) + s ELSE AllocationOf(q, b)
  BY ResolveOwes
<1>3. a \in Accounts /\ Allocations(q) \in [Accounts -> Nat]
      /\ Total(Allocations(q)) \in Nat
  BY AllocationsType DEF Holders
<1> HIDE DEF s
<1>4. Total(Allocations(q)') = Total(Allocations(q)) + s
  BY <1>1, <1>2, <1>3, OneRaised
<1>5. /\ rains'[q].pot = rains[q].pot /\ rains'[q].prize_locked = 0
      /\ held' = held
  BY ResolveOwes DEF Resolve
<1> QED
  BY <1>1, <1>3, <1>4, <1>5 DEF Solvent, s

\* The calls that move money between the pot, the lock and the depositors.
LEMMA PotCallsSolvent ==
  ASSUME TypeOK, NEW q \in DOMAIN rains,
         \/ \E a \in Accounts, drip \in Drips, interval \in Intervals :
               SetRain(a, q, drip, interval)
         \/ \E amount \in Amounts : Deposit(q, amount)
         \/ Abandon(q),
         InStep(q), Solvent(q)
  PROVE  Solvent(q)'
<1> DEFINE rec == rains[q]
           new == rains'[q]
<1>1. /\ rec \in RainRec /\ rec.pot \in Nat /\ rec.prize_locked \in Nat
      /\ held[q] \in Int /\ q \in DOMAIN held
  BY RainFacts DEF TypeOK
<1>2. Total(Allocations(q)) \in Nat
  BY AllocationsType
<1>3. TicketsSame(q)
  BY DEF TicketsSame, SetRain, Deposit, Abandon
<1>4. CASE \E a \in Accounts, drip \in Drips, interval \in Intervals :
              SetRain(a, q, drip, interval)
  <2>1. PICK a \in Accounts, drip \in Drips, interval \in Intervals :
           SetRain(a, q, drip, interval)
    BY <1>4
  <2>2. /\ rains' = [rains EXCEPT ![q] = [rec EXCEPT !.drip = drip,
                                       !.interval_rounds = interval]]
        /\ held' = held
    BY <2>1 DEF SetRain
  <2>3. new = [rec EXCEPT !.drip = drip, !.interval_rounds = interval]
    BY <2>2
  <2>4. /\ new.mode = rec.mode /\ new.cumulative = rec.cumulative
        /\ new.last_share = rec.last_share
        /\ new.last_wave_id = rec.last_wave_id
        /\ new.pot = rec.pot /\ new.prize_locked = rec.prize_locked
    BY <1>1, <2>3 DEF RainRec
  <2>5. Allocations(q)' = Allocations(q)
    BY <1>3, <2>4, AllocationsKept
  <2> QED
    BY <2>2, <2>4, <2>5 DEF Solvent
<1>5. CASE \E amount \in Amounts : Deposit(q, amount)
  <2>1. PICK amount \in Amounts : Deposit(q, amount)
    BY <1>5
  <2>2. /\ new.mode = rec.mode /\ new.cumulative = rec.cumulative
        /\ new.last_share = rec.last_share
        /\ new.last_wave_id = rec.last_wave_id
        /\ new.pot = rec.pot + amount /\ new.prize_locked = rec.prize_locked
    BY <1>1, <2>1 DEF Deposit, RainRec
  <2>3. held'[q] = held[q] + amount
    BY <1>1, <2>1 DEF Deposit
  <2>4. Allocations(q)' = Allocations(q)
    BY <1>3, <2>2, AllocationsKept
  <2>5. amount \in Nat
    BY InputAssumption
  <2> HIDE DEF rec, new
  <2> QED
    BY <1>1, <1>2, <2>2, <2>3, <2>4, <2>5 DEF Solvent, rec, new
<1>6. CASE Abandon(q)
  <2>1. /\ new.mode = rec.mode /\ new.cumulative = rec.cumulative
        /\ new.last_share = rec.last_share
        /\ new.last_wave_id = rec.last_wave_id
        /\ new.pot = rec.pot + rec.prize_locked /\ new.prize_locked = 0
        /\ held' = held
    BY <1>1, <1>6 DEF Abandon, RainRec
  <2>2. Allocations(q)' = Allocations(q)
    BY <1>3, <2>1, AllocationsKept
  <2> HIDE DEF rec, new
  <2> QED
    BY <1>1, <1>2, <2>1, <2>2 DEF Solvent, rec, new
<1> QED
  BY <1>4, <1>5, <1>6

\* A rain just opened holds nothing and owes nothing.
LEMMA FreshSolvent ==
  ASSUME NEW q, Fresh(q)
  PROVE  Solvent(q)'
<1>1. \A a \in Accounts : Allocations(q)'[a] = 0
  BY DEF Fresh, Allocations, AllocationOf
<1>2. DOMAIN (Allocations(q)') = Accounts
  BY DEF Allocations
<1>3. Units(Allocations(q)') = {}
  BY <1>1, <1>2 DEF Units
<1>4. Total(Allocations(q)') = 0
  BY <1>3, FS_EmptySet DEF Total
<1> QED
  BY <1>4 DEF Fresh, Solvent

LEMMA SolventStep ==
  ASSUME SeatsInv, SeatsInv', Solvency, [Next]_vars
  PROVE  Solvency'
<1> SUFFICES ASSUME NEW q \in DOMAIN rains'  PROVE Solvent(q)'
  BY DEF Solvency
<1>1. TypeOK /\ TypeOK' /\ SeatsCounted(q)'
  BY DEF SeatsInv, SeatsMatch
<1>2. CASE Fresh(q)
  BY <1>2, FreshSolvent
<1>3. ASSUME q \in DOMAIN rains, Untouched(q) \/ Fired(q) \/ Called(q)
      PROVE  Solvent(q)'
  <2>1. InStep(q) /\ SeatsCounted(q) /\ Solvent(q)
    BY <1>3 DEF SeatsInv, TicketsInStep, SeatsMatch, Solvency
  <2>2. CASE Untouched(q)
    BY <2>1, <2>2, AllocationsKept DEF Untouched, Solvent
  <2>3. CASE Fired(q)
    BY <1>1, <1>3, <2>1, <2>3, FiredSolvent
  <2>4. CASE \E a \in Accounts, mbr \in MbrPayments : Enter(a, q, mbr)
    BY <1>1, <1>3, <2>1, <2>4, SeatCallsSolvent
  <2>5. CASE \E a \in Accounts : Gm(a, q) \/ Claim(a, q)
    BY <1>1, <1>3, <2>1, <2>5, SeatCallsSolvent, ClaimSolvent
  <2>6. CASE Resolve(q)
    BY <1>1, <1>3, <2>1, <2>6, ResolveSolvent
  <2> QED
    BY <1>1, <1>3, <2>1, <2>2, <2>3, <2>4, <2>5, <2>6, PotCallsSolvent
    DEF Called
<1> QED
  BY <1>1, <1>2, <1>3, StepShape

\* Every unit ever deposited is in a pot, locked as a prize or owed to a ticket
\* holder: the hub can always pay what its rains promise, whatever the calls.
THEOREM AlwaysSolvent == Spec => []Solvency
<1>1. Init => Solvency
  BY DEF Init, Solvency
<1>2. SeatsInv /\ SeatsInv' /\ Solvency /\ [Next]_vars => Solvency'
  BY SolventStep
<1>3. TypeOK /\ TicketsInStep /\ SeatsMatch => SeatsInv
  BY DEF SeatsInv
<1> QED
  BY <1>1, <1>2, <1>3, TypeCorrect, SeatsAlwaysMatch, PTL DEF Spec

-----------------------------------------------------------------------------
(* What a claim and a sum can come to *)

\* A term of a sum is at most the sum.
LEMMA TermBound ==
  ASSUME NEW f \in [Accounts -> Nat], NEW a \in Accounts
  PROVE  f[a] <= Total(f)
<1> DEFINE g == [b \in Accounts |-> IF b = a THEN 0 ELSE f[b]]
           s == f[a]
<1>1. s \in Nat /\ g \in [Accounts -> Nat]
  OBVIOUS
<1>2. f = Raise(g, {a}, s)
  BY DEF Raise
<1>3. Cardinality({a}) = 1
  BY FS_Singleton
<1> HIDE DEF s, g
<1>4. s * 1 = s
  BY <1>1
<1>5. Total(g) \in Nat
  BY <1>1, AccountsAssumption, TotalType
<1>6. Total(Raise(g, {a}, s)) = Total(g) + s * Cardinality({a})
  BY <1>1, AccountsAssumption, TotalRaise
<1> QED
  BY <1>1, <1>2, <1>3, <1>4, <1>5, <1>6 DEF s

\* No claim on a rain, nor its pot or locked prize, exceeds what it brought in.
LEMMA ClaimBound ==
  ASSUME TypeOK, NEW q \in DOMAIN rains, InStep(q), Solvent(q),
         NEW a \in Accounts
  PROVE  /\ AllocationOf(q, a) \in Nat
         /\ AllocationOf(q, a) + rains[q].pot + rains[q].prize_locked <= held[q]
<1>1. /\ Allocations(q) \in [Accounts -> Nat]
      /\ Total(Allocations(q)) \in Nat
  BY AllocationsType
<1>2. Allocations(q)[a] <= Total(Allocations(q))
  BY <1>1, TermBound
<1>3. Allocations(q)[a] = AllocationOf(q, a)
  BY DEF Allocations
<1>4. /\ rains[q].pot \in Nat /\ rains[q].prize_locked \in Nat
      /\ held[q] \in Int
  BY RainFacts
<1>5. AllocationOf(q, a) \in Nat
  BY <1>1, <1>3
<1> QED
  BY <1>1, <1>2, <1>3, <1>4, <1>5 DEF Solvent

\* Nor does what a WAVE drop is paid from.
LEMMA RecycledBound ==
  ASSUME TypeOK, NEW q \in DOMAIN rains, SeatsCounted(q), Solvent(q),
         rains[q].mode = WAVE
  PROVE  Recycled(rains[q]) <= held[q]
<1> DEFINE rec  == rains[q]
           owed == Total([a \in Accounts |-> IF a \in Holders(q)
                                            THEN tickets[<<q, a>>].credit ELSE 0])
           back == rec.last_share * rec.wave_unclaimed
<1>1. /\ rec.pot \in Nat /\ rec.prize_locked \in Nat /\ held[q] \in Int
      /\ rec.last_share \in Nat /\ rec.wave_unclaimed \in Nat
  BY RainFacts
<1>2. /\ owed \in Nat
      /\ Total(Allocations(q)) =
           owed + rec.last_share * Cardinality(Pending(q))
  BY WaveAllocations
<1>3. rec.last_share * Cardinality(Pending(q)) = back
  <2>1. Cardinality(Pending(q)) \in Nat
    BY HoldersFinite
  <2>2. CASE rec.last_share = 0
    BY <1>1, <2>1, <2>2
  <2>3. CASE rec.last_share # 0
    BY <2>3 DEF SeatsCounted
  <2> QED
    BY <2>2, <2>3
<1>4. back \in Nat
  BY <1>1, Product
<1>5. Recycled(rec) = rec.pot + back
  BY DEF Recycled
<1> HIDE DEF rec, owed, back
<1> QED
  BY <1>1, <1>2, <1>3, <1>4, <1>5 DEF Solvent, rec

\* The two bounds the calls themselves keep.
Bounded == \A r \in DOMAIN rains :
              held[r] <= Supply /\ rains[r].cumulative <= MaxUint

LEMMA BoundedStep ==
  ASSUME SeatsInv, Solvency, Bounded, TypeOK', [Next]_vars
  PROVE  Bounded'
<1> SUFFICES ASSUME NEW q \in DOMAIN rains'
             PROVE  held'[q] <= Supply /\ rains'[q].cumulative <= MaxUint
  BY DEF Bounded
<1>1. TypeOK /\ Supply \in Nat /\ MaxUint \in Nat
  BY WordAssumption DEF SeatsInv
<1>2. CASE Fresh(q)
  BY <1>1, <1>2 DEF Fresh
<1>3. ASSUME q \in DOMAIN rains, Untouched(q) \/ Fired(q) \/ Called(q)
      PROVE  held'[q] <= Supply /\ rains'[q].cumulative <= MaxUint
  <2> DEFINE rec == rains[q]
  <2>1. /\ rec \in RainRec /\ rec.cumulative <= MaxUint /\ held[q] <= Supply
        /\ held[q] \in Int /\ q \in DOMAIN held
        /\ InStep(q) /\ Solvent(q)
    BY <1>1, <1>3, RainFacts
    DEF Bounded, TypeOK, SeatsInv, TicketsInStep, Solvency
  <2>2. CASE Untouched(q) \/ Fired(q)
    BY <2>1, <2>2 DEF Untouched, Fired
  <2>3. ASSUME NEW a \in Accounts, NEW drip \in Drips,
               NEW interval \in Intervals, SetRain(a, q, drip, interval)
        PROVE  held'[q] <= Supply /\ rains'[q].cumulative <= MaxUint
    BY <1>1, <1>3, <2>1, <2>3 DEF SetRain, RainRec
  <2>4. ASSUME NEW a \in Accounts, NEW mbr \in MbrPayments, Enter(a, q, mbr)
        PROVE  held'[q] <= Supply /\ rains'[q].cumulative <= MaxUint
    BY <1>1, <1>3, <2>1, <2>4 DEF Enter, RainRec
  <2>5. ASSUME NEW a \in Accounts, Gm(a, q) \/ Claim(a, q)
        PROVE  held'[q] <= Supply /\ rains'[q].cumulative <= MaxUint
    <3>1. rains'[q].cumulative = rec.cumulative
      BY <1>1, <1>3, <2>5, SettlesBy DEF SettledBy
    <3>2. CASE Gm(a, q)
      BY <2>1, <3>1, <3>2 DEF Gm
    <3>3. CASE Claim(a, q)
      <4>1. AllocationOf(q, a) \in Nat
        BY <1>1, <1>3, <2>1, ClaimBound
      <4>2. held'[q] = held[q] - AllocationOf(q, a)
        BY <1>1, <1>3, <3>3, ClaimPays
      <4> QED
        BY <1>1, <2>1, <3>1, <4>1, <4>2
    <3> QED
      BY <2>5, <3>2, <3>3
  <2>6. ASSUME NEW amount \in Amounts, Deposit(q, amount)
        PROVE  held'[q] <= Supply /\ rains'[q].cumulative <= MaxUint
    BY <1>1, <1>3, <2>1, <2>6 DEF Deposit, RainRec
  <2>7. CASE Resolve(q) \/ Abandon(q)
    BY <1>1, <1>3, <2>1, <2>7 DEF Resolve, Abandon, RainRec
  <2> QED
    BY <1>3, <2>2, <2>3, <2>4, <2>5, <2>6, <2>7 DEF Called
<1> QED
  BY <1>1, <1>2, <1>3, StepShape

\* Nothing but a SPLIT rain's accumulator can outgrow an AVM integer, and no
\* claim exceeds what its rain holds: whatever the calls, claim, deposit, gm,
\* resolve, abandon and the WAVE and ONE drops are never refused for overflow.
THEOREM WordsAlwaysFit == Spec => []WordsFit
<1>1. Init => Bounded
  BY DEF Init, Bounded
<1>2. SeatsInv /\ Solvency /\ Bounded /\ TypeOK' /\ [Next]_vars => Bounded'
  BY BoundedStep
<1>3. SeatsInv /\ Solvency /\ Bounded => WordsFit
  <2> SUFFICES ASSUME SeatsInv, Solvency, Bounded, NEW q \in DOMAIN rains
               PROVE  /\ rains[q].cumulative <= MaxUint
                      /\ rains[q].pot + rains[q].prize_locked <= MaxUint
                      /\ rains[q].mode = WAVE => Recycled(rains[q]) <= MaxUint
                      /\ \A a \in Accounts :
                           AllocationOf(q, a) + rains[q].prize_locked <= MaxUint
    BY DEF WordsFit
  <2>1. TypeOK /\ InStep(q) /\ SeatsCounted(q) /\ Solvent(q)
    BY DEF SeatsInv, TicketsInStep, SeatsMatch, Solvency
  <2>2. /\ rains[q].pot \in Nat /\ rains[q].prize_locked \in Nat
        /\ rains[q] \in RainRec /\ held[q] \in Int
        /\ Supply \in Nat /\ MaxUint \in Nat /\ Supply <= MaxUint
    BY <2>1, RainFacts, WordAssumption
  <2>3. held[q] <= Supply /\ rains[q].cumulative <= MaxUint
    BY DEF Bounded
  <2>4. rains[q].pot + rains[q].prize_locked <= MaxUint
    <3>1. Total(Allocations(q)) \in Nat
      BY <2>1, AllocationsType
    <3> QED
      BY <2>1, <2>2, <2>3, <3>1 DEF Solvent
  <2>5. rains[q].mode = WAVE => Recycled(rains[q]) <= MaxUint
    <3>1. Recycled(rains[q]) \in Nat
      BY <2>2, AmountsType
    <3> QED
      BY <2>1, <2>2, <2>3, <3>1, RecycledBound
  <2>6. ASSUME NEW a \in Accounts
        PROVE  AllocationOf(q, a) + rains[q].prize_locked <= MaxUint
    <3>1. /\ AllocationOf(q, a) \in Nat
          /\ AllocationOf(q, a) + rains[q].pot + rains[q].prize_locked <= held[q]
      BY <2>1, ClaimBound
    <3> QED
      BY <2>2, <2>3, <3>1
  <2> QED
    BY <2>3, <2>4, <2>5, <2>6
<1>4. TypeOK /\ TicketsInStep /\ SeatsMatch => SeatsInv
  BY DEF SeatsInv
<1> QED
  BY <1>1, <1>2, <1>3, <1>4, TypeCorrect, SeatsAlwaysMatch, AlwaysSolvent, PTL
  DEF Spec

\* Firing a rain twice in one call is firing it once, so a scan that comes back
\* to a rain pays no second drop and takes nothing back twice, and Draw's one
\* step stands for the loop of draw (REQ-rain-006).
THEOREM FireIdempotent ==
  ASSUME NEW rec \in RainRec, round \in Nat \ {0}
  PROVE  TryFire(TryFire(rec)) = TryFire(rec)
<1> DEFINE new == TryFire(rec)
<1>1. /\ rec.interval_rounds \in Nat \ {0} /\ rec.pot \in Nat
      /\ rec.wave_count \in Nat /\ rec.mode \in {SPLIT, ONE, WAVE}
  BY DEF RainRec
<1>2. new \in RainRec
  BY FireType
<1>3. \/ new = rec
      \/ new.last_rain_round = round /\ new.interval_rounds = rec.interval_rounds
      \/ new.mode = WAVE /\ new.wave_count = 0 /\ new.wave_unclaimed = 0
  <2>1. \/ FireSplit(rec) = rec
        \/ /\ FireSplit(rec).last_rain_round = round
           /\ FireSplit(rec).interval_rounds = rec.interval_rounds
    BY DEF FireSplit, RainRec
  <2>2. \/ FireOne(rec) = rec
        \/ /\ FireOne(rec).last_rain_round = round
           /\ FireOne(rec).interval_rounds = rec.interval_rounds
    BY DEF FireOne, PrizeLocked, RainRec
  <2>3. rec.mode = WAVE =>
           \/ FireWave(rec) = rec
           \/ /\ FireWave(rec).last_rain_round = round
              /\ FireWave(rec).interval_rounds = rec.interval_rounds
           \/ /\ FireWave(rec).mode = WAVE /\ FireWave(rec).wave_count = 0
              /\ FireWave(rec).wave_unclaimed = 0
    BY DEF FireWave, WaveFalls, RainRec
  <2> QED
    BY <1>1, <2>1, <2>2, <2>3 DEF TryFire
<1> HIDE DEF new
<1>4. CASE new = rec
  BY <1>4 DEF new
<1>5. CASE new.last_rain_round = round /\ new.interval_rounds = rec.interval_rounds
  <2>1. ~Due(new)
    BY <1>1, <1>5 DEF Due
  <2>2. TryFire(new) = new
    BY <2>1 DEF TryFire
  <2> QED
    BY <2>2 DEF new
<1>6. CASE new.mode = WAVE /\ new.wave_count = 0 /\ new.wave_unclaimed = 0
  <2>1. Share(new) = 0
    BY <1>6 DEF Share, Sharers
  <2>2. FireWave(new) = new
    BY <1>6, <2>1 DEF FireWave
  <2>3. TryFire(new) = new
    BY <1>6, <2>2 DEF TryFire
  <2> QED
    BY <2>3 DEF new
<1> QED
  BY <1>3, <1>4, <1>5, <1>6
=============================================================================
