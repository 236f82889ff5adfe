------------------------------ MODULE BoxProofs ------------------------------
(* The boxes and pots of the hub, for every number of accounts and rains: the *)
(* numbering of a lottery, the payments that boxes stand on, and the drops.  *)
EXTENDS RainProofs, WellFoundedInduction

USE DEF SPLIT, ONE, WAVE

-----------------------------------------------------------------------------
(* The numbering of a lottery *)

Numbered(q, n) == n \in Nat /\ <<q, n>> \in DOMAIN indexes

\* IndexesMatch, number by number.
NumberedRight(q) ==
    rains[q].mode = ONE =>
        /\ \A n \in Nat : Numbered(q, n) <=> n < rains[q].tickets
        /\ \A n \in Nat : Numbered(q, n) => indexes[<<q, n>>] \in Holders(q)
        /\ \A a \in Holders(q) :
              \E n \in Nat : Numbered(q, n) /\ indexes[<<q, n>>] = a
        /\ \A m, n \in Nat :
              Numbered(q, m) /\ Numbered(q, n)
                  /\ indexes[<<q, m>>] = indexes[<<q, n>>] => m = n

\* The numbers of a rain are the seats of IndexesMatch.
LEMMA SeatsAreNumbers ==
  ASSUME TypeOK, NEW q
  PROVE  Seats(q) = {n \in Nat : Numbered(q, n)}
<1>1. \A j \in DOMAIN indexes : j = <<j[1], j[2]>> /\ j[2] \in Nat
  BY DEF TypeOK
<1>2. ASSUME NEW n \in Seats(q)  PROVE n \in Nat /\ Numbered(q, n)
  BY <1>1, <1>2 DEF Seats, Numbered
<1>3. ASSUME NEW n \in Nat, Numbered(q, n)  PROVE n \in Seats(q)
  <2>1. <<q, n>> \in {j \in DOMAIN indexes : j[1] = q} /\ <<q, n>>[2] = n
    BY <1>3 DEF Numbered
  <2> QED
    BY <2>1 DEF Seats
<1> QED
  BY <1>2, <1>3

\* The two ways of saying it.
LEMMA RightIsMatch ==
  ASSUME TypeOK, \A q \in DOMAIN rains : NumberedRight(q)
  PROVE  IndexesMatch
<1> SUFFICES ASSUME NEW q \in DOMAIN rains, rains[q].mode = ONE
             PROVE  LET f == [i \in Seats(q) |-> indexes[<<q, i>>]]
                    IN /\ Seats(q) = 0 .. rains[q].tickets - 1
                       /\ f \in Bijection(Seats(q), Holders(q))
  BY DEF IndexesMatch
<1> DEFINE f == [i \in Seats(q) |-> indexes[<<q, i>>]]
<1>1. Seats(q) = {n \in Nat : Numbered(q, n)} /\ rains[q].tickets \in Nat
  BY SeatsAreNumbers, RainFacts
<1>2. NumberedRight(q)
  OBVIOUS
<1>3. Seats(q) = 0 .. rains[q].tickets - 1
  BY <1>1, <1>2 DEF NumberedRight
<1>4. f \in [Seats(q) -> Holders(q)]
  BY <1>1, <1>2 DEF NumberedRight
<1>5. \A i, j \in Seats(q) : f[i] = f[j] => i = j
  BY <1>1, <1>2 DEF NumberedRight
<1>6. \A a \in Holders(q) : \E i \in Seats(q) : f[i] = a
  BY <1>1, <1>2 DEF NumberedRight
<1>7. DOMAIN f = Seats(q)
  OBVIOUS
<1> HIDE DEF f
<1>8. f \in Bijection(Seats(q), Holders(q))
  BY <1>4, <1>5, <1>6, <1>7 DEF Bijection, Injection, Surjection, IsInjective
<1> QED
  BY <1>3, <1>8 DEF f

\* A step that opens no ticket of the rain renumbers none.
LEMMA NumbersKept ==
  ASSUME NEW q, NumberedRight(q), IndexesSame(q), Holders(q)' = Holders(q),
         rains'[q].mode = rains[q].mode, rains'[q].tickets = rains[q].tickets
  PROVE  NumberedRight(q)'
<1>1. \A n \in Nat : Numbered(q, n)' <=> Numbered(q, n)
  BY DEF IndexesSame, Numbered
<1>2. \A n \in Nat : Numbered(q, n) => indexes'[<<q, n>>] = indexes[<<q, n>>]
  BY DEF IndexesSame, Numbered
<1> QED
  BY <1>1, <1>2 DEF NumberedRight

\* The calls that change a rain's box and none of its tickets.
LEMMA RecordMoves ==
  ASSUME NEW q \in DOMAIN rains, rains[q] \in RainRec
  PROVE  /\ \A a, drip, interval : SetRain(a, q, drip, interval) =>
               /\ rains'[q].mode = rains[q].mode
               /\ rains'[q].tickets = rains[q].tickets
               /\ rains'[q].commit_round = rains[q].commit_round
               /\ rains'[q].prize_locked = rains[q].prize_locked
         /\ \A amount : Deposit(q, amount) =>
               /\ rains'[q].mode = rains[q].mode
               /\ rains'[q].tickets = rains[q].tickets
               /\ rains'[q].commit_round = rains[q].commit_round
               /\ rains'[q].prize_locked = rains[q].prize_locked
         /\ Abandon(q) => /\ rains'[q].mode = rains[q].mode
                          /\ rains'[q].tickets = rains[q].tickets
<1>1. ASSUME NEW a, NEW drip, NEW interval, SetRain(a, q, drip, interval)
      PROVE  /\ rains'[q].mode = rains[q].mode
             /\ rains'[q].tickets = rains[q].tickets
             /\ rains'[q].commit_round = rains[q].commit_round
             /\ rains'[q].prize_locked = rains[q].prize_locked
  <2> DEFINE rec == [rains[q] EXCEPT !.drip = drip, !.interval_rounds = interval]
  <2>1. rains'[q] = rec
    BY <1>1 DEF SetRain
  <2>2. /\ rec.mode = rains[q].mode /\ rec.tickets = rains[q].tickets
        /\ rec.commit_round = rains[q].commit_round
        /\ rec.prize_locked = rains[q].prize_locked
    BY DEF RainRec
  <2> HIDE DEF rec
  <2> QED
    BY <2>1, <2>2
<1>2. ASSUME NEW amount, Deposit(q, amount)
      PROVE  /\ rains'[q].mode = rains[q].mode
             /\ rains'[q].tickets = rains[q].tickets
             /\ rains'[q].commit_round = rains[q].commit_round
             /\ rains'[q].prize_locked = rains[q].prize_locked
  <2> DEFINE rec == [rains[q] EXCEPT !.pot = @ + amount]
  <2>1. rains'[q] = rec
    BY <1>2 DEF Deposit
  <2>2. /\ rec.mode = rains[q].mode /\ rec.tickets = rains[q].tickets
        /\ rec.commit_round = rains[q].commit_round
        /\ rec.prize_locked = rains[q].prize_locked
    BY DEF RainRec
  <2> HIDE DEF rec
  <2> QED
    BY <2>1, <2>2
<1>3. ASSUME Abandon(q)
      PROVE  /\ rains'[q].mode = rains[q].mode
             /\ rains'[q].tickets = rains[q].tickets
  <2> DEFINE rec == [rains[q] EXCEPT !.pot = @ + rains[q].prize_locked,
                                     !.prize_locked = 0, !.commit_round = 0]
  <2>1. rains'[q] = rec
    BY <1>3 DEF Abandon
  <2>2. /\ rec.mode = rains[q].mode /\ rec.tickets = rains[q].tickets
    BY DEF RainRec
  <2> HIDE DEF rec
  <2> QED
    BY <2>1, <2>2
<1> QED
  BY <1>1, <1>2, <1>3

\* Nobody but enter opens a ticket or gives a number.
LEMMA OtherCallsKeepNumbers ==
  ASSUME TypeOK, NEW q \in DOMAIN rains, NumberedRight(q),
         Untouched(q) \/ Fired(q) \/ Called(q),
         ~ \E a \in Accounts, mbr \in MbrPayments : Enter(a, q, mbr)
  PROVE  NumberedRight(q)'
<1>1. rains[q] \in RainRec
  BY RainFacts
<1>2. CASE Untouched(q) \/ Fired(q)
  <2>1. rains'[q].mode = rains[q].mode /\ rains'[q].tickets = rains[q].tickets
    BY <1>1, <1>2, FireType DEF Untouched, Fired, TypeOK
  <2>2. IndexesSame(q) /\ Holders(q)' = Holders(q)
    BY <1>2 DEF Untouched, Fired, TicketsSame, Holders
  <2> QED
    BY <2>1, <2>2, NumbersKept
<1>3. ASSUME UNCHANGED indexes, DOMAIN tickets' = DOMAIN tickets,
             NEW rec, rains'[q] = rec, rec.mode = rains[q].mode,
             rec.tickets = rains[q].tickets
      PROVE  NumberedRight(q)'
  BY <1>3, NumbersKept DEF IndexesSame, Holders
<1>4. CASE \E a \in Accounts : Gm(a, q) \/ Claim(a, q)
  <2>1. PICK a \in Accounts : Gm(a, q) \/ Claim(a, q)
    BY <1>4
  <2>2. UNCHANGED indexes /\ DOMAIN tickets' = DOMAIN tickets
    BY <2>1 DEF Gm, Claim
  <2> DEFINE rec == SettledRec(rains[q], tickets[<<q, a>>])
  <2>3. rec \in RainRec /\ rec.mode = rains[q].mode /\ rec.tickets = rains[q].tickets
    BY <1>1 DEF SettledRec, RainRec
  <2> HIDE DEF rec
  <2>4. \/ rains'[q] = rec
        \/ rains'[q] = [rec EXCEPT !.wave_count = @ + 1]
    BY <2>1 DEF Gm, Claim, rec
  <2>5. rains'[q].mode = rains[q].mode /\ rains'[q].tickets = rains[q].tickets
    BY <2>3, <2>4 DEF RainRec
  <2> QED
    BY <1>3, <2>2, <2>5
<1>5. CASE \/ \E a \in Accounts, drip \in Drips, interval \in Intervals :
                 SetRain(a, q, drip, interval)
           \/ \E amount \in Amounts : Deposit(q, amount)
           \/ Abandon(q)
  <2>1. UNCHANGED <<tickets, indexes>>
    BY <1>5 DEF SetRain, Deposit, Abandon
  <2>2. rains'[q].mode = rains[q].mode /\ rains'[q].tickets = rains[q].tickets
    BY <1>1, <1>5, RecordMoves
  <2> QED
    BY <1>3, <2>1, <2>2
<1>6. CASE Resolve(q)
  <2>1. UNCHANGED indexes /\ DOMAIN tickets' = DOMAIN tickets
    BY <1>6 DEF Resolve
  <2>2. rains'[q] = [rains[q] EXCEPT !.prize_locked = 0, !.commit_round = 0]
    BY <1>6 DEF Resolve
  <2>3. rains'[q].mode = rains[q].mode /\ rains'[q].tickets = rains[q].tickets
    BY <1>1, <2>2 DEF RainRec
  <2> QED
    BY <1>3, <2>1, <2>3
<1> QED
  BY <1>2, <1>4, <1>5, <1>6 DEF Called

\* A new ticket takes the next number.
LEMMA EnterNumbers ==
  ASSUME TypeOK, NEW q \in DOMAIN rains, NumberedRight(q),
         NEW a \in Accounts, NEW mbr, Enter(a, q, mbr)
  PROVE  NumberedRight(q)'
<1> DEFINE rec == rains[q]
           new == [rec EXCEPT !.tickets = @ + 1,
                              !.wave_count = IF SeatFree(rec) THEN @ + 1 ELSE @]
<1>1. rec \in RainRec /\ rec.tickets \in Nat
  BY RainFacts
<1>2. rains' = [rains EXCEPT ![q] = new]
  BY DEF Enter
<1>3. new.mode = rec.mode /\ new.tickets = rec.tickets + 1
  BY <1>1 DEF RainRec
<1>4. rains'[q] = new
  BY <1>2
<1>5. rains'[q].mode = rec.mode /\ rains'[q].tickets = rec.tickets + 1
  BY <1>3, <1>4
<1> HIDE DEF new
<1>6. a \notin Holders(q) /\ Holders(q)' = Holders(q) \cup {a}
  BY DEF Enter, Holders, Put
<1> SUFFICES ASSUME rec.mode = ONE  PROVE NumberedRight(q)'
  BY <1>5 DEF NumberedRight
<1>7. indexes' = Put(indexes, <<q, rec.tickets>>, a)
  BY DEF Enter, TicketIndex
<1>8. /\ \A n \in Nat : Numbered(q, n)' <=> Numbered(q, n) \/ n = rec.tickets
      /\ indexes'[<<q, rec.tickets>>] = a
      /\ \A n \in Nat : n # rec.tickets /\ Numbered(q, n) =>
                            indexes'[<<q, n>>] = indexes[<<q, n>>]
  BY <1>1, <1>7 DEF Numbered, Put
<1>9. \A n \in Nat : Numbered(q, n) <=> n < rec.tickets
  BY DEF NumberedRight
<1>10. \A n \in Nat : Numbered(q, n)' <=> n < rec.tickets + 1
  BY <1>1, <1>8, <1>9
<1>11. \A n \in Nat : Numbered(q, n) => indexes'[<<q, n>>] = indexes[<<q, n>>]
                                       /\ indexes[<<q, n>>] \in Holders(q)
  BY <1>1, <1>8, <1>9 DEF NumberedRight
<1>12. \A n \in Nat : Numbered(q, n)' => indexes'[<<q, n>>] \in Holders(q)'
  BY <1>6, <1>8, <1>11
<1>13. \A b \in Holders(q)' :
          \E n \in Nat : Numbered(q, n)' /\ indexes'[<<q, n>>] = b
  <2> SUFFICES ASSUME NEW b \in Holders(q)'
               PROVE  \E n \in Nat : Numbered(q, n)' /\ indexes'[<<q, n>>] = b
    OBVIOUS
  <2>1. CASE b = a
    BY <1>1, <1>8, <2>1
  <2>2. CASE b \in Holders(q)
    <3>1. PICK n \in Nat : Numbered(q, n) /\ indexes[<<q, n>>] = b
      BY <2>2 DEF NumberedRight
    <3> QED
      BY <1>8, <1>11, <3>1
  <2> QED
    BY <1>6, <2>1, <2>2
<1>14. \A m, n \in Nat :
          Numbered(q, m)' /\ Numbered(q, n)'
              /\ indexes'[<<q, m>>] = indexes'[<<q, n>>] => m = n
  <2> SUFFICES ASSUME NEW m \in Nat, NEW n \in Nat, Numbered(q, m)',
                      Numbered(q, n)', indexes'[<<q, m>>] = indexes'[<<q, n>>]
               PROVE  m = n
    OBVIOUS
  <2>1. CASE Numbered(q, m) /\ Numbered(q, n)
    BY <1>11, <2>1 DEF NumberedRight
  <2>2. CASE ~Numbered(q, m) \/ ~Numbered(q, n)
    BY <1>6, <1>8, <1>11, <2>2
  <2> QED
    BY <2>1, <2>2
<1> QED
  BY <1>5, <1>10, <1>12, <1>13, <1>14 DEF NumberedRight

\* The index boxes of a lottery are 0 .. tickets - 1, one for each holder, at
\* every moment: resolve always finds the box and the ticket it asserts, and
\* every ticket can win (smart_contracts/rain/contract.py:411-420).
THEOREM NumbersAlwaysMatch == Spec => []IndexesMatch
<1> DEFINE Right == \A q \in DOMAIN rains : NumberedRight(q)
<1>1. Init => Right
  BY DEF Init
<1>2. TypeOK /\ TypeOK' /\ Right /\ [Next]_vars => Right'
  <2> SUFFICES ASSUME TypeOK, TypeOK', Right, [Next]_vars, NEW q \in DOMAIN rains'
               PROVE  NumberedRight(q)'
    OBVIOUS
  <2>1. CASE Fresh(q)
    <3>1. \A n \in Nat : ~Numbered(q, n)'
      BY <2>1 DEF Fresh, Numbered
    <3>2. Holders(q)' = {} /\ rains'[q].tickets = 0
      BY <2>1 DEF Fresh, Holders
    <3> QED
      BY <3>1, <3>2 DEF NumberedRight
  <2>2. CASE /\ q \in DOMAIN rains
             /\ \E a \in Accounts, mbr \in MbrPayments : Enter(a, q, mbr)
    BY <2>2, EnterNumbers
  <2>3. CASE /\ q \in DOMAIN rains /\ (Untouched(q) \/ Fired(q) \/ Called(q))
             /\ ~ \E a \in Accounts, mbr \in MbrPayments : Enter(a, q, mbr)
    BY <2>3, OtherCallsKeepNumbers
  <2> QED
    BY <2>1, <2>2, <2>3, StepShape
<1>3. TypeOK /\ Right => IndexesMatch
  BY RightIsMatch
<1> HIDE DEF Right
<1> QED
  BY <1>1, <1>2, <1>3, TypeCorrect, PTL DEF Spec
\* While a prize is locked nobody takes a number or gives one up, and its seed
\* round and its amount stand: the outcome is settled when the draw commits
\* (smart_contracts/rain/contract.py:266-272, 604-618).
THEOREM OutcomeStands == Spec => OutcomeFixed
<1> DEFINE Same(r) ==
        /\ rains'[r].commit_round = rains[r].commit_round
        /\ rains'[r].prize_locked = rains[r].prize_locked
        /\ rains'[r].tickets = rains[r].tickets
        /\ \A i \in Seats(r) : indexes'[<<r, i>>] = indexes[<<r, i>>]
<1>1. ASSUME TypeOK, [Next]_vars, NEW r \in DOMAIN rains, DrawOpen(r), DrawOpen(r)'
      PROVE  Same(r)
  <2>1. /\ rains[r] \in RainRec /\ rains[r].mode = ONE
        /\ rains[r].prize_locked \in Nat /\ rains[r].prize_locked # 0
        /\ r \in DOMAIN rains' /\ rains'[r].prize_locked # 0
    BY <1>1, RainFacts DEF DrawOpen
  <2>2. ASSUME rains'[r] = rains[r], IndexesSame(r)  PROVE Same(r)
    BY <1>1, <2>2, SeatsAreNumbers DEF IndexesSame, Numbered
  <2>3. CASE Untouched(r)
    BY <2>2, <2>3 DEF Untouched
  <2>4. CASE Fired(r)
    <3>1. TryFire(rains[r]) = rains[r]
      BY <2>1 DEF TryFire, FireOne
    <3> QED
      BY <2>2, <2>4, <3>1 DEF Fired
  <2>5. CASE \E a \in Accounts, mbr \in MbrPayments : Enter(a, r, mbr)
    BY <2>1, <2>5 DEF Enter, EntryOpen
  <2>6. CASE \E a \in Accounts : Gm(a, r)
    BY <2>1, <2>6 DEF Gm
  <2>7. CASE Resolve(r) \/ Abandon(r)
    <3>1. \/ rains'[r] = [rains[r] EXCEPT !.prize_locked = 0, !.commit_round = 0]
          \/ rains'[r] = [rains[r] EXCEPT !.pot = @ + rains[r].prize_locked,
                                          !.prize_locked = 0, !.commit_round = 0]
      BY <1>1, <2>7 DEF Resolve, Abandon
    <3>2. rains'[r].prize_locked = 0
      BY <2>1, <3>1 DEF RainRec
    <3> QED
      BY <2>1, <3>2
  <2>8. CASE \E a \in Accounts : Claim(a, r)
    <3>1. rains'[r] = rains[r] /\ UNCHANGED indexes
      BY <1>1, <2>1, <2>8 DEF Claim, SettledRec, Unsettled
    <3> QED
      BY <3>1
  <2>9. CASE \/ \E a \in Accounts, drip \in Drips, interval \in Intervals :
                  SetRain(a, r, drip, interval)
             \/ \E amount \in Amounts : Deposit(r, amount)
    <3>1. UNCHANGED indexes
      BY <2>9 DEF SetRain, Deposit
    <3>2. /\ rains'[r].commit_round = rains[r].commit_round
          /\ rains'[r].prize_locked = rains[r].prize_locked
          /\ rains'[r].tickets = rains[r].tickets
      BY <1>1, <2>1, <2>9, RecordMoves
    <3> QED
      BY <3>1, <3>2
  <2>10. ~Fresh(r)
    BY <1>1 DEF Fresh
  <2> HIDE DEF Same
  <2> QED
    BY <1>1, <2>1, <2>3, <2>4, <2>5, <2>6, <2>7, <2>8, <2>9, <2>10, StepShape
    DEF Called
<1>2. TypeOK /\ [Next]_vars =>
        [\A r \in DOMAIN rains : DrawOpen(r) /\ DrawOpen(r)' => Same(r)]_vars
  BY <1>1
<1> QED
  BY <1>2, TypeCorrect, PTL DEF Spec, OutcomeFixed

-----------------------------------------------------------------------------
(* The payments behind the boxes *)

\* What so many opt-ins, rains, tickets and numbers keep in the account.
Cost(o, r, t, n) ==
    AppBaseMbr + AssetOptInMbr * o + RainBoxMbr * r + TicketMbr * t + IndexMbr * n

LEMMA OneMore ==
  ASSUME NEW c \in Nat, NEW n \in Nat
  PROVE  c * n \in Nat /\ c * (n + 1) = c * n + c
OBVIOUS

\* One more of a kind costs its minimum balance.
LEMMA CostOfOne ==
  ASSUME NEW o \in Nat, NEW r \in Nat, NEW t \in Nat, NEW n \in Nat
  PROVE  /\ Cost(o, r, t, n) \in Nat
         /\ Cost(o + 1, r, t, n) = Cost(o, r, t, n) + AssetOptInMbr
         /\ Cost(o, r + 1, t, n) = Cost(o, r, t, n) + RainBoxMbr
         /\ Cost(o, r, t + 1, n) = Cost(o, r, t, n) + TicketMbr
         /\ Cost(o, r, t, n + 1) = Cost(o, r, t, n) + IndexMbr
         /\ Cost(0, 0, 0, 0) = AppBaseMbr
<1>1. /\ AssetOptInMbr * o \in Nat /\ RainBoxMbr * r \in Nat
      /\ TicketMbr * t \in Nat /\ IndexMbr * n \in Nat /\ AppBaseMbr \in Nat
      /\ AssetOptInMbr \in Nat /\ RainBoxMbr \in Nat
      /\ TicketMbr \in Nat /\ IndexMbr \in Nat
  BY OneMore, MbrAssumption
<1>2. /\ AssetOptInMbr * (o + 1) = AssetOptInMbr * o + AssetOptInMbr
      /\ RainBoxMbr * (r + 1) = RainBoxMbr * r + RainBoxMbr
      /\ TicketMbr * (t + 1) = TicketMbr * t + TicketMbr
      /\ IndexMbr * (n + 1) = IndexMbr * n + IndexMbr
  BY <1>1, OneMore
<1>3. /\ AssetOptInMbr * 0 = 0 /\ RainBoxMbr * 0 = 0 /\ TicketMbr * 0 = 0
      /\ IndexMbr * 0 = 0
  BY <1>1
<1> QED
  BY <1>1, <1>2, <1>3 DEF Cost

BoxCounts == <<Cardinality(opted_in), Cardinality(DOMAIN rains),
            Cardinality(DOMAIN tickets), Cardinality(DOMAIN indexes)>>

\* Before the set-up there is nothing to keep; after it, every box is paid for.
Funded ==
    /\ IsFiniteSet(DOMAIN tickets) /\ IsFiniteSet(DOMAIN indexes)
    /\ bootstrapped = 0 => /\ opted_in = {} /\ DOMAIN rains = {}
                           /\ DOMAIN tickets = {} /\ DOMAIN indexes = {}
    /\ BoxesFunded

LEMMA CountsType ==
  ASSUME TypeOK, Funded
  PROVE  /\ IsFiniteSet(opted_in) /\ IsFiniteSet(DOMAIN rains)
         /\ BoxCounts \in Nat \X Nat \X Nat \X Nat
         /\ MinBalance = Cost(BoxCounts[1], BoxCounts[2], BoxCounts[3], BoxCounts[4])
         /\ reserve \in Nat
<1>1. IsFiniteSet(opted_in)
  BY AssetsAssumption, FS_Subset DEF TypeOK
<1>2. DOMAIN rains = 1 .. next_rain_id /\ next_rain_id \in Nat
  BY DEF TypeOK
<1>3. IsFiniteSet(DOMAIN rains)
  BY <1>2, FS_Interval
<1>4. /\ Cardinality(opted_in) \in Nat /\ Cardinality(DOMAIN rains) \in Nat
      /\ Cardinality(DOMAIN tickets) \in Nat /\ Cardinality(DOMAIN indexes) \in Nat
  BY <1>1, <1>3, FS_CardinalityType DEF Funded
<1> QED
  BY <1>1, <1>3, <1>4 DEF BoxCounts, MinBalance, Cost, TypeOK

\* A set with one more member.
LEMMA Grown ==
  ASSUME NEW S, IsFiniteSet(S), NEW x
  PROVE  /\ IsFiniteSet(S \cup {x})
         /\ Cardinality(S \cup {x})
               = IF x \in S THEN Cardinality(S) ELSE Cardinality(S) + 1
BY FS_AddElement, FS_CardinalityType

\* Each call that adds a box brings what the box costs.
LEMMA FundedStep ==
  ASSUME TypeOK, Funded, [Next]_vars
  PROVE  Funded'
<1>1. PICK o \in Nat, r \in Nat, t \in Nat, n \in Nat : BoxCounts = <<o, r, t, n>>
  BY CountsType
<1>2. /\ Cardinality(opted_in) = o /\ Cardinality(DOMAIN rains) = r
      /\ Cardinality(DOMAIN tickets) = t /\ Cardinality(DOMAIN indexes) = n
      /\ MinBalance = Cost(o, r, t, n) /\ Cost(o, r, t, n) \in Nat
      /\ IsFiniteSet(opted_in) /\ IsFiniteSet(DOMAIN rains)
      /\ IsFiniteSet(DOMAIN tickets) /\ IsFiniteSet(DOMAIN indexes)
      /\ reserve \in Nat /\ bootstrapped \in {0, 1}
      /\ bootstrapped = 1 => reserve >= Cost(o, r, t, n)
  BY <1>1, CountsType, CostOfOne DEF BoxCounts, Funded, BoxesFunded, TypeOK
<1>3. MinBalance' = Cost(Cardinality(opted_in'), Cardinality(DOMAIN rains'),
                         Cardinality(DOMAIN tickets'), Cardinality(DOMAIN indexes'))
  BY DEF MinBalance, Cost
<1>4. \A mbr \in MbrPayments : mbr \in Nat
  BY MbrAssumption
<1>5. ASSUME UNCHANGED <<opted_in, bootstrapped, reserve>>,
             DOMAIN rains' = DOMAIN rains, DOMAIN tickets' = DOMAIN tickets,
             DOMAIN indexes' = DOMAIN indexes
      PROVE  Funded'
  BY <1>2, <1>3, <1>5 DEF Funded, BoxesFunded
<1>6. ASSUME NEW a, NEW mbr \in MbrPayments, Bootstrap(a, mbr)
      PROVE  Funded'
  <2>1. /\ bootstrapped = 0 /\ bootstrapped' = 1 /\ reserve' = reserve + mbr
        /\ mbr >= AppBaseMbr /\ mbr \in Nat /\ AppBaseMbr \in Nat
        /\ UNCHANGED <<rains, tickets, indexes, opted_in>>
    BY <1>4, <1>6, MbrAssumption DEF Bootstrap, MbrPaid, boxes
  <2>2. o = 0 /\ r = 0 /\ t = 0 /\ n = 0
    BY <1>2, <2>1, FS_EmptySet DEF Funded
  <2>3. MinBalance' = AppBaseMbr
    BY <1>2, <1>3, <2>1, <2>2, CostOfOne
  <2> QED
    BY <1>2, <2>1, <2>3 DEF Funded, BoxesFunded
<1>7. ASSUME NEW x \in Assets, NEW mbr \in MbrPayments, OptInPrizeAsset(x, mbr)
      PROVE  Funded'
  <2>1. /\ bootstrapped = 1 /\ bootstrapped' = 1 /\ reserve' = reserve + mbr
        /\ mbr >= AssetOptInMbr /\ mbr \in Nat /\ AssetOptInMbr \in Nat
        /\ opted_in' = opted_in \cup {x} /\ x \notin opted_in
        /\ UNCHANGED <<rains, tickets, indexes>>
    BY <1>4, <1>7, MbrAssumption DEF OptInPrizeAsset, MbrPaid, boxes
  <2>2. Cardinality(opted_in') = o + 1
    BY <1>2, <2>1, Grown
  <2>3. MinBalance' = Cost(o, r, t, n) + AssetOptInMbr
    BY <1>2, <1>3, <2>1, <2>2, CostOfOne
  <2> QED
    BY <1>2, <2>1, <2>3 DEF Funded, BoxesFunded
<1>8. ASSUME NEW a, NEW gate, NEW prize, NEW drip, NEW interval, NEW mode, NEW cap,
             NEW mbr \in MbrPayments,
             CreateRain(a, gate, prize, drip, interval, mode, cap, mbr)
      PROVE  Funded'
  <2>1. /\ bootstrapped = 1 /\ bootstrapped' = 1 /\ reserve' = reserve + mbr
        /\ mbr >= RainBoxMbr /\ mbr \in Nat /\ RainBoxMbr \in Nat
        /\ DOMAIN rains' = DOMAIN rains \cup {next_rain_id + 1}
        /\ UNCHANGED <<tickets, indexes, opted_in>>
    BY <1>4, <1>8, MbrAssumption DEF CreateRain, MbrPaid, Put
  <2>2. next_rain_id + 1 \notin DOMAIN rains
    BY DEF TypeOK
  <2>3. Cardinality(DOMAIN rains') = r + 1
    BY <1>2, <2>1, <2>2, Grown
  <2>4. MinBalance' = Cost(o, r, t, n) + RainBoxMbr
    BY <1>2, <1>3, <2>1, <2>3, CostOfOne
  <2> QED
    BY <1>2, <2>1, <2>4 DEF Funded, BoxesFunded
<1>9. ASSUME NEW a \in Accounts, NEW q, NEW mbr \in MbrPayments, Enter(a, q, mbr)
      PROVE  Funded'
  <2>1. /\ reserve' = reserve + mbr /\ mbr >= EnterMbr(rains[q]) /\ mbr \in Nat
        /\ q \in DOMAIN rains /\ bootstrapped' = bootstrapped
        /\ DOMAIN tickets' = DOMAIN tickets \cup {<<q, a>>}
        /\ <<q, a>> \notin DOMAIN tickets
        /\ DOMAIN rains' = DOMAIN rains /\ opted_in' = opted_in
    BY <1>4, <1>9 DEF Enter, MbrPaid, Put
  <2>2. bootstrapped = 1
    BY <1>2, <2>1 DEF Funded
  <2>3. Cardinality(DOMAIN tickets') = t + 1 /\ IsFiniteSet(DOMAIN tickets')
    BY <1>2, <2>1, Grown
  <2>4. TicketMbr \in Nat /\ IndexMbr \in Nat
    BY MbrAssumption
  <2>5. CASE rains[q].mode = ONE
    <3>1. DOMAIN indexes' = DOMAIN indexes \cup {<<q, TicketIndex(rains[q])>>}
      BY <1>9, <2>5 DEF Enter, Put
    <3> DEFINE k == <<q, TicketIndex(rains[q])>>
    <3>2. /\ IsFiniteSet(DOMAIN indexes \cup {k})
          /\ Cardinality(DOMAIN indexes \cup {k})
                = IF k \in DOMAIN indexes THEN Cardinality(DOMAIN indexes)
                  ELSE Cardinality(DOMAIN indexes) + 1
      <4> HIDE DEF k
      <4> QED
        BY <1>2, Grown
    <3> HIDE DEF k
    <3>3. IsFiniteSet(DOMAIN indexes') /\ Cardinality(DOMAIN indexes') \in {n, n + 1}
      BY <1>2, <3>1, <3>2 DEF k
    <3>4. mbr >= TicketMbr + IndexMbr
      BY <2>1, <2>5 DEF EnterMbr
    <3>5. MinBalance' \in {Cost(o, r, t, n) + TicketMbr,
                           Cost(o, r, t, n) + TicketMbr + IndexMbr}
      <4>1. Cost(o, r, t + 1, n) = Cost(o, r, t, n) + TicketMbr
            /\ Cost(o, r, t + 1, n + 1) = Cost(o, r, t + 1, n) + IndexMbr
        BY CostOfOne
      <4> QED
        BY <1>2, <1>3, <2>1, <2>3, <3>3, <4>1
    <3> QED
      BY <1>2, <2>1, <2>2, <2>3, <2>4, <3>3, <3>4, <3>5 DEF Funded, BoxesFunded
  <2>6. CASE rains[q].mode # ONE
    <3>1. UNCHANGED indexes
      BY <1>9, <2>6 DEF Enter
    <3>2. mbr >= TicketMbr
      BY <2>1, <2>6 DEF EnterMbr
    <3>3. MinBalance' = Cost(o, r, t, n) + TicketMbr
      BY <1>2, <1>3, <2>1, <2>3, <3>1, CostOfOne
    <3> QED
      BY <1>2, <2>1, <2>2, <2>3, <2>4, <3>1, <3>2, <3>3 DEF Funded, BoxesFunded
  <2> QED
    BY <2>5, <2>6
<1>10. ASSUME \/ Tick \/ Draw \/ UNCHANGED vars
              \/ \E a \in Accounts, x \in Assets, h \in Holdings : Trade(a, x, h)
       PROVE  Funded'
  BY <1>5, <1>10 DEF Tick, Draw, Drawn, Trade, vars, boxes, hub
<1>11. ASSUME NEW q,
              \/ \E a \in Accounts, drip \in Drips, interval \in Intervals :
                    SetRain(a, q, drip, interval)
              \/ \E a \in Accounts : Gm(a, q) \/ Claim(a, q)
              \/ \E amount \in Amounts : Deposit(q, amount)
              \/ Resolve(q) \/ Abandon(q)
       PROVE  Funded'
  BY <1>5, <1>11 DEF SetRain, Gm, Claim, Deposit, Resolve, Abandon, hub
<1> QED
  BY <1>6, <1>7, <1>8, <1>9, <1>10, <1>11 DEF Next

\* From the set-up on, the minimum-balance payments cover every box and opt-in,
\* whatever was paid beyond: the ALGO of the pots is never what keeps them
\* (smart_contracts/rain/contract.py:155-281).
THEOREM BoxesAlwaysFunded == Spec => []BoxesFunded
<1>1. Init => Funded
  <2> SUFFICES ASSUME Init  PROVE Funded
    OBVIOUS
  <2>1. /\ DOMAIN tickets = {} /\ DOMAIN indexes = {} /\ DOMAIN rains = {}
        /\ opted_in = {} /\ bootstrapped = 0
    BY DEF Init
  <2> QED
    BY <2>1, FS_EmptySet DEF Funded, BoxesFunded
<1>2. TypeOK /\ Funded /\ [Next]_vars => Funded'
  BY FundedStep
<1>3. Funded => BoxesFunded
  BY DEF Funded
<1> QED
  BY <1>1, <1>2, <1>3, TypeCorrect, PTL DEF Spec
-----------------------------------------------------------------------------
(* What leaves a pot *)

\* Every rain's clock has been started.
Started == \A q \in DOMAIN rains : rains[q].last_rain_round > 0

\* A fire that counts as a drop takes the drip at most, and not too soon.
LEMMA FireDrops ==
  ASSUME NEW rec \in RainRec, round \in Nat \ {0}, rec.last_rain_round > 0,
         TryFire(rec).pot < rec.pot \/ TryFire(rec).draw_id # rec.draw_id
  PROVE  /\ TryFire(rec).draw_id = rec.draw_id + 1
         /\ TryFire(rec).last_rain_round = round
         /\ round >= rec.last_rain_round + rec.interval_rounds
         /\ TryFire(rec).pot >= rec.pot - rec.drip
<1>1. /\ rec.pot \in Nat /\ rec.drip \in Nat /\ rec.draw_id \in Nat
      /\ rec.last_rain_round \in Nat /\ rec.interval_rounds \in Nat
      /\ rec.prize_locked \in Nat /\ rec.wave_unclaimed \in Nat
      /\ rec.last_share \in Nat
  BY DEF RainRec
<1>2. Sharers(rec) \in Nat /\ Share(rec) \in Nat /\ Paid(rec) \in Nat
      /\ Recycled(rec) \in Nat
  BY AmountsType
<1>3. Recycled(rec) >= rec.pot
  <2>1. rec.last_share * rec.wave_unclaimed \in Nat
    BY <1>1, Product
  <2> QED
    BY <1>1, <2>1 DEF Recycled
<1>4. Share(rec) > 0 => Paid(rec) <= rec.drip
  BY <1>1, <1>2, Quotient DEF Share, Paid
<1>5. Due(rec) /\ round >= rec.last_rain_round + rec.interval_rounds
  BY <1>1 DEF TryFire, Due
<1>6. CASE rec.mode = SPLIT
  <2>1. TryFire(rec) = FireSplit(rec)
    BY <1>5, <1>6 DEF TryFire
  <2>2. /\ Share(rec) > 0
        /\ FireSplit(rec) = [rec EXCEPT !.pot = @ - Paid(rec),
                                        !.cumulative = @ + Share(rec),
                                        !.draw_id = @ + 1,
                                        !.last_rain_round = round]
    BY <1>1, <2>1 DEF FireSplit
  <2>3. /\ FireSplit(rec).pot = rec.pot - Paid(rec)
        /\ FireSplit(rec).draw_id = rec.draw_id + 1
        /\ FireSplit(rec).last_rain_round = round
    BY <2>2 DEF RainRec
  <2> QED
    BY <1>1, <1>2, <1>4, <1>5, <2>1, <2>2, <2>3
<1>7. CASE rec.mode = WAVE
  <2>1. TryFire(rec) = FireWave(rec)
    BY <1>5, <1>7 DEF TryFire
  <2>2. CASE rec.wave_count = 0 /\ rec.wave_unclaimed > 0
    <3>1. FireWave(rec) = [rec EXCEPT !.pot = Recycled(rec),
                                      !.wave_unclaimed = 0, !.last_share = 0]
      BY <2>2 DEF FireWave
    <3>2. FireWave(rec).pot = Recycled(rec) /\ FireWave(rec).draw_id = rec.draw_id
      BY <3>1 DEF RainRec
    <3> QED
      BY <1>1, <1>2, <1>3, <2>1, <3>2
  <2>3. CASE ~(rec.wave_count = 0 /\ rec.wave_unclaimed > 0)
    <3>1. Share(rec) > 0 /\ FireWave(rec) = WaveFalls(rec)
      BY <1>1, <2>1, <2>3 DEF FireWave
    <3>2. /\ WaveFalls(rec).pot = Recycled(rec) - Paid(rec)
          /\ WaveFalls(rec).draw_id = rec.draw_id + 1
          /\ WaveFalls(rec).last_rain_round = round
      BY DEF WaveFalls, RainRec
    <3> QED
      BY <1>1, <1>2, <1>3, <1>4, <1>5, <2>1, <3>1, <3>2
  <2> QED
    BY <2>2, <2>3
<1>8. CASE rec.mode # SPLIT /\ rec.mode # WAVE
  <2>1. TryFire(rec) = FireOne(rec)
    BY <1>5, <1>8 DEF TryFire
  <2>2. FireOne(rec) = PrizeLocked(rec)
    BY <1>1, <2>1 DEF FireOne
  <2>3. /\ PrizeLocked(rec).pot = rec.pot - rec.drip
        /\ PrizeLocked(rec).draw_id = rec.draw_id + 1
        /\ PrizeLocked(rec).last_rain_round = round
    BY DEF PrizeLocked, RainRec
  <2> QED
    BY <1>1, <1>5, <2>1, <2>2, <2>3
<1> QED
  BY <1>6, <1>7, <1>8

\* A fire leaves the clock where it was, or sets it to this round.
LEMMA FireClock ==
  ASSUME NEW rec \in RainRec
  PROVE  TryFire(rec).last_rain_round \in {rec.last_rain_round, round}
<1>1. FireSplit(rec).last_rain_round \in {rec.last_rain_round, round}
  BY DEF FireSplit, RainRec
<1>2. FireWave(rec).last_rain_round \in {rec.last_rain_round, round}
  <2>1. WaveFalls(rec).last_rain_round = round
    BY DEF WaveFalls, RainRec
  <2>2. [rec EXCEPT !.pot = Recycled(rec), !.wave_unclaimed = 0,
                    !.last_share = 0].last_rain_round = rec.last_rain_round
    BY DEF RainRec
  <2> QED
    BY <2>1, <2>2 DEF FireWave
<1>3. FireOne(rec).last_rain_round \in {rec.last_rain_round, round}
  <2>1. PrizeLocked(rec).last_rain_round = round
    BY DEF PrizeLocked, RainRec
  <2> QED
    BY <2>1 DEF FireOne
<1> QED
  BY <1>1, <1>2, <1>3 DEF TryFire

\* No call takes anything from a pot, counts a drop or touches the clock.
LEMMA CallsDropNothing ==
  ASSUME TypeOK, NEW q \in DOMAIN rains, Called(q)
  PROVE  /\ rains'[q].pot >= rains[q].pot
         /\ rains'[q].draw_id = rains[q].draw_id
         /\ rains'[q].last_rain_round = rains[q].last_rain_round
<1>1. rains[q] \in RainRec /\ rains[q].pot \in Nat /\ rains[q].prize_locked \in Nat
  BY RainFacts
<1> DEFINE Good(rec) == /\ rec.pot >= rains[q].pot
                        /\ rec.draw_id = rains[q].draw_id
                        /\ rec.last_rain_round = rains[q].last_rain_round
<1>2. CASE \E a \in Accounts, drip \in Drips, interval \in Intervals :
              SetRain(a, q, drip, interval)
  <2>1. PICK drip, interval :
           rains'[q] = [rains[q] EXCEPT !.drip = drip, !.interval_rounds = interval]
    BY <1>2, ZenonT(60) DEF SetRain
  <2> QED
    BY <1>1, <2>1 DEF RainRec
<1>3. CASE \E a \in Accounts, mbr \in MbrPayments : Enter(a, q, mbr)
  <2>1. rains'[q] = [rains[q] EXCEPT !.tickets = @ + 1,
            !.wave_count = IF SeatFree(rains[q]) THEN @ + 1 ELSE @]
    BY <1>3 DEF Enter
  <2> QED
    BY <1>1, <2>1 DEF RainRec
<1>4. CASE \E a \in Accounts : Gm(a, q) \/ Claim(a, q)
  <2>1. PICK a \in Accounts : Gm(a, q) \/ Claim(a, q)
    BY <1>4
  <2> DEFINE rec == SettledRec(rains[q], tickets[<<q, a>>])
  <2>2. rec \in RainRec /\ Good(rec)
    BY <1>1 DEF SettledRec, RainRec
  <2> HIDE DEF rec
  <2>3. rains'[q] = rec \/ rains'[q] = [rec EXCEPT !.wave_count = @ + 1]
    BY <2>1 DEF Gm, Claim, rec
  <2> QED
    BY <2>2, <2>3 DEF RainRec
<1>5. CASE \E amount \in Amounts : Deposit(q, amount)
  <2>1. PICK amount \in Amounts : Deposit(q, amount)
    BY <1>5
  <2>2. amount \in Nat /\ rains'[q] = [rains[q] EXCEPT !.pot = @ + amount]
    BY <2>1, InputAssumption DEF Deposit
  <2> QED
    BY <1>1, <2>2 DEF RainRec
<1>6. CASE Resolve(q)
  <2>1. rains'[q] = [rains[q] EXCEPT !.prize_locked = 0, !.commit_round = 0]
    BY <1>6 DEF Resolve
  <2> QED
    BY <1>1, <2>1 DEF RainRec
<1>7. CASE Abandon(q)
  <2>1. rains'[q] = [rains[q] EXCEPT !.pot = @ + rains[q].prize_locked,
                                     !.prize_locked = 0, !.commit_round = 0]
    BY <1>7 DEF Abandon
  <2> QED
    BY <1>1, <2>1 DEF RainRec
<1> QED
  BY <1>2, <1>3, <1>4, <1>5, <1>6, <1>7 DEF Called

\* Rains are opened by create_rain alone, one at a time.
LEMMA NextIdMoves ==
  ASSUME [Next]_vars
  PROVE  \/ next_rain_id' = next_rain_id
         \/ /\ next_rain_id' = next_rain_id + 1
            /\ \E a \in Accounts, gate \in Gates \cup {NoGate},
                  prize \in Assets \cup {Algo}, drip \in Drips,
                  interval \in Intervals, mode \in Modes, cap \in WaveCaps,
                  mbr \in MbrPayments :
                    CreateRain(a, gate, prize, drip, interval, mode, cap, mbr)
<1>1. CASE \E r \in RainIds : Called(r)
  <2>1. PICK r \in RainIds : Called(r)
    BY <1>1
  <2>2. CASE \E a \in Accounts, mbr \in MbrPayments : Enter(a, r, mbr)
    BY <2>2 DEF Enter
  <2>3. CASE \E a \in Accounts : Gm(a, r) \/ Claim(a, r)
    BY <2>3 DEF Gm, Claim, hub
  <2>4. CASE \/ \E a \in Accounts, drip \in Drips, interval \in Intervals :
                 SetRain(a, r, drip, interval)
             \/ \E amount \in Amounts : Deposit(r, amount)
             \/ Resolve(r) \/ Abandon(r)
    BY <2>4 DEF SetRain, Deposit, Resolve, Abandon, hub
  <2> QED
    BY <2>1, <2>2, <2>3, <2>4 DEF Called
<1>2. CASE \/ Tick \/ Draw \/ UNCHANGED vars
           \/ \E a \in Accounts, x \in Assets, h \in Holdings : Trade(a, x, h)
           \/ \E a \in Accounts \cup {HubCreator}, mbr \in MbrPayments :
                  Bootstrap(a, mbr)
           \/ \E x \in Assets, mbr \in MbrPayments : OptInPrizeAsset(x, mbr)
  BY <1>2 DEF Tick, Draw, Trade, Bootstrap, OptInPrizeAsset, vars, hub
<1>3. ASSUME NEW a \in Accounts, NEW gate \in Gates \cup {NoGate},
             NEW prize \in Assets \cup {Algo}, NEW drip \in Drips,
             NEW interval \in Intervals, NEW mode \in Modes,
             NEW cap \in WaveCaps, NEW mbr \in MbrPayments,
             CreateRain(a, gate, prize, drip, interval, mode, cap, mbr)
      PROVE  next_rain_id' = next_rain_id + 1
  BY <1>3 DEF CreateRain
<1> QED
  BY <1>1, <1>2, <1>3 DEF Next, Called

\* A rain opens with its clock at the present round.
LEMMA StartedStep ==
  ASSUME TypeOK, TypeOK', Started, [Next]_vars
  PROVE  Started'
<1> SUFFICES ASSUME NEW q \in DOMAIN rains'  PROVE rains'[q].last_rain_round > 0
  BY DEF Started
<1>1. round \in Nat \ {0}
  BY DEF TypeOK
<1>2. ASSUME q \in DOMAIN rains, Untouched(q) \/ Fired(q) \/ Called(q)
      PROVE  rains'[q].last_rain_round > 0
  BY <1>1, <1>2, RainFacts, FireClock, CallsDropNothing DEF Started, Untouched, Fired
<1>3. ASSUME q \notin DOMAIN rains  PROVE rains'[q].last_rain_round = round
  <2>1. DOMAIN rains' # DOMAIN rains
    BY <1>3
  <2>2. PICK a \in Accounts, gate \in Gates \cup {NoGate},
          prize \in Assets \cup {Algo}, drip \in Drips,
          interval \in Intervals, mode \in Modes, cap \in WaveCaps,
          mbr \in MbrPayments :
            CreateRain(a, gate, prize, drip, interval, mode, cap, mbr)
    BY <2>1, NextIdMoves DEF TypeOK
  <2>3. q = next_rain_id + 1
    BY <1>3, <2>2 DEF CreateRain, Put, TypeOK
  <2> QED
    BY <2>2, <2>3 DEF CreateRain, Put
<1> QED
  BY <1>1, <1>2, <1>3, StepShape DEF Fresh

\* Money leaves a pot as a drop and in no other way: the drip at most, counted
\* once, and no sooner than the interval after the drop before, whatever call
\* it is and however often the scan comes round
\* (smart_contracts/rain/contract.py:514-528).
THEOREM PotsFallByDrop == Spec => PotFallsByDrop
<1> DEFINE ByDrop(r) ==
        /\ rains'[r].draw_id = rains[r].draw_id + 1
        /\ rains'[r].last_rain_round = round
        /\ round >= rains[r].last_rain_round + rains[r].interval_rounds
        /\ rains'[r].pot >= rains[r].pot - rains[r].drip
<1>1. Init => Started
  BY DEF Init, Started
<1>2. TypeOK /\ TypeOK' /\ Started /\ [Next]_vars => Started'
  BY StartedStep
<1>3. ASSUME TypeOK, TypeOK', Started, [Next]_vars, NEW r \in DOMAIN rains,
             rains'[r].pot < rains[r].pot \/ rains'[r].draw_id # rains[r].draw_id
      PROVE  ByDrop(r)
  <2>1. /\ rains[r] \in RainRec /\ rains[r].pot \in Nat /\ round \in Nat \ {0}
        /\ rains[r].last_rain_round > 0 /\ ~Fresh(r)
    BY <1>3, RainFacts DEF Started, Fresh, TypeOK
  <2>2. r \in DOMAIN rains' /\ rains'[r].pot \in Int
    <3>1. next_rain_id' \in {next_rain_id, next_rain_id + 1}
      BY <1>3, NextIdMoves
    <3>2. r \in DOMAIN rains'
      BY <1>3, <3>1 DEF TypeOK
    <3> QED
      BY <1>3, <3>2 DEF TypeOK, RainRec
  <2>3. CASE Untouched(r)
    BY <1>3, <2>1, <2>3 DEF Untouched
  <2>4. CASE Fired(r)
    BY <1>3, <2>1, <2>4, FireDrops DEF Fired
  <2>5. CASE Called(r)
    BY <1>3, <2>1, <2>2, <2>5, CallsDropNothing
  <2> HIDE DEF ByDrop
  <2> QED
    BY <1>3, <2>1, <2>2, <2>3, <2>4, <2>5, StepShape
<1>4. TypeOK /\ TypeOK' /\ Started /\ [Next]_vars =>
        [\A r \in DOMAIN rains :
           rains'[r].pot < rains[r].pot \/ rains'[r].draw_id # rains[r].draw_id =>
              ByDrop(r)]_vars
  BY <1>3
<1> QED
  BY <1>1, <1>2, <1>4, TypeCorrect, PTL DEF Spec, PotFallsByDrop

-----------------------------------------------------------------------------
(* What an account can claim, and the steps that change it *)

SameOwed(q) == \A b \in Accounts : AllocationOf(q, b)' = AllocationOf(q, b)

\* A ticket is owed more: its share of the one drop of this step.
ShareFell(q, a) ==
    /\ a \in Holders(q)
    /\ rains[q].mode # ONE
    /\ rains'[q].draw_id = rains[q].draw_id + 1
    /\ AllocationOf(q, a)' = AllocationOf(q, a) + Share(rains[q])
    /\ rains[q].mode = WAVE => a \in Seated(q)

\* A ticket is owed less: a share it had not settled is taken back.
ShareLost(q, a) ==
    /\ a \in Pending(q)
    /\ Due(rains[q])
    /\ AllocationOf(q, a)' = tickets[<<q, a>>].credit

\* SPLIT: each ticket is owed one more share.
LEMMA SplitOwes ==
  ASSUME TypeOK, NEW q \in DOMAIN rains, rains[q].mode = SPLIT, Fired(q),
         InStep(q), NEW a \in Accounts
  PROVE  AllocationOf(q, a)' = AllocationOf(q, a) \/ ShareFell(q, a)
<1> DEFINE rec == rains[q]
<1>1. /\ rec \in RainRec /\ rec.cumulative \in Nat /\ Share(rec) \in Nat
      /\ rains'[q] \in {rec, FireSplit(rec)} /\ TicketsSame(q)
  BY RainFacts, AmountsType DEF Fired, TryFire
<1>2. CASE a \notin Holders(q)
  BY <1>1, <1>2 DEF AllocationOf, Holders, TicketsSame
<1>3. CASE rains'[q] = rec
  BY <1>1, <1>3, AllocationsKept DEF Allocations
<1>4. CASE a \in Holders(q) /\ rains'[q] # rec
  <2>1. rains'[q] = [rec EXCEPT !.pot = @ - Paid(rec),
             !.cumulative = @ + Share(rec), !.draw_id = @ + 1,
             !.last_rain_round = round]
    BY <1>1, <1>4 DEF FireSplit
  <2>2. /\ rains'[q].mode = SPLIT
        /\ rains'[q].cumulative = rec.cumulative + Share(rec)
        /\ rains'[q].draw_id = rec.draw_id + 1
    BY <1>1, <2>1 DEF RainRec
  <2> DEFINE t == tickets[<<q, a>>]
  <2>3. t.credit \in Nat
    BY <1>4, TicketFacts
  <2>4. /\ <<q, a>> \in DOMAIN tickets /\ <<q, a>> \in DOMAIN tickets'
        /\ tickets'[<<q, a>>] = t
    BY <1>1, <1>4 DEF Holders, TicketsSame
  <2>5. AllocationOf(q, a) = rec.cumulative - t.credit
    BY <2>4 DEF AllocationOf, Allocation, Unsettled
  <2>6. AllocationOf(q, a)' = rains'[q].cumulative - tickets'[<<q, a>>].credit
    BY <2>2, <2>4 DEF AllocationOf, Allocation, Unsettled
  <2> QED
    BY <1>1, <1>4, <2>2, <2>3, <2>4, <2>5, <2>6 DEF ShareFell
<1> QED
  BY <1>2, <1>3, <1>4

\* WAVE: the seated are owed one more share, and those who had not settled the
\* drop before are not owed it any longer.
LEMMA WaveOwes ==
  ASSUME TypeOK, NEW q \in DOMAIN rains, rains[q].mode = WAVE, Fired(q),
         InStep(q), NEW a \in Accounts
  PROVE  \/ AllocationOf(q, a)' = AllocationOf(q, a)
         \/ ShareFell(q, a) \/ ShareLost(q, a)
<1> DEFINE rec == rains[q]
           t == tickets[<<q, a>>]
<1>1. /\ rec \in RainRec /\ rec.last_wave_id \in Nat /\ Share(rec) \in Nat
      /\ TicketsSame(q)
      /\ rains'[q] = rec \/ (Due(rec) /\ rains'[q] = FireWave(rec))
  BY RainFacts, AmountsType DEF Fired, TryFire
<1>2. CASE a \notin Holders(q)
  BY <1>1, <1>2 DEF AllocationOf, Holders, TicketsSame
<1>3. CASE rains'[q] = rec
  BY <1>1, <1>3, AllocationsKept DEF Allocations
<1>4. CASE a \in Holders(q) /\ rains'[q] # rec
  <2>1. /\ t.credit \in Nat /\ t.wave_id \in Nat /\ t.settled_id \in Nat
        /\ t.settled_id <= rec.last_wave_id
        /\ tickets'[<<q, a>>] = t /\ <<q, a>> \in DOMAIN tickets'
        /\ <<q, a>> \in DOMAIN tickets
    BY <1>1, <1>4, TicketFacts DEF InStep, TicketsSame
  <2>2. AllocationOf(q, a) = IF a \in Pending(q) THEN t.credit + rec.last_share
                                                 ELSE t.credit
    BY <1>4, <2>1 DEF AllocationOf, Allocation, Pending, Unsettled
  <2>3. CASE rains'[q] = [rec EXCEPT !.pot = Recycled(rec),
                             !.wave_unclaimed = 0, !.last_share = 0]
    <3>1. rains'[q].mode = WAVE /\ rains'[q].last_share = 0
      BY <1>1, <2>3 DEF RainRec
    <3>2. AllocationOf(q, a)' = t.credit
      BY <2>1, <3>1 DEF AllocationOf, Allocation
    <3> QED
      BY <1>1, <1>4, <2>2, <3>2 DEF ShareLost
  <2>4. CASE rains'[q] = WaveFalls(rec)
    <3>1. /\ rains'[q].mode = WAVE /\ rains'[q].last_share = Share(rec)
          /\ rains'[q].last_wave_id = rec.last_wave_id + 1
          /\ rains'[q].draw_id = rec.draw_id + 1
      BY <1>1, <2>4 DEF WaveFalls, RainRec
    <3>2. AllocationOf(q, a)' = IF t.wave_id = rec.last_wave_id + 1
                                THEN t.credit + Share(rec) ELSE t.credit
      BY <1>1, <2>1, <3>1 DEF AllocationOf, Allocation, Unsettled
    <3>3. CASE t.wave_id = rec.last_wave_id + 1
      <4>1. a \in Seated(q) /\ a \notin Pending(q)
        BY <1>1, <1>4, <3>3 DEF Seated, Pending, Unsettled
      <4> QED
        BY <1>1, <1>4, <2>1, <2>2, <3>1, <3>2, <3>3, <4>1 DEF ShareFell
    <3>4. CASE t.wave_id # rec.last_wave_id + 1
      BY <1>1, <1>4, <2>2, <3>2, <3>4 DEF ShareLost
    <3> QED
      BY <3>3, <3>4
  <2> QED
    BY <1>1, <1>4, <2>3, <2>4 DEF FireWave
<1> QED
  BY <1>2, <1>3, <1>4

\* ONE: locking a prize gives nobody a claim to it.
LEMMA OneOwes ==
  ASSUME TypeOK, NEW q \in DOMAIN rains, rains[q].mode = ONE, Fired(q)
  PROVE  SameOwed(q)
<1> DEFINE rec == rains[q]
<1>1. /\ rec \in RainRec /\ TicketsSame(q)
      /\ rains'[q] = rec \/ rains'[q] = PrizeLocked(rec)
  BY RainFacts DEF Fired, TryFire, FireOne
<1>2. /\ rains'[q].mode = rec.mode /\ rains'[q].cumulative = rec.cumulative
      /\ rains'[q].last_share = rec.last_share
      /\ rains'[q].last_wave_id = rec.last_wave_id
  BY <1>1 DEF PrizeLocked, RainRec
<1>3. Allocations(q)' = Allocations(q)
  BY <1>1, <1>2, AllocationsKept
<1> QED
  BY <1>3 DEF SameOwed, Allocations

\* set_rain, deposit and abandon leave what is owed alone.
LEMMA PotCallsOwe ==
  ASSUME TypeOK, NEW q \in DOMAIN rains,
         \/ \E a \in Accounts, drip \in Drips, interval \in Intervals :
               SetRain(a, q, drip, interval)
         \/ \E amount \in Amounts : Deposit(q, amount)
         \/ Abandon(q)
  PROVE  SameOwed(q)
<1>1. rains[q] \in RainRec
  BY RainFacts
<1>2. TicketsSame(q)
  BY DEF SetRain, Deposit, Abandon, TicketsSame
<1> DEFINE Same(rec) == /\ rec.mode = rains[q].mode
                        /\ rec.cumulative = rains[q].cumulative
                        /\ rec.last_share = rains[q].last_share
                        /\ rec.last_wave_id = rains[q].last_wave_id
<1>3. Same(rains'[q])
  <2>1. ASSUME NEW a, NEW drip, NEW interval, SetRain(a, q, drip, interval)
        PROVE  Same(rains'[q])
    <3>1. rains'[q] =
             [rains[q] EXCEPT !.drip = drip, !.interval_rounds = interval]
      BY <2>1 DEF SetRain
    <3> QED
      BY <1>1, <3>1 DEF RainRec
  <2>2. ASSUME NEW amount, Deposit(q, amount)
        PROVE  Same(rains'[q])
    <3>1. rains'[q] = [rains[q] EXCEPT !.pot = @ + amount]
      BY <2>2 DEF Deposit
    <3> QED
      BY <1>1, <3>1 DEF RainRec
  <2>3. ASSUME Abandon(q)
        PROVE  Same(rains'[q])
    <3>1. rains'[q] = [rains[q] EXCEPT !.pot = @ + rains[q].prize_locked,
                          !.prize_locked = 0, !.commit_round = 0]
      BY <2>3 DEF Abandon
    <3> QED
      BY <1>1, <3>1 DEF RainRec
  <2> HIDE DEF Same
  <2> QED
    BY <2>1, <2>2, <2>3
<1>4. Allocations(q)' = Allocations(q)
  BY <1>2, <1>3, AllocationsKept
<1> QED
  BY <1>4 DEF SameOwed, Allocations

\* Of the calls, only claim and resolve change what anyone is owed.
LEMMA CalledOwes ==
  ASSUME TypeOK, NEW q \in DOMAIN rains, Called(q)
  PROVE  \/ SameOwed(q)
         \/ \E a \in Accounts :
               /\ held' = [held EXCEPT ![q] = @ - AllocationOf(q, a)]
               /\ \A b \in Accounts : AllocationOf(q, b)' =
                     IF b = a THEN 0 ELSE AllocationOf(q, b)
         \/ /\ DrawOpen(q)
            /\ rains'[q].prize_locked = 0
            /\ \E a \in Holders(q) : \A b \in Accounts : AllocationOf(q, b)' =
                  IF b = a THEN AllocationOf(q, b) + rains[q].prize_locked
                           ELSE AllocationOf(q, b)
<1>1. CASE \E a \in Accounts, mbr \in MbrPayments : Enter(a, q, mbr)
  BY <1>1, EnterOwes DEF SameOwed
<1>2. CASE \E a \in Accounts : Gm(a, q)
  BY <1>2, GmOwes DEF SameOwed
<1>3. CASE \E a \in Accounts : Claim(a, q)
  BY <1>3, ClaimPays
<1>4. CASE Resolve(q)
  BY <1>4, ResolveOwes DEF Resolve
<1> QED
  BY <1>1, <1>2, <1>3, <1>4, PotCallsOwe DEF Called

\* Every step, on every rain there is.
LEMMA StepOwes ==
  ASSUME SeatsInv, [Next]_vars, NEW q \in DOMAIN rains, q \in DOMAIN rains',
         NEW a \in Accounts, AllocationOf(q, a)' # AllocationOf(q, a)
  PROVE  \/ Fired(q) /\ (ShareFell(q, a) \/ ShareLost(q, a))
         \/ Called(q)
<1>1. TypeOK /\ InStep(q) /\ rains[q].mode \in {SPLIT, ONE, WAVE}
  BY RainFacts DEF SeatsInv, TicketsInStep
<1>2. ~Fresh(q)
  BY DEF Fresh
<1>3. ~Untouched(q)
  BY AllocationsKept DEF Untouched, Allocations
<1>4. CASE Fired(q)
  BY <1>1, <1>4, SplitOwes, WaveOwes, OneOwes DEF SameOwed
<1> QED
  BY <1>1, <1>2, <1>3, <1>4, StepShape

\* No rain box is deleted.
LEMMA RainsStay ==
  ASSUME TypeOK, TypeOK', [Next]_vars
  PROVE  DOMAIN rains \subseteq DOMAIN rains'
<1>1. next_rain_id' \in {next_rain_id, next_rain_id + 1}
  BY NextIdMoves
<1> QED
  BY <1>1 DEF TypeOK

\* A pending ticket can claim what it has settled and the share it has not.
LEMMA PendingOwed ==
  ASSUME TypeOK, NEW q \in DOMAIN rains, NEW a \in Pending(q)
  PROVE  /\ AllocationOf(q, a) \in Nat
         /\ tickets[<<q, a>>].credit \in Nat
         /\ tickets[<<q, a>>].credit <= AllocationOf(q, a)
         /\ AllocationOf(q, a) = tickets[<<q, a>>].credit + rains[q].last_share
<1>1. /\ a \in Holders(q) /\ Unsettled(rains[q], tickets[<<q, a>>])
      /\ rains[q].mode = WAVE
  BY DEF Pending, Unsettled
<1>2. /\ <<q, a>> \in DOMAIN tickets /\ rains[q].last_share \in Nat
      /\ tickets[<<q, a>>].credit \in Nat
  BY <1>1, TicketFacts, RainFacts
<1>3. AllocationOf(q, a) = tickets[<<q, a>>].credit + rains[q].last_share
  BY <1>1, <1>2 DEF AllocationOf, Allocation, Unsettled
<1> QED
  BY <1>2, <1>3

\* Whatever raises what an account can claim is a drop it held a ticket for
\* before the drop: a SPLIT or WAVE drop, by one share and, for WAVE, for the
\* seated only, or the winning of a locked prize
\* (smart_contracts/rain/contract.py:530-602, 391-431).
THEOREM CreditByDropOnly == Spec => CreditOnlyByDrop
<1> DEFINE Won(r, a) ==
             /\ rains[r].mode = ONE
             /\ rains[r].prize_locked > 0
             /\ rains'[r].prize_locked = 0
             /\ AllocationOf(r, a)' = AllocationOf(r, a) + rains[r].prize_locked
             /\ \A b \in Accounts \ {a} :
                   AllocationOf(r, b)' = AllocationOf(r, b)
           Earned(r, a) ==
             /\ a \in Holders(r)
             /\ \/ /\ rains[r].mode # ONE
                   /\ rains'[r].draw_id = rains[r].draw_id + 1
                   /\ AllocationOf(r, a)' = AllocationOf(r, a) + Share(rains[r])
                   /\ rains[r].mode = WAVE => a \in Seated(r)
                \/ Won(r, a)
<1>1. ASSUME SeatsInv, SeatsInv', [Next]_vars, NEW r \in DOMAIN rains,
             NEW a \in Accounts, AllocationOf(r, a)' > AllocationOf(r, a)
      PROVE  Earned(r, a)
  <2>1. TypeOK /\ InStep(r) /\ r \in DOMAIN rains'
    BY <1>1, RainsStay DEF SeatsInv, TicketsInStep
  <2>2. AllocationOf(r, a) \in Nat
    BY <2>1, AllocationsType DEF Allocations
  <2>3. ~ShareLost(r, a)
    BY <1>1, <2>1, <2>2, PendingOwed DEF ShareLost
  <2>4. CASE Called(r)
    <3>1. ~SameOwed(r)
      BY <1>1, <2>2 DEF SameOwed
    <3>2. ASSUME NEW k \in Accounts, \A b \in Accounts : AllocationOf(r, b)' =
                    IF b = k THEN 0 ELSE AllocationOf(r, b)
          PROVE  FALSE
      BY <1>1, <2>2, <3>2
    <3>3. ASSUME NEW k \in Holders(r), DrawOpen(r), rains'[r].prize_locked = 0,
                 \A b \in Accounts : AllocationOf(r, b)' =
                    IF b = k THEN AllocationOf(r, b) + rains[r].prize_locked
                             ELSE AllocationOf(r, b)
          PROVE  Earned(r, a)
      BY <1>1, <2>2, <3>3 DEF DrawOpen
    <3> HIDE DEF Earned
    <3> QED
      BY <2>1, <2>4, <3>1, <3>2, <3>3, CalledOwes
  <2>5. CASE ShareFell(r, a)
    BY <2>5 DEF ShareFell
  <2> HIDE DEF Earned
  <2> QED
    BY <1>1, <2>1, <2>2, <2>3, <2>4, <2>5, StepOwes
<1> HIDE DEF Earned
<1>2. SeatsInv /\ SeatsInv' /\ [Next]_vars =>
        [\A r \in DOMAIN rains, a \in Accounts :
           AllocationOf(r, a)' > AllocationOf(r, a) => Earned(r, a)]_vars
  BY <1>1
<1> QED
  BY <1>2, TypeCorrect, SeatsAlwaysMatch, PTL
     DEF Spec, CreditOnlyByDrop, Earned, SeatsInv

\* What an account can claim goes down when it is paid, in full, by its own
\* rain and nobody else's; or when a WAVE share it never settled goes back to
\* the pot of a rain that was due, and then what it had settled stays
\* (smart_contracts/rain/contract.py:331-389, 542-583).
THEOREM CreditLostWhenDue == Spec => CreditOnlyLostWhenDue
<1> DEFINE PaidOut(r, a) ==
             /\ AllocationOf(r, a)' = 0
             /\ held' = [held EXCEPT ![r] = @ - AllocationOf(r, a)]
             /\ \A b \in Accounts \ {a} :
                   AllocationOf(r, b)' = AllocationOf(r, b)
           TakenBack(r, a) ==
             /\ a \in Pending(r)
             /\ Due(rains[r])
             /\ AllocationOf(r, a)' = tickets[<<r, a>>].credit
             /\ held' = held
<1>1. ASSUME SeatsInv, SeatsInv', [Next]_vars, NEW r \in DOMAIN rains,
             NEW a \in Accounts, AllocationOf(r, a)' < AllocationOf(r, a)
      PROVE  PaidOut(r, a) \/ TakenBack(r, a)
  <2>1. /\ TypeOK /\ InStep(r) /\ r \in DOMAIN rains' /\ rains[r] \in RainRec
    BY <1>1, RainsStay, RainFacts DEF SeatsInv, TicketsInStep
  <2>2. AllocationOf(r, a) \in Nat /\ Share(rains[r]) \in Nat
    BY <2>1, AllocationsType, AmountsType DEF Allocations
  <2>4. CASE Called(r)
    <3>1. ~SameOwed(r)
      BY <1>1, <2>2 DEF SameOwed
    <3>2. ASSUME NEW k \in Accounts,
                 held' = [held EXCEPT ![r] = @ - AllocationOf(r, k)],
                 \A b \in Accounts : AllocationOf(r, b)' =
                    IF b = k THEN 0 ELSE AllocationOf(r, b)
          PROVE  PaidOut(r, a)
      <4>1. k = a
        BY <1>1, <2>2, <3>2
      <4> QED
        BY <3>2, <4>1
    <3>3. ASSUME NEW k \in Holders(r), DrawOpen(r),
                 \A b \in Accounts : AllocationOf(r, b)' =
                    IF b = k THEN AllocationOf(r, b) + rains[r].prize_locked
                             ELSE AllocationOf(r, b)
          PROVE  FALSE
      BY <1>1, <2>1, <2>2, <3>3, RainFacts
    <3> HIDE DEF PaidOut
    <3> QED
      BY <2>1, <2>4, <3>1, <3>2, <3>3, CalledOwes
  <2>5. CASE Fired(r) /\ ShareLost(r, a)
    BY <2>5 DEF Fired, ShareLost
  <2>6. CASE ShareFell(r, a)
    BY <1>1, <2>2, <2>6 DEF ShareFell
  <2> HIDE DEF PaidOut, TakenBack
  <2> QED
    BY <1>1, <2>1, <2>2, <2>4, <2>5, <2>6, StepOwes
<1> DEFINE Lost(r, a) == \/ PaidOut(r, a)
                         \/ TakenBack(r, a)
<1> HIDE DEF Lost
<1>2. SeatsInv /\ SeatsInv' /\ [Next]_vars =>
        [\A r \in DOMAIN rains, a \in Accounts :
           AllocationOf(r, a)' < AllocationOf(r, a) =>
              Lost(r, a)]_vars
  BY <1>1 DEF Lost
<1> QED
  BY <1>2, TypeCorrect, SeatsAlwaysMatch, PTL
     DEF Spec, CreditOnlyLostWhenDue, Lost, SeatsInv

-----------------------------------------------------------------------------
(* The hub as tills *)

\* A rain keeps its mode for good.
LEMMA ModeKept ==
  ASSUME TypeOK, NEW q \in DOMAIN rains, Untouched(q) \/ Fired(q) \/ Called(q)
  PROVE  rains'[q].mode = rains[q].mode
<1> DEFINE rec == rains[q]
<1>1. rec \in RainRec
  BY RainFacts
<1>2. CASE Fired(q)
  <2>1. /\ FireSplit(rec).mode = rec.mode /\ FireWave(rec).mode = rec.mode
        /\ FireOne(rec).mode = rec.mode
    BY <1>1 DEF FireSplit, FireWave, WaveFalls, FireOne, PrizeLocked, RainRec
  <2> QED
    BY <1>2, <2>1 DEF Fired, TryFire
<1>3. CASE \E a \in Accounts, mbr \in MbrPayments : Enter(a, q, mbr)
  <2>1. rains'[q] = [rec EXCEPT !.tickets = @ + 1,
            !.wave_count = IF SeatFree(rec) THEN @ + 1 ELSE @]
    BY <1>3 DEF Enter
  <2> QED
    BY <1>1, <2>1 DEF RainRec
<1>4. CASE \E a \in Accounts : Gm(a, q) \/ Claim(a, q)
  <2>1. PICK a \in Accounts : Gm(a, q) \/ Claim(a, q)
    BY <1>4
  <2> DEFINE sr == SettledRec(rec, tickets[<<q, a>>])
  <2>2. sr \in RainRec /\ sr.mode = rec.mode
    BY <1>1 DEF SettledRec, RainRec
  <2> HIDE DEF sr
  <2>3. rains'[q] = sr \/ rains'[q] = [sr EXCEPT !.wave_count = @ + 1]
    BY <2>1 DEF Gm, Claim, sr
  <2> QED
    BY <2>2, <2>3 DEF RainRec
<1>5. CASE Resolve(q)
  <2>1. rains'[q] = [rec EXCEPT !.prize_locked = 0, !.commit_round = 0]
    BY <1>5 DEF Resolve
  <2> QED
    BY <1>1, <2>1 DEF RainRec
<1>6. CASE Untouched(q)
  BY <1>6 DEF Untouched
<1> QED
  BY <1>1, <1>2, <1>3, <1>4, <1>5, <1>6, RecordMoves DEF Called

\* Tills brings its own copy of Sums.
LEMMA SameTotal == ASSUME NEW f PROVE Promise!Total(f) = Total(f)
BY DEF Promise!Total, Promise!Units, Promise!Cardinality, Total, Units,
       Cardinality

\* What is due to an account never passes what its rain holds.
Covered(q) ==
    /\ Allocations(q) \in [Accounts -> Nat]
    /\ held[q] \in Nat /\ Total(Allocations(q)) \in Nat
    /\ rains[q].prize_locked \in Nat
    /\ Total(Allocations(q)) + rains[q].prize_locked <= held[q]
    /\ \A a \in Accounts :
          AllocationOf(q, a) \in Nat /\ AllocationOf(q, a) <= held[q]

AllCovered == \A q \in DOMAIN rains : Covered(q)

LEMMA DuesCovered == SeatsInv /\ Solvency => AllCovered
<1> SUFFICES ASSUME SeatsInv, Solvency, NEW q \in DOMAIN rains
             PROVE  Covered(q)
  BY DEF AllCovered
<1>1. /\ TypeOK /\ InStep(q) /\ Solvent(q)
  BY DEF SeatsInv, TicketsInStep, Solvency
<1>2. /\ rains[q].pot \in Nat /\ rains[q].prize_locked \in Nat
  BY <1>1, RainFacts
<1>3. /\ Allocations(q) \in [Accounts -> Nat]
      /\ Total(Allocations(q)) \in Nat
  BY <1>1, AllocationsType
<1>4. /\ held[q] \in Nat
      /\ Total(Allocations(q)) + rains[q].prize_locked <= held[q]
  BY <1>1, <1>2, <1>3 DEF Solvent
<1>5. ASSUME NEW a \in Accounts
      PROVE  AllocationOf(q, a) \in Nat /\ AllocationOf(q, a) <= held[q]
  <2>1. Allocations(q)[a] = AllocationOf(q, a)
    BY DEF Allocations
  <2>2. Allocations(q)[a] \in Nat /\ Allocations(q)[a] <= Total(Allocations(q))
    BY <1>3, TermBound
  <2> QED
    BY <1>2, <1>3, <1>4, <2>1, <2>2
<1> QED
  BY <1>2, <1>3, <1>4, <1>5 DEF Covered

\* A drop on one rain is a drop of the tills: one share for all it falls on,
\* the last share back from all who had not settled it, and no lottery pays.
LEMMA FireFalls ==
  ASSUME SeatsInv, AllCovered, AllCovered',
         NEW q \in DOMAIN rains, q \in DOMAIN rains',
         held'[q] = held[q], Untouched(q) \/ Fired(q)
  PROVE  Promise!Fallen(q, Allocations(q)')
<1> DEFINE rec == rains[q]
           new == Allocations(q)'
           share == IF \E a \in Accounts : ShareFell(q, a)
                    THEN Share(rec) ELSE 0
           last  == IF \E a \in Accounts : ShareLost(q, a)
                    THEN rec.last_share ELSE 0
<1>1. TypeOK /\ InStep(q) /\ rec \in RainRec /\ rec.mode \in {SPLIT, ONE, WAVE}
  BY RainFacts DEF SeatsInv, TicketsInStep
<1>2. Share(rec) \in Nat /\ rec.last_share \in Nat
  BY <1>1, AmountsType, RainFacts
<1>3. /\ held[q] \in Nat
      /\ \A a \in Accounts :
            AllocationOf(q, a) \in Nat /\ AllocationOf(q, a) <= held[q]
  BY DEF AllCovered, Covered
<1>4. /\ new \in [Accounts -> Nat] /\ Total(new) <= held[q]
      /\ \A a \in Accounts :
            AllocationOf(q, a)' \in Nat /\ AllocationOf(q, a)' <= held[q]
  BY DEF AllCovered, Covered
<1>5. ASSUME NEW a \in Accounts
      PROVE  \/ AllocationOf(q, a)' = AllocationOf(q, a)
             \/ ShareFell(q, a) \/ ShareLost(q, a)
  <2>1. CASE Untouched(q)
    BY <2>1, AllocationsKept DEF Untouched, Allocations
  <2> QED
    BY <1>1, <2>1, SplitOwes, WaveOwes, OneOwes DEF SameOwed
<1>6. ASSUME NEW a \in Accounts, ShareLost(q, a)
      PROVE  /\ AllocationOf(q, a)' = AllocationOf(q, a) - rec.last_share
             /\ rec.last_share <= held[q] /\ rec.mode = WAVE
  <2>1. /\ a \in Pending(q) /\ AllocationOf(q, a)' = tickets[<<q, a>>].credit
    BY <1>6 DEF ShareLost
  <2>2. rec.mode = WAVE
    BY <2>1 DEF Pending, Unsettled
  <2>3. AllocationOf(q, a) = tickets[<<q, a>>].credit + rec.last_share
    BY <1>1, <2>1, PendingOwed
  <2> QED
    BY <1>2, <1>3, <1>4, <2>1, <2>2, <2>3
<1>7. ASSUME NEW a \in Accounts, ShareFell(q, a)
      PROVE  /\ AllocationOf(q, a)' = AllocationOf(q, a) + Share(rec)
             /\ Share(rec) <= held[q] /\ rec.mode # ONE
  BY <1>2, <1>3, <1>4, <1>7 DEF ShareFell
<1>8. share \in 0 .. held[q] /\ last \in 0 .. held[q]
  BY <1>2, <1>3, <1>6, <1>7
<1>9. rec.mode = ONE => new = Allocations(q)
  BY <1>5, <1>6, <1>7 DEF Allocations
<1>10. rec.mode = SPLIT => last = 0
  BY <1>6
<1>11. \A a \in Accounts :
          AllocationOf(q, a)' \in
             {AllocationOf(q, a), AllocationOf(q, a) + share,
              AllocationOf(q, a) - last}
  BY <1>5, <1>6, <1>7
<1>12. \A a \in Accounts : new[a] = AllocationOf(q, a)'
                           /\ Allocations(q)[a] = AllocationOf(q, a)
  BY DEF Allocations
<1> HIDE DEF rec, new, share, last
<1> QED
  BY <1>4, <1>8, <1>9, <1>10, <1>11, <1>12, SameTotal DEF Promise!Fallen, rec, new

\* The list of what is due, when one rain's part of it changes.
LEMMA OneRowMoves ==
  ASSUME DOMAIN rains' = DOMAIN rains, NEW r \in DOMAIN rains,
         \A q \in DOMAIN rains : q # r => Allocations(q)' = Allocations(q)
  PROVE  [q \in DOMAIN rains |-> Allocations(q)]' =
            [[q \in DOMAIN rains |-> Allocations(q)] EXCEPT ![r] = Allocations(r)']
OBVIOUS

\* A call is a deposit, a payment or an award of the tills, or nothing to it.
LEMMA CallOnTills ==
  ASSUME SeatsInv, AllCovered, NEW r \in RainIds, Called(r)
  PROVE  [Promise!Next]_(Promise!tillVars)
<1> DEFINE due  == [q \in DOMAIN rains |-> Allocations(q)]
           mode == [q \in DOMAIN rains |-> rains[q].mode]
<1>1. /\ TypeOK /\ r \in DOMAIN rains /\ DOMAIN rains' = DOMAIN rains
      /\ r \in DOMAIN held /\ DOMAIN held = DOMAIN rains
      /\ \A q \in DOMAIN rains : q # r => Untouched(q)
  BY CallTouchesOne DEF SeatsInv, TypeOK
<1>2. mode' = mode
  BY <1>1, ModeKept
<1>3. \A q \in DOMAIN rains : q # r => Allocations(q)' = Allocations(q)
  BY <1>1, AllocationsKept DEF Untouched
<1>4. due' = [due EXCEPT ![r] = Allocations(r)']
  BY <1>1, <1>3, OneRowMoves
<1>5. /\ due[r] = Allocations(r) /\ mode[r] = rains[r].mode
      /\ DOMAIN Allocations(r) = Accounts
      /\ \A a \in Accounts : Allocations(r)[a] = AllocationOf(r, a)
  BY <1>1 DEF Allocations
<1>6. CASE SameOwed(r) /\ held' = held
  <2>1. Allocations(r)' = Allocations(r)
    BY <1>6 DEF SameOwed, Allocations
  <2>2. due' = due
    BY <1>4, <1>5, <2>1
  <2> QED
    BY <1>2, <1>6, <2>2 DEF Promise!tillVars
<1>7. ASSUME NEW amount \in Amounts, Deposit(r, amount)
      PROVE  Promise!Deposit(r, amount)
  <2>1. SameOwed(r)
    BY <1>1, <1>7, PotCallsOwe
  <2>2. Allocations(r)' = Allocations(r)
    BY <2>1 DEF SameOwed, Allocations
  <2>3. due' = due
    BY <1>4, <1>5, <2>2
  <2>4. held' = [held EXCEPT ![r] = @ + amount]
    BY <1>7 DEF Deposit
  <2> QED
    BY <1>2, <2>3, <2>4 DEF Promise!Deposit
<1>8. ASSUME NEW a \in Accounts, Claim(a, r)
      PROVE  Promise!Pay(r, a)
  <2>1. /\ held' = [held EXCEPT ![r] = @ - AllocationOf(r, a)]
        /\ \A b \in Accounts : AllocationOf(r, b)' =
              IF b = a THEN 0 ELSE AllocationOf(r, b)
    BY <1>1, <1>8, ClaimPays
  <2>2. Allocations(r)' = [Allocations(r) EXCEPT ![a] = 0]
    BY <1>5, <2>1 DEF Allocations
  <2>3. held' = [held EXCEPT ![r] = @ - due[r][a]]
    BY <1>5, <2>1
  <2>4. due' = [due EXCEPT ![r][a] = 0]
    BY <1>1, <1>4, <1>5, <2>2
  <2> QED
    BY <1>2, <2>3, <2>4 DEF Promise!Pay
<1>9. ASSUME Resolve(r)
      PROVE  \E a \in Accounts : \E prize \in 1 .. Promise!Free(r) :
                Promise!Award(r, a, prize)
  <2> DEFINE prize == rains[r].prize_locked
  <2>1. PICK a \in Accounts : \A b \in Accounts : AllocationOf(r, b)' =
           IF b = a THEN AllocationOf(r, b) + prize ELSE AllocationOf(r, b)
    BY <1>1, <1>9, ResolveOwes DEF Holders
  <2>2. Allocations(r)' = [Allocations(r) EXCEPT ![a] = @ + prize]
    BY <1>5, <2>1 DEF Allocations
  <2>3. due' = [due EXCEPT ![r][a] = @ + prize]
    BY <1>1, <1>4, <1>5, <2>2
  <2>4. held' = held /\ prize > 0 /\ rains[r].mode = ONE
    BY <1>9 DEF Resolve, DrawOpen
  <2>5. /\ prize \in Nat /\ held[r] \in Nat /\ Total(due[r]) \in Nat
        /\ Total(due[r]) + prize <= held[r]
    BY <1>1, <1>5 DEF AllCovered, Covered
  <2>6. Promise!Free(r) = held[r] - Total(due[r])
    BY SameTotal DEF Promise!Free
  <2>7. prize \in 1 .. Promise!Free(r)
    <3> HIDE DEF due, prize
    <3> QED
      BY <2>4, <2>5, <2>6
  <2>8. Promise!Award(r, a, prize)
    BY <1>2, <1>5, <2>3, <2>4, <2>7 DEF Promise!Award
  <2> QED
    BY <2>7, <2>8
<1>10. CASE \/ \E a \in Accounts : Gm(a, r)
            \/ \E a \in Accounts, mbr \in MbrPayments : Enter(a, r, mbr)
            \/ \E a \in Accounts, drip \in Drips, interval \in Intervals :
                  SetRain(a, r, drip, interval)
            \/ Abandon(r)
  <2>1. SameOwed(r)
    BY <1>1, <1>10, GmOwes, EnterOwes, PotCallsOwe DEF SameOwed
  <2>2. held' = held
    BY <1>10 DEF Gm, Enter, SetRain, Abandon
  <2> QED
    BY <1>6, <2>1, <2>2
<1> HIDE DEF due, mode
<1> QED
  BY <1>1, <1>7, <1>8, <1>9, <1>10 DEF Called, Promise!Next

\* A draw is a fall of the tills, whatever rains it visits.
LEMMA DrawOnTills ==
  ASSUME SeatsInv, AllCovered, AllCovered', Draw
  PROVE  Promise!Fall
<1> DEFINE due  == [q \in DOMAIN rains |-> Allocations(q)]
           mode == [q \in DOMAIN rains |-> rains[q].mode]
<1>1. /\ TypeOK /\ DOMAIN rains' = DOMAIN rains /\ held' = held
      /\ \A q \in DOMAIN rains : Untouched(q) \/ Fired(q)
  BY DrawShape DEF Draw, Drawn, SeatsInv
<1>2. mode' = mode
  BY <1>1, ModeKept
<1>3. \A q \in DOMAIN rains : Promise!Fallen(q, Allocations(q)')
  BY <1>1, FireFalls
<1>4. /\ due' = [q \in DOMAIN due |-> due'[q]] /\ DOMAIN due = DOMAIN rains
      /\ \A q \in DOMAIN rains : due'[q] = Allocations(q)'
  BY <1>1
<1> QED
  BY <1>1, <1>2, <1>3, <1>4 DEF Promise!Fall

\* A new rain is a new till with nothing in it and nothing due.
LEMMA CreateOnTills ==
  ASSUME TypeOK, NEW a \in Accounts, NEW gate \in Gates \cup {NoGate},
         NEW prize \in Assets \cup {Algo}, NEW drip \in Drips,
         NEW interval \in Intervals, NEW m \in Modes,
         NEW cap \in WaveCaps, NEW mbr \in MbrPayments,
         CreateRain(a, gate, prize, drip, interval, m, cap, mbr)
  PROVE  \E r \in RainIds : Promise!Open(r, m)
<1>0. PICK r : r = next_rain_id + 1
  OBVIOUS
<1>1. /\ next_rain_id \in Nat /\ DOMAIN rains = 1 .. next_rain_id
      /\ DOMAIN held = 1 .. next_rain_id
      /\ DOMAIN tickets \subseteq (1 .. next_rain_id) \X Accounts
  BY DEF TypeOK
<1>2. r \in RainIds /\ r \notin DOMAIN rains
  BY <1>0, <1>1, InputAssumption DEF CreateRain, RainIds
<1>3. /\ tickets' = tickets /\ DOMAIN rains' = DOMAIN rains \cup {r}
      /\ rains'[r].mode = m
      /\ \A q \in DOMAIN rains : rains'[q] = rains[q]
      /\ held' = [q \in DOMAIN held \cup {r} |-> IF q = r THEN 0 ELSE held[q]]
  BY <1>0, <1>1, <1>2 DEF CreateRain, Put
<1>4. \A b \in Accounts : <<r, b>> \notin DOMAIN tickets
  BY <1>1, <1>2
<1>5. Allocations(r)' = [b \in Accounts |-> 0]
  <2>1. \A b \in Accounts : AllocationOf(r, b)' = 0
    BY <1>3, <1>4 DEF AllocationOf
  <2> QED
    BY <2>1 DEF Allocations
<1>6. \A q \in DOMAIN rains : Allocations(q)' = Allocations(q)
  BY <1>3, AllocationsKept DEF TicketsSame
<1>7. [q \in DOMAIN rains |-> Allocations(q)]' =
         [q \in DOMAIN rains \cup {r} |->
            IF q = r THEN [b \in Accounts |-> 0] ELSE Allocations(q)]
  <2>1. [q \in DOMAIN rains |-> Allocations(q)]' =
           [q \in DOMAIN rains' |-> Allocations(q)']
    OBVIOUS
  <2>2. \A q \in DOMAIN rains \cup {r} : Allocations(q)' =
           IF q = r THEN [b \in Accounts |-> 0] ELSE Allocations(q)
    BY <1>5, <1>6
  <2> QED
    BY <1>3, <2>1, <2>2
<1>8. [q \in DOMAIN rains |-> rains[q].mode]' =
         [q \in DOMAIN rains \cup {r} |-> IF q = r THEN m ELSE rains[q].mode]
  BY <1>3
<1>9. Promise!Open(r, m)
  BY <1>1, <1>2, <1>3, <1>7, <1>8 DEF Promise!Open, Promise!Opened
<1> QED
  BY <1>2, <1>9

LEMMA HubOnTills ==
  ASSUME SeatsInv, AllCovered, AllCovered', [Next]_vars
  PROVE  [Promise!Next]_(Promise!tillVars)
<1>1. CASE UNCHANGED <<rains, tickets, held>>
  <2>1. \A q \in DOMAIN rains : Allocations(q)' = Allocations(q)
    BY <1>1 DEF Allocations, AllocationOf
  <2> QED
    BY <1>1, <2>1 DEF Promise!tillVars
<1>2. CASE Draw
  BY <1>2, DrawOnTills DEF Promise!Next
<1>3. ASSUME NEW a \in Accounts, NEW gate \in Gates \cup {NoGate},
             NEW prize \in Assets \cup {Algo}, NEW drip \in Drips,
             NEW interval \in Intervals, NEW m \in Modes,
             NEW cap \in WaveCaps, NEW mbr \in MbrPayments,
             CreateRain(a, gate, prize, drip, interval, m, cap, mbr)
      PROVE  Promise!Next
  <2>1. m \in {SPLIT, ONE, WAVE}
    BY InputAssumption
  <2> QED
    BY <1>3, <2>1, CreateOnTills DEF Promise!Next, SeatsInv
<1>4. CASE \E r \in RainIds : Called(r)
  BY <1>4, CallOnTills
<1>5. CASE \/ Tick \/ UNCHANGED vars
           \/ \E a \in Accounts, x \in Assets, h \in Holdings : Trade(a, x, h)
           \/ \E a \in Accounts \cup {HubCreator}, mbr \in MbrPayments :
                Bootstrap(a, mbr)
           \/ \E x \in Assets, mbr \in MbrPayments : OptInPrizeAsset(x, mbr)
  BY <1>1, <1>5 DEF Tick, Trade, Bootstrap, OptInPrizeAsset, boxes, vars
<1> QED
  BY <1>2, <1>3, <1>4, <1>5 DEF Next, Called

\* The hub implements Tills: every call is, to depositors and holders, a till
\* filled by a deposit, a drop out of what the till has over, or the payment
\* of all that is due to one account by its own rain, and nothing else
\* (smart_contracts/rain/contract.py:159-631).
THEOREM HubKeepsTills == Spec => KeepsTills
<1>1. Init => Promise!Init
  BY DEF Init, Promise!Init
<1>2. SeatsInv /\ AllCovered /\ AllCovered' /\ [Next]_vars
        => [Promise!Next]_(Promise!tillVars)
  BY HubOnTills
<1>3. TypeOK /\ TicketsInStep /\ SeatsMatch => SeatsInv
  BY DEF SeatsInv
<1> QED
  BY <1>1, <1>2, <1>3, DuesCovered, TypeCorrect, SeatsAlwaysMatch,
     AlwaysSolvent, PTL
  DEF Spec, KeepsTills, Promise!Spec

-----------------------------------------------------------------------------
(* The scan of draw *)

\* A set of naturals has a least member.
LEMMA LeastNat ==
  ASSUME NEW T \in SUBSET Nat, T # {}
  PROVE  \E n \in T : \A m \in T : n <= m
<1> DEFINE Less == OpToRel(<, Nat)
<1>1. \A m, n \in Nat : m < n => <<m, n>> \in Less
  <2> SUFFICES ASSUME NEW m \in Nat, NEW n \in Nat, m < n
               PROVE  <<m, n>> \in Less
    OBVIOUS
  <2>1. <<m, n>> \in Nat \X Nat /\ <<m, n>>[1] = m /\ <<m, n>>[2] = n
    OBVIOUS
  <2> QED
    BY <2>1, Zenon DEF OpToRel
<1>2. IsWellFoundedOn(Less, Nat)
  BY NatLessThanWellFounded
<1> HIDE DEF Less
<1>3. PICK n \in T : \A m \in T : <<m, n>> \notin Less
  BY <1>2, WFMin
<1>4. ASSUME NEW m \in T  PROVE n <= m
  <2>1. m \in Nat /\ n \in Nat /\ ~(m < n)
    BY <1>1, <1>3
  <2> QED
    BY <2>1
<1> QED
  BY <1>4

\* The rain that step n of the loop visits, and the rains seen in n steps.
RainAt(n)    == ((cursor + n) % next_rain_id) + 1
SeenIn(n)    == {RainAt(i) : i \in 0 .. n - 1}
FiredIn(n)   == [r \in DOMAIN rains |->
                   IF r \in SeenIn(n) THEN TryFire(rains[r]) ELSE rains[r]]

\* One more step of the loop, on what n steps left.
LEMMA ScanOneMore ==
  ASSUME TypeOK, next_rain_id > 0, NEW n \in Nat
  PROVE  /\ RainAt(n) \in DOMAIN rains
         /\ FiredIn(n + 1) = [FiredIn(n) EXCEPT ![RainAt(n)] = TryFire(@)]
         /\ FiredIn(0) = rains
<1>1. /\ cursor \in Nat /\ next_rain_id \in Nat \ {0}
      /\ rains \in [1 .. next_rain_id -> RainRec] /\ round \in Nat \ {0}
  BY DEF TypeOK
<1>2. RainAt(n) \in DOMAIN rains
  BY <1>1 DEF RainAt
<1>3. SeenIn(n + 1) = SeenIn(n) \cup {RainAt(n)}
  <2>1. 0 .. n + 1 - 1 = (0 .. n - 1) \cup {n}
    OBVIOUS
  <2> QED
    BY <2>1 DEF SeenIn
<1>4. ASSUME NEW r \in DOMAIN rains, r \in SeenIn(n), r = RainAt(n)
      PROVE  TryFire(FiredIn(n)[r]) = TryFire(rains[r])
  BY <1>1, <1>4, FireIdempotent DEF FiredIn
<1>5. ASSUME NEW r \in DOMAIN rains
      PROVE  FiredIn(n + 1)[r] =
               [FiredIn(n) EXCEPT ![RainAt(n)] = TryFire(@)][r]
  BY <1>2, <1>3, <1>4, <1>5 DEF FiredIn
<1>6. FiredIn(n + 1) = [FiredIn(n) EXCEPT ![RainAt(n)] = TryFire(@)]
  BY <1>5 DEF FiredIn
<1>7. FiredIn(0) = rains
  <2>1. SeenIn(0) = {}
    BY DEF SeenIn
  <2> QED
    BY <1>1, <2>1 DEF FiredIn
<1> QED
  BY <1>2, <1>6, <1>7

\* The loop is defined by its own equation.
LEMMA LoopEquation ==
  ASSUME TypeOK, next_rain_id > 0
  PROVE  DrawLoop = [step \in 0 .. DrawScan |->
                       IF step = 0 THEN rains
                       ELSE [DrawLoop[step - 1] EXCEPT
                               ![RainAt(step - 1)] = TryFire(@)]]
<1> DEFINE Eq(f) == f = [step \in 0 .. DrawScan |->
                       IF step = 0 THEN rains
                       ELSE [f[step - 1] EXCEPT
                               ![RainAt(step - 1)] = TryFire(@)]]
           g == [step \in 0 .. DrawScan |-> FiredIn(step)]
<1>1. DrawScan \in Nat /\ cursor \in Nat
  BY ScanAssumption DEF TypeOK
<1>2. ASSUME NEW step \in 0 .. DrawScan
      PROVE  g[step] = IF step = 0 THEN rains
                       ELSE [g[step - 1] EXCEPT
                               ![RainAt(step - 1)] = TryFire(@)]
  <2>1. CASE step = 0
    BY <2>1, ScanOneMore
  <2>2. CASE step # 0
    <3>1. step - 1 \in Nat /\ step - 1 \in 0 .. DrawScan /\ step - 1 + 1 = step
      BY <1>1, <2>2
    <3>2. FiredIn(step - 1 + 1) =
            [FiredIn(step - 1) EXCEPT ![RainAt(step - 1)] = TryFire(@)]
      BY <3>1, ScanOneMore
    <3> QED
      BY <2>2, <3>1, <3>2
  <2> QED
    BY <2>1, <2>2
<1>3. Eq(g)
  BY <1>2
<1>4. DrawLoop = CHOOSE f : Eq(f)
  <2>1. \A step \in 0 .. DrawScan :
          step # 0 => cursor + step - 1 = cursor + (step - 1)
    BY <1>1
  <2> QED
    BY <2>1 DEF DrawLoop, RainAt
<1> HIDE DEF Eq, g
<1>5. Eq(DrawLoop)
  BY <1>3, <1>4
<1> QED
  BY <1>5 DEF Eq

\* After n steps the loop has fired the rains it has seen, each once.
LEMMA LoopIsScan ==
  ASSUME TypeOK, next_rain_id > 0, NEW n \in 0 .. DrawScan
  PROVE  DrawLoop[n] = FiredIn(n)
<1> DEFINE Wrong == {m \in 0 .. DrawScan : DrawLoop[m] # FiredIn(m)}
<1>1. DrawScan \in Nat
  BY ScanAssumption
<1>2. ASSUME Wrong # {}  PROVE FALSE
  <2>1. PICK m \in Wrong : \A k \in Wrong : m <= k
    <3>1. Wrong \in SUBSET Nat
      BY <1>1
    <3> HIDE DEF Wrong
    <3> QED
      BY <1>2, <3>1, LeastNat
  <2>2. DrawLoop[m] = IF m = 0 THEN rains
                      ELSE [DrawLoop[m - 1] EXCEPT
                              ![RainAt(m - 1)] = TryFire(@)]
    BY <2>1, LoopEquation
  <2>3. m # 0
    BY <2>1, <2>2, ScanOneMore
  <2>4. m - 1 \in 0 .. DrawScan /\ m - 1 + 1 = m /\ m - 1 \in Nat
    BY <1>1, <2>1, <2>3
  <2>5. m - 1 \notin Wrong
    BY <1>1, <2>1, <2>4
  <2>6. DrawLoop[m - 1] = FiredIn(m - 1)
    BY <2>4, <2>5
  <2>7. FiredIn(m - 1 + 1) =
          [FiredIn(m - 1) EXCEPT ![RainAt(m - 1)] = TryFire(@)]
    BY <2>4, ScanOneMore
  <2> QED
    BY <2>1, <2>2, <2>3, <2>4, <2>6, <2>7
<1> QED
  BY <1>2

\* draw's loop, run over its DRAW_SCAN visits, fires each rain it comes to once
\* and no other, however often it comes round: a hub of fewer rains than that
\* pays no drop twice (smart_contracts/rain/contract.py:382-386).
THEOREM SecondVisitAlwaysVain == Spec => []SecondVisitIsVain
<1>1. TypeOK => SecondVisitIsVain
  <2> SUFFICES ASSUME TypeOK, next_rain_id > 0
               PROVE  DrawLoop[DrawScan] = Drawn
    BY DEF SecondVisitIsVain
  <2>1. DrawScan \in 0 .. DrawScan
    BY ScanAssumption
  <2>2. DrawLoop[DrawScan] = FiredIn(DrawScan)
    BY <2>1, LoopIsScan
  <2> QED
    BY <2>2 DEF Drawn, FiredIn, SeenIn, RainAt, Visited
<1> QED
  BY <1>1, TypeCorrect, PTL
=============================================================================
