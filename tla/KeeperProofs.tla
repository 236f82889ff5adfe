---------------------------- MODULE KeeperProofs ----------------------------
(* What holds of the registry, of a keeper's pass over it and of the deploy  *)
(* script for every number of upkeeps, users, hubs and rounds, and for any   *)
(* terms of an upkeep.                                                       *)
EXTENDS HubSetup, SumsProofs

USE DEF SKIP_AHEAD

UpkeepRec == Upkeep(Creators, Targets)

-----------------------------------------------------------------------------
(* Fees *)

\* A share of a difference, rounded down.
LEMMA Quotient ==
  ASSUME NEW m \in Nat, NEW n \in Nat, NEW d \in Nat \ {0}
  PROVE  (m * n) \div d \in Nat
<1>1. m * n \in Nat
  OBVIOUS
<1> QED
  BY <1>1

\* The two computations agree, the fee is at least the base fee, and an escrow
\* that covers the base fee covers it.
LEMMA Fee ==
  ASSUME NEW u \in UpkeepRec, NEW now \in Nat, now >= u.last_serviced_round
  PROVE  /\ Charged(u, now) \in Nat
         /\ EffectiveFee(u, now) = Charged(u, now)
         /\ Charged(u, now) >= u.fee_per_execution
         /\ u.balance >= u.fee_per_execution => u.balance >= Charged(u, now)
<1> DEFINE late  == now - u.last_serviced_round
           extra == IF late > u.interval_rounds
                    THEN IF late - u.interval_rounds > u.interval_rounds
                         THEN u.interval_rounds
                         ELSE late - u.interval_rounds
                    ELSE 0
           fee   == u.fee_per_execution
                       + ((u.fee_cap - u.fee_per_execution) * extra)
                            \div u.interval_rounds
<1>1. /\ u.last_serviced_round \in Nat /\ u.interval_rounds \in Nat \ {0}
      /\ u.fee_per_execution \in Nat \ {0} /\ u.fee_cap \in Nat
      /\ u.balance \in Nat /\ u.next_execution_round \in Nat
  BY DEF UpkeepRec, Upkeep
<1>2. late \in Nat /\ extra \in Nat
  BY <1>1
<1>3. /\ Greater(u.interval_rounds, 1) = u.interval_rounds
      /\ Greater(late, 0) = late
      /\ Lesser(Greater(late - u.interval_rounds, 0), u.interval_rounds) = extra
  BY <1>1, <1>2 DEF Greater, Lesser
<1> HIDE DEF extra
<1>4. u.fee_cap > u.fee_per_execution => fee \in Nat /\ fee >= u.fee_per_execution
  <2> SUFFICES ASSUME u.fee_cap > u.fee_per_execution
               PROVE  fee \in Nat /\ fee >= u.fee_per_execution
    OBVIOUS
  <2>1. u.fee_cap - u.fee_per_execution \in Nat
    BY <1>1
  <2>2. ((u.fee_cap - u.fee_per_execution) * extra) \div u.interval_rounds \in Nat
    BY <1>1, <1>2, <2>1, Quotient
  <2> QED
    BY <1>1, <2>2
<1>5. Charged(u, now) = IF /\ u.fee_cap > u.fee_per_execution
                           /\ u.next_execution_round > u.last_serviced_round
                           /\ u.balance >= fee
                        THEN fee ELSE u.fee_per_execution
  BY DEF Charged, extra
<1>6. EffectiveFee(u, now)
        = CASE \/ u.fee_cap <= u.fee_per_execution
               \/ u.next_execution_round <= u.last_serviced_round
                                     -> u.fee_per_execution
            [] u.balance < fee       -> u.fee_per_execution
            [] OTHER                 -> fee
  BY <1>3 DEF EffectiveFee
<1> HIDE DEF fee
<1>7. CASE /\ u.fee_cap > u.fee_per_execution
           /\ u.next_execution_round > u.last_serviced_round
           /\ u.balance >= fee
  <2>1. Charged(u, now) = fee
    BY <1>5, <1>7
  <2>2. EffectiveFee(u, now) = fee
    BY <1>1, <1>4, <1>6, <1>7
  <2> QED
    BY <1>4, <1>7, <2>1, <2>2
<1>8. CASE ~(/\ u.fee_cap > u.fee_per_execution
             /\ u.next_execution_round > u.last_serviced_round
             /\ u.balance >= fee)
  <2>1. Charged(u, now) = u.fee_per_execution
    BY <1>5, <1>8
  <2>2. \/ u.fee_cap <= u.fee_per_execution
        \/ u.next_execution_round <= u.last_serviced_round
        \/ u.fee_cap > u.fee_per_execution /\ u.balance < fee
    BY <1>1, <1>4, <1>8
  <2>3. EffectiveFee(u, now) = u.fee_per_execution
    BY <1>6, <2>2
  <2> QED
    BY <1>1, <2>1, <2>3
<1> QED
  BY <1>7, <1>8

\* The next slot is a later round.
LEMMA Slot ==
  ASSUME NEW u \in UpkeepRec, round \in Nat, round >= u.next_execution_round
  PROVE  NextSlot(u) \in Nat /\ NextSlot(u) > u.next_execution_round
<1> DEFINE k == IF u.policy = SKIP_AHEAD
                THEN (round - u.next_execution_round) \div u.interval_rounds + 1
                ELSE 1
<1>1. u.next_execution_round \in Nat /\ u.interval_rounds \in Nat \ {0}
  BY DEF UpkeepRec, Upkeep
<1>2. k \in Nat /\ k >= 1
  <2>1. round - u.next_execution_round \in Nat
    BY <1>1
  <2>2. (round - u.next_execution_round) \div u.interval_rounds \in Nat
    BY <1>1, <2>1
  <2> QED
    BY <2>2
<1>3. NextSlot(u) = u.next_execution_round + u.interval_rounds * k
  BY DEF NextSlot
<1> HIDE DEF k
<1>4. u.interval_rounds * k \in Nat /\ u.interval_rounds * k > 0
  BY <1>1, <1>2
<1> QED
  BY <1>1, <1>3, <1>4
-----------------------------------------------------------------------------
(* The registry *)

Balances == [i \in DOMAIN upkeeps |-> upkeeps[i].balance]

\* The boxes and the account behind them.
Boxes ==
    /\ next_upkeep_id \in Nat /\ app_account \in Int
    /\ DOMAIN upkeeps \subseteq 0 .. next_upkeep_id - 1
    /\ \A i \in DOMAIN upkeeps : upkeeps[i] \in UpkeepRec
    /\ app_account = Total(Balances) + BoxMbr * Cardinality(DOMAIN upkeeps)

RegistryOK ==
    /\ Boxes
    /\ round \in Nat \ {0}
    /\ \A i \in DOMAIN upkeeps : upkeeps[i].last_serviced_round <= round
    /\ broken \subseteq Targets

\* What the record of an upkeep is made of.
LEMMA UpkeepFields ==
  ASSUME NEW u \in UpkeepRec
  PROVE  /\ u.interval_rounds \in Nat \ {0} /\ u.next_execution_round \in Nat
         /\ u.fee_per_execution \in Nat \ {0} /\ u.balance \in Nat
         /\ u.fee_cap \in Nat /\ u.last_serviced_round \in Nat
BY DEF UpkeepRec, Upkeep

\* There are finitely many boxes, and the sum of their escrows is a number.
LEMMA BoxesFinite ==
  ASSUME Boxes
  PROVE  /\ IsFiniteSet(DOMAIN upkeeps) /\ Cardinality(DOMAIN upkeeps) \in Nat
         /\ Balances \in [DOMAIN upkeeps -> Nat] /\ Total(Balances) \in Nat
<1>1. IsFiniteSet(DOMAIN upkeeps)
  <2>1. next_upkeep_id - 1 \in Int
    BY DEF Boxes
  <2>2. IsFiniteSet(0 .. next_upkeep_id - 1)
    BY <2>1, FS_Interval
  <2> QED
    BY <2>2, FS_Subset DEF Boxes
<1>2. Balances \in [DOMAIN upkeeps -> Nat]
  BY UpkeepFields DEF Balances, Boxes
<1> QED
  BY <1>1, <1>2, FS_CardinalityType, TotalType

\* The sum over all boxes but one.
Others(id) == Total([i \in DOMAIN upkeeps \ {id} |-> Balances[i]])

LEMMA BoxApart ==
  ASSUME Boxes, NEW id \in DOMAIN upkeeps
  PROVE  /\ Others(id) \in Nat
         /\ Total(Balances) = upkeeps[id].balance + Others(id)
<1>1. Balances[id] = upkeeps[id].balance
  BY DEF Balances
<1> QED
  BY <1>1, BoxesFinite, TotalApart DEF Others

\* A box is created, or written again, and the account follows.
LEMMA BoxWritten ==
  ASSUME Boxes, NEW id \in Nat, NEW u \in UpkeepRec,
         upkeeps' = [i \in DOMAIN upkeeps \cup {id} |->
                        IF i # id THEN upkeeps[i] ELSE u],
         next_upkeep_id' \in Nat, id < next_upkeep_id',
         next_upkeep_id' >= next_upkeep_id,
         app_account' = IF id \in DOMAIN upkeeps
                        THEN app_account + u.balance - upkeeps[id].balance
                        ELSE app_account + u.balance + BoxMbr
  PROVE  Boxes'
<1> DEFINE D == DOMAIN upkeeps
<1>1. DOMAIN upkeeps' = D \cup {id} /\ upkeeps'[id] = u
  OBVIOUS
<1>2. D \cup {id} \subseteq 0 .. next_upkeep_id' - 1
  BY DEF Boxes
<1>3. \A i \in DOMAIN upkeeps' : upkeeps'[i] \in UpkeepRec
  BY DEF Boxes
<1>4. IsFiniteSet(D) /\ Cardinality(D) \in Nat /\ Total(Balances) \in Nat
  BY BoxesFinite
<1>5. /\ IsFiniteSet(D \cup {id})
      /\ Cardinality(D \cup {id})
           = IF id \in D THEN Cardinality(D) ELSE Cardinality(D) + 1
  BY <1>4, FS_AddElement
<1>6. Balances' \in [D \cup {id} -> Nat] /\ Balances'[id] = u.balance
  BY <1>1, <1>3, UpkeepFields DEF Balances
<1>7. [i \in (D \cup {id}) \ {id} |-> Balances'[i]]
        = [i \in D \ {id} |-> Balances[i]]
  BY <1>1 DEF Balances
<1>8. Total(Balances') = u.balance + Others(id) /\ Others(id) \in Nat
  BY <1>5, <1>6, <1>7, TotalApart DEF Others
<1>9. u.balance \in Nat /\ app_account \in Int /\ BoxMbr \in Nat
      /\ app_account = Total(Balances) + BoxMbr * Cardinality(D)
  BY UpkeepFields, KeeperAssumption DEF Boxes
<1>10. app_account' = Total(Balances') + BoxMbr * Cardinality(D \cup {id})
       /\ app_account' \in Int
  <2>1. CASE id \in D
    <3>1. /\ Total(Balances) = upkeeps[id].balance + Others(id)
          /\ upkeeps[id].balance \in Nat
      BY <2>1, BoxApart, UpkeepFields DEF Boxes
    <3>2. BoxMbr * Cardinality(D) \in Nat
      BY <1>4, <1>9
    <3> HIDE DEF D
    <3> QED
      BY <1>4, <1>5, <1>8, <1>9, <2>1, <3>1, <3>2 DEF D
  <2>2. CASE id \notin D
    <3>1. [i \in D \ {id} |-> Balances[i]] = Balances
      BY <2>2 DEF Balances
    <3>2. Others(id) = Total(Balances)
      BY <3>1 DEF Others
    <3>3. BoxMbr * (Cardinality(D) + 1) = BoxMbr * Cardinality(D) + BoxMbr
          /\ BoxMbr * Cardinality(D) \in Nat
      BY <1>4, <1>9
    <3>4. app_account' = app_account + u.balance + BoxMbr
      BY <2>2
    <3> HIDE DEF D
    <3> QED
      BY <1>4, <1>5, <1>8, <1>9, <2>2, <3>2, <3>3, <3>4
  <2> QED
    BY <2>1, <2>2
<1> QED
  BY <1>1, <1>2, <1>3, <1>10 DEF Boxes

\* A box is deleted, and all that was kept for it leaves.
LEMMA BoxDeleted ==
  ASSUME Boxes, NEW id \in DOMAIN upkeeps,
         upkeeps' = Restrict(upkeeps, DOMAIN upkeeps \ {id}),
         next_upkeep_id' = next_upkeep_id,
         app_account' = app_account - upkeeps[id].balance - BoxMbr
  PROVE  Boxes'
<1> DEFINE D == DOMAIN upkeeps
<1>1. upkeeps' = [i \in D \ {id} |-> upkeeps[i]]
  BY DEF Restrict
<1>2. DOMAIN upkeeps' = D \ {id}
  BY <1>1
<1>3. Balances' = [i \in D \ {id} |-> Balances[i]]
  BY <1>1 DEF Balances
<1>4. Total(Balances') = Others(id)
  BY <1>3 DEF Others
<1>5. /\ Others(id) \in Nat /\ Total(Balances) = upkeeps[id].balance + Others(id)
      /\ upkeeps[id].balance \in Nat
  BY BoxApart, UpkeepFields DEF Boxes
<1>6. IsFiniteSet(D) /\ Cardinality(D) \in Nat
  BY BoxesFinite
<1>7. Cardinality(D \ {id}) = Cardinality(D) - 1 /\ Cardinality(D) - 1 \in Nat
  <2>1. IsFiniteSet(D \ {id}) /\ Cardinality(D \ {id}) = Cardinality(D) - 1
    BY <1>6, FS_RemoveElement
  <2> QED
    BY <2>1, FS_CardinalityType
<1>8. BoxMbr \in Nat /\ app_account \in Int
      /\ app_account = Total(Balances) + BoxMbr * Cardinality(D)
  BY KeeperAssumption DEF Boxes
<1>9. BoxMbr * (Cardinality(D) - 1) = BoxMbr * Cardinality(D) - BoxMbr
      /\ BoxMbr * Cardinality(D) \in Nat
  BY <1>6, <1>8
<1> HIDE DEF D
<1>10. app_account' = Total(Balances') + BoxMbr * Cardinality(D \ {id})
       /\ app_account' \in Int
  BY <1>4, <1>5, <1>6, <1>7, <1>8, <1>9
<1> QED
  BY <1>1, <1>2, <1>10 DEF Boxes, D

\* The clock and the targets may move with any step of the registry.
ClockMoves == round' \in {round, round + 1} /\ broken' \subseteq Targets

LEMMA RegisteredKeeps ==
  ASSUME RegistryOK, ClockMoves, NEW a \in Creators, NEW target \in Targets,
         NEW interval \in Nat, NEW fee \in Nat, NEW cap \in Nat,
         NEW policy \in {0, SKIP_AHEAD}, NEW funding \in Nat,
         Registered(a, target, interval, fee, cap, policy, funding)
  PROVE  RegistryOK'
<1> DEFINE u == [creator |-> a, target_app |-> target,
                 interval_rounds |-> interval,
                 next_execution_round |-> round + interval,
                 fee_per_execution |-> fee, balance |-> funding,
                 policy |-> policy, fee_cap |-> cap,
                 last_serviced_round |-> round]
<1>1. round \in Nat \ {0} /\ next_upkeep_id \in Nat
      /\ next_upkeep_id \notin DOMAIN upkeeps
  BY DEF RegistryOK, Boxes
<1>2. interval \in Nat \ {0} /\ fee \in Nat \ {0}
  BY KeeperAssumption DEF Registered
<1>3. u \in UpkeepRec
  BY <1>1, <1>2 DEF UpkeepRec, Upkeep
<1>4. u.balance = funding /\ u.last_serviced_round = round
  OBVIOUS
<1>5. upkeeps' = [i \in DOMAIN upkeeps \cup {next_upkeep_id} |->
                     IF i # next_upkeep_id THEN upkeeps[i] ELSE u]
  BY DEF Registered
<1> HIDE DEF u
<1>6. Boxes'
  <2>1. next_upkeep_id' = next_upkeep_id + 1
        /\ app_account' = app_account + funding + BoxMbr
    BY DEF Registered
  <2> QED
    BY <1>1, <1>3, <1>4, <1>5, <2>1, BoxWritten DEF RegistryOK
<1>7. \A i \in DOMAIN upkeeps : upkeeps[i].last_serviced_round \in Nat
  BY UpkeepFields DEF RegistryOK, Boxes
<1> QED
  BY <1>1, <1>4, <1>5, <1>6, <1>7 DEF RegistryOK, ClockMoves

LEMMA ToppedUpKeeps ==
  ASSUME RegistryOK, ClockMoves, NEW id, NEW amount \in Nat, ToppedUp(id, amount)
  PROVE  RegistryOK'
<1> DEFINE u == [upkeeps[id] EXCEPT !.balance = @ + amount]
<1>1. id \in DOMAIN upkeeps /\ upkeeps' = [upkeeps EXCEPT ![id] = u]
      /\ app_account' = app_account + amount /\ next_upkeep_id' = next_upkeep_id
  BY DEF ToppedUp
<1>2. upkeeps[id] \in UpkeepRec /\ id \in Nat /\ id < next_upkeep_id
      /\ next_upkeep_id \in Nat /\ app_account \in Int
  BY <1>1 DEF RegistryOK, Boxes
<1>3. upkeeps[id].balance \in Nat
  BY <1>2, UpkeepFields
<1>4. /\ u \in UpkeepRec /\ u.balance = upkeeps[id].balance + amount
      /\ u.last_serviced_round = upkeeps[id].last_serviced_round
  BY <1>2, <1>3 DEF UpkeepRec, Upkeep
<1>5. upkeeps' = [i \in DOMAIN upkeeps \cup {id} |->
                     IF i # id THEN upkeeps[i] ELSE u]
  BY <1>1
<1> HIDE DEF u
<1>6. Boxes'
  <2>1. app_account' = IF id \in DOMAIN upkeeps
                       THEN app_account + u.balance - upkeeps[id].balance
                       ELSE app_account + u.balance + BoxMbr
    BY <1>1, <1>2, <1>3, <1>4
  <2>2. Boxes /\ next_upkeep_id' \in Nat /\ id < next_upkeep_id'
        /\ next_upkeep_id' >= next_upkeep_id
    BY <1>1, <1>2 DEF RegistryOK
  <2> QED
    BY <1>2, <1>4, <1>5, <2>1, <2>2, BoxWritten
<1>7. upkeeps[id].last_serviced_round \in Nat
  BY <1>2, UpkeepFields
<1> QED
  BY <1>1, <1>4, <1>5, <1>6, <1>7 DEF RegistryOK, ClockMoves, Boxes, UpkeepRec, Upkeep

LEMMA CancelledKeeps ==
  ASSUME RegistryOK, ClockMoves, NEW a, NEW id, Cancelled(a, id)
  PROVE  RegistryOK'
<1>1. Boxes'
  BY BoxDeleted DEF Cancelled, RegistryOK
<1>2. upkeeps' = [i \in DOMAIN upkeeps \ {id} |-> upkeeps[i]]
  BY DEF Cancelled, Restrict
<1>3. \A i \in DOMAIN upkeeps : upkeeps[i].last_serviced_round \in Nat
  BY UpkeepFields DEF RegistryOK, Boxes
<1> QED
  BY <1>1, <1>2, <1>3 DEF RegistryOK, ClockMoves

\* An execution writes the box again: a later slot, serviced now, and the fee
\* taken out of an escrow that covers it.
LEMMA ExecutedBox ==
  ASSUME RegistryOK, NEW id, Executed(id)
  PROVE  LET u   == upkeeps[id]
             new == upkeeps'[id]
         IN /\ id \in DOMAIN upkeeps /\ u \in UpkeepRec /\ new \in UpkeepRec
            /\ upkeeps' = [upkeeps EXCEPT ![id] = new]
            /\ new.creator = u.creator /\ new.target_app = u.target_app
            /\ new.fee_per_execution = u.fee_per_execution
            /\ new.next_execution_round > u.next_execution_round
            /\ new.balance = u.balance - Charged(u, round)
            /\ new.last_serviced_round = round
<1> DEFINE u == upkeeps[id]
<1>1. /\ id \in DOMAIN upkeeps /\ round >= u.next_execution_round
      /\ u.balance >= Charged(u, round)
  BY DEF Executed, Executable
<1>2. u \in UpkeepRec /\ round \in Nat /\ round >= u.last_serviced_round
  BY <1>1 DEF RegistryOK, Boxes
<1>3. /\ u.balance \in Nat /\ Charged(u, round) \in Nat
      /\ NextSlot(u) \in Nat /\ NextSlot(u) > u.next_execution_round
  BY <1>1, <1>2, UpkeepFields, Fee, Slot
<1> DEFINE new == [u EXCEPT !.next_execution_round = NextSlot(u),
                            !.balance = @ - Charged(u, round),
                            !.last_serviced_round = round]
<1>4. u.balance - Charged(u, round) \in Nat
  BY <1>1, <1>3
<1>5. upkeeps' = [upkeeps EXCEPT ![id] = new]
  BY DEF Executed, Debit
<1>6. upkeeps'[id] = new
  BY <1>1, <1>5
<1>7. new \in UpkeepRec
  BY <1>2, <1>3, <1>4 DEF UpkeepRec, Upkeep
<1>8. /\ new.creator = u.creator /\ new.target_app = u.target_app
      /\ new.fee_per_execution = u.fee_per_execution
      /\ new.next_execution_round = NextSlot(u)
      /\ new.balance = u.balance - Charged(u, round)
      /\ new.last_serviced_round = round
  BY <1>2 DEF UpkeepRec, Upkeep
<1> HIDE DEF new
<1> QED
  BY <1>1, <1>2, <1>3, <1>5, <1>6, <1>7, <1>8

LEMMA ExecutedKeeps ==
  ASSUME RegistryOK, ClockMoves, NEW id, Executed(id)
  PROVE  RegistryOK'
<1> DEFINE u   == upkeeps[id]
           new == upkeeps'[id]
<1>1. /\ id \in DOMAIN upkeeps /\ u \in UpkeepRec /\ new \in UpkeepRec
      /\ upkeeps' = [upkeeps EXCEPT ![id] = new]
      /\ new.balance = u.balance - Charged(u, round)
      /\ new.last_serviced_round = round
  BY ExecutedBox
<1>2. upkeeps' = [i \in DOMAIN upkeeps \cup {id} |->
                     IF i # id THEN upkeeps[i] ELSE new]
  BY <1>1
<1>3. /\ id \in Nat /\ id < next_upkeep_id /\ next_upkeep_id \in Nat
      /\ app_account \in Int /\ round \in Nat /\ round >= u.last_serviced_round
  BY <1>1 DEF RegistryOK, Boxes
<1>4. u.balance \in Nat /\ Charged(u, round) \in Nat
  BY <1>1, <1>3, UpkeepFields, Fee
<1>5. next_upkeep_id' = next_upkeep_id
      /\ app_account' = app_account - Charged(u, round)
  BY DEF Executed
<1> HIDE DEF u, new
<1>6. app_account' = IF id \in DOMAIN upkeeps
                     THEN app_account + new.balance - upkeeps[id].balance
                     ELSE app_account + new.balance + BoxMbr
  BY <1>1, <1>3, <1>4, <1>5 DEF u
<1>7. Boxes'
  <2>1. Boxes /\ next_upkeep_id' \in Nat /\ id < next_upkeep_id'
        /\ next_upkeep_id' >= next_upkeep_id
    BY <1>3, <1>5 DEF RegistryOK
  <2> QED
    BY <1>1, <1>2, <1>3, <1>6, <2>1, BoxWritten
<1>8. \A i \in DOMAIN upkeeps : upkeeps[i].last_serviced_round \in Nat
  BY UpkeepFields DEF RegistryOK, Boxes
<1> QED
  BY <1>1, <1>2, <1>7, <1>8 DEF RegistryOK, ClockMoves

\* Steps that leave the registry alone.
LEMMA RegistryKept ==
  ASSUME RegistryOK, ClockMoves, UNCHANGED registry
  PROVE  RegistryOK'
<1>1. \A i \in DOMAIN upkeeps : upkeeps[i].last_serviced_round \in Nat
  BY UpkeepFields DEF RegistryOK, Boxes
<1> QED
  BY <1>1 DEF RegistryOK, ClockMoves, registry, Boxes, Balances

-----------------------------------------------------------------------------
(* Type correctness, and the money *)

Stages == {"idle", "bootstrap", "count", "open", "seed", "list", "lookup",
           "top_up"}

\* The script works on a hub there is.
ScriptOK ==
    /\ deploy \in [at : Stages, hub : Hubs \cup {0}, unread : SUBSET Nat,
                   upkeep : Nat]
    /\ deploy.at # "idle" => deploy.hub \in DOMAIN hubs
    /\ DOMAIN hubs \subseteq Hubs
    /\ \A h \in DOMAIN hubs : hubs[h] \in HubRec

\* A step of the registry's users is one of these.
LEMMA WorldStep ==
  ASSUME RegistryOK, KeeperWorld
  PROVE  RegistryOK'
<1>1. round' \in {round, round + 1} /\ broken' \subseteq Targets => ClockMoves
  BY DEF ClockMoves
<1>2. broken \subseteq Targets /\ UpkeepIds \subseteq Int
  BY KeeperAssumption DEF RegistryOK, UpkeepIds
<1>3. CASE KeeperTick
  BY <1>1, <1>2, <1>3, RegistryKept DEF KeeperTick
<1>4. CASE \E t \in Targets : Break(t)
  BY <1>1, <1>2, <1>4, RegistryKept DEF Break
<1>5. ASSUME NEW a \in Registrants, NEW t \in Targets, NEW interval \in Intervals,
             NEW fee \in Fees, NEW cap \in Caps, NEW policy \in Policies,
             NEW funding \in Fundings,
             Register(a, t, interval, fee, cap, policy, funding)
      PROVE  RegistryOK'
  <2>1. ClockMoves /\ Registered(a, t, interval, fee, cap, policy, funding)
    BY <1>1, <1>2, <1>5 DEF Register
  <2>2. /\ a \in Creators /\ interval \in Nat /\ fee \in Nat /\ cap \in Nat
        /\ policy \in {0, SKIP_AHEAD} /\ funding \in Nat
    BY KeeperAssumption
  <2> QED
    BY <2>1, <2>2, RegisteredKeeps
<1>6. ASSUME NEW id \in UpkeepIds, NEW amount \in Fundings, TopUp(id, amount)
      PROVE  RegistryOK'
  <2>1. ClockMoves /\ ToppedUp(id, amount) /\ amount \in Nat
    BY <1>1, <1>2, <1>6, KeeperAssumption DEF TopUp
  <2> QED
    BY <2>1, ToppedUpKeeps
<1>7. ASSUME NEW a \in Creators, NEW id \in UpkeepIds, Cancel(a, id)
      PROVE  RegistryOK'
  <2>1. ClockMoves /\ Cancelled(a, id)
    BY <1>1, <1>2, <1>7 DEF Cancel
  <2> QED
    BY <2>1, CancelledKeeps
<1>8. ASSUME NEW id \in UpkeepIds, Execute(id)
      PROVE  RegistryOK'
  <2>1. ClockMoves /\ Executed(id)
    BY <1>1, <1>2, <1>8 DEF Execute
  <2> QED
    BY <2>1, ExecutedKeeps
<1> QED
  BY <1>3, <1>4, <1>5, <1>6, <1>7, <1>8 DEF KeeperWorld

\* Of the pass only a successful execution touches the registry.
LEMMA PassMoves ==
  ASSUME PassStep
  PROVE  /\ UNCHANGED <<round, broken>>
         /\ UNCHANGED registry \/ \E id \in UpkeepIds : PassSend(id) /\ Executed(id)
BY DEF PassStep, PassScan, PassSelect, PassEnd, PassRead, PassSimulate, PassSend

\* Of the script only its last request does.
LEMMA ScriptMoves ==
  ASSUME DeployStep
  PROVE  /\ UNCHANGED <<round, broken, pass>>
         /\ \/ UNCHANGED registry
            \/ DeployTopUp
            \/ DeployRegister
BY DEF DeployStep, DeployHub, DeployBootstrap, DeployCount, DeployOpen,
       DeploySeed, DeployList, DeployLookup, DeployTopUp, DeployRegister, Ends,
       DeployDies, keeper_vars

LEMMA RegistryStep ==
  ASSUME RegistryOK, ScriptOK, [Next]_vars
  PROVE  RegistryOK'
<1>1. round' = round /\ broken' = broken => ClockMoves
  BY DEF ClockMoves, RegistryOK
<1>2. CASE KeeperWorld
  BY <1>2, WorldStep
<1>3. CASE PassStep
  <2>1. UNCHANGED registry \/ \E id \in UpkeepIds : Executed(id)
    BY <1>3, PassMoves
  <2>2. ClockMoves
    BY <1>1, <1>3, PassMoves
  <2> QED
    BY <2>1, <2>2, RegistryKept, ExecutedKeeps
<1>4. CASE DeployStep
  <2>1. ClockMoves
    BY <1>1, <1>4, ScriptMoves
  <2>2. CASE DeployTopUp
    BY <2>1, <2>2, ToppedUpKeeps, DeployAssumption DEF DeployTopUp
  <2>3. CASE DeployRegister
    <3>1. /\ deploy.hub \in Targets /\ Deployer \in Creators
          /\ {DeployInterval, DeployFee, 0, DeployFunding} \subseteq Nat
          /\ SKIP_AHEAD \in {0, SKIP_AHEAD}
      BY <2>3, DeployAssumption DEF DeployRegister, ScriptOK
    <3>2. Registered(Deployer, deploy.hub, DeployInterval, DeployFee, 0,
                     SKIP_AHEAD, DeployFunding)
      BY <2>3 DEF DeployRegister
    <3> QED
      BY <2>1, <3>1, <3>2, RegisteredKeeps
  <2> QED
    BY <1>4, <2>1, <2>2, <2>3, ScriptMoves, RegistryKept
<1>5. CASE (\E h \in Hubs : StrangerOpens(h)) \/ UNCHANGED vars
  <2>1. UNCHANGED <<round, broken, registry>>
    BY <1>5 DEF StrangerOpens, vars, keeper_vars
  <2> QED
    BY <1>1, <2>1, RegistryKept
<1> QED
  BY <1>2, <1>3, <1>4, <1>5 DEF Next, KeeperNext

\* The script's locals and the hubs stay what they are.
LEMMA ScriptStep ==
  ASSUME RegistryOK, ScriptOK, [Next]_vars
  PROVE  ScriptOK'
<1>1. DOMAIN upkeeps \subseteq Nat
  BY DEF RegistryOK, Boxes
<1>2. CASE DeployHub
  <2>1. PICK h \in Hubs :
           /\ deploy' = [NoDeploy EXCEPT !.at = "bootstrap", !.hub = h]
           /\ hubs' = IF h \in DOMAIN hubs THEN hubs
                      ELSE [x \in DOMAIN hubs \cup {h} |->
                               IF x # h THEN hubs[x]
                               ELSE [bootstrapped |-> FALSE, opened |-> {},
                                     seeded |-> {}, strangers |-> 0]]
    BY <1>2 DEF DeployHub
  <2>2. [bootstrapped |-> FALSE, opened |-> {}, seeded |-> {}, strangers |-> 0]
           \in HubRec
    BY DeployAssumption DEF HubRec
  <2>3. deploy' = [at |-> "bootstrap", hub |-> h, unread |-> {}, upkeep |-> 0]
    BY <2>1 DEF NoDeploy
  <2>4. DOMAIN hubs' = DOMAIN hubs \cup {h}
    BY <2>1
  <2>5. \A x \in DOMAIN hubs' : hubs'[x] \in HubRec
    BY <2>1, <2>2 DEF ScriptOK
  <2> QED
    BY <2>3, <2>4, <2>5 DEF ScriptOK, Stages
<1>3. CASE DeployBootstrap
  <2> DEFINE new == [hubs[deploy.hub] EXCEPT !.bootstrapped = TRUE]
  <2>1. deploy.hub \in DOMAIN hubs /\ hubs[deploy.hub] \in HubRec
    BY <1>3 DEF DeployBootstrap, ScriptOK
  <2>2. new \in HubRec
    BY <2>1, Zenon DEF HubRec
  <2>3. hubs' = [hubs EXCEPT ![deploy.hub] = new]
        /\ deploy' = [deploy EXCEPT !.at = "count"]
    BY <1>3 DEF DeployBootstrap, Goes
  <2> HIDE DEF new
  <2> QED
    BY <2>1, <2>2, <2>3 DEF ScriptOK, Stages
<1>4. CASE DeployCount
  BY <1>4 DEF DeployCount, Goes, ScriptOK, Stages
<1>5. CASE DeployOpen
  BY <1>5 DEF DeployOpen, Goes, ScriptOK, Stages, HubRec, Corvid
<1>6. CASE DeploySeed
  <2> DEFINE left == ToSeed \ hubs[deploy.hub].seeded
             mode == IF "split" \in left THEN "split" ELSE "wave"
             new  == [hubs[deploy.hub] EXCEPT !.seeded = @ \cup {mode}]
  <2>1. deploy.hub \in DOMAIN hubs /\ hubs[deploy.hub] \in HubRec
    BY <1>6 DEF DeploySeed, ScriptOK
  <2>2. mode \in Corvid
    BY DEF Corvid
  <2> HIDE DEF mode
  <2>3. new \in HubRec
    BY <2>1, <2>2 DEF HubRec
  <2>4. hubs' = [hubs EXCEPT ![deploy.hub] = new]
        /\ deploy' = [deploy EXCEPT !.at = IF left = {mode} THEN "list" ELSE "seed"]
    BY <1>6 DEF DeploySeed, Goes, mode
  <2> HIDE DEF new, left
  <2> QED
    BY <2>1, <2>3, <2>4 DEF ScriptOK, Stages
<1>7. CASE DeployList \/ \E id \in UpkeepIds : DeployLookup(id)
  BY <1>1, <1>7 DEF DeployList, DeployLookup, ScriptOK, Stages
<1>8. CASE DeployTopUp \/ DeployRegister \/ DeployDies
  BY <1>8 DEF DeployTopUp, DeployRegister, DeployDies, Ends, NoDeploy, ScriptOK,
              Stages
<1>9. CASE \E h \in Hubs : StrangerOpens(h)
  BY <1>9, DeployAssumption DEF StrangerOpens, ScriptOK, Stages, HubRec
<1>10. CASE UNCHANGED <<hubs, deploy>>
  BY <1>10 DEF ScriptOK
<1> QED
  BY <1>2, <1>3, <1>4, <1>5, <1>6, <1>7, <1>8, <1>9, <1>10
  DEF Next, DeployStep, vars

LEMMA EmptyRegistry ==
  ASSUME Init
  PROVE  RegistryOK /\ ScriptOK
<1>1. /\ upkeeps = [i \in {} |-> 0] /\ DOMAIN upkeeps = {} /\ round = 1
      /\ next_upkeep_id = 0 /\ app_account = 0 /\ broken = {}
  BY DEF Init, KeeperInit
<1>2. Balances = [i \in {} |-> 0]
  BY <1>1 DEF Balances
<1>3. Units(Balances) = {}
  BY <1>2 DEF Units
<1>4. Total(Balances) = 0 /\ Cardinality(DOMAIN upkeeps) = 0
  BY <1>1, <1>3, FS_EmptySet DEF Total
<1>5. BoxMbr * 0 = 0
  BY KeeperAssumption
<1>6. Boxes
  BY <1>1, <1>4, <1>5 DEF Boxes
<1>7. RegistryOK
  BY <1>1, <1>6 DEF RegistryOK
<1>8. deploy = [at |-> "idle", hub |-> 0, unread |-> {}, upkeep |-> 0]
      /\ DOMAIN hubs = {}
  BY DEF Init, NoDeploy
<1>9. ScriptOK
  BY <1>8 DEF ScriptOK, Stages
<1> QED
  BY <1>7, <1>9

LEMMA RegistryInv == Spec => [](RegistryOK /\ ScriptOK)
<1>1. Init => RegistryOK /\ ScriptOK
  BY EmptyRegistry
<1>2. (RegistryOK /\ ScriptOK) /\ [Next]_vars => (RegistryOK /\ ScriptOK)'
  BY RegistryStep, ScriptStep
<1> QED
  BY <1>1, <1>2, PTL DEF Spec

\* The registry, the hubs and the operator's records keep their types.
THEOREM SetupTypeCorrect == Spec => []SetupTypeOK
<1>1. RegistryOK /\ ScriptOK => SetupTypeOK
  BY DEF RegistryOK, Boxes, ScriptOK, SetupTypeOK, KeeperTypeOK, UpkeepRec
<1> QED
  BY <1>1, RegistryInv, PTL

\* What the keeper expects an execution to pay is what the registry charges,
\* whatever the terms of the upkeep and whatever round it is
\* (scripts/arcron.py:257-302).
THEOREM FeesAgree == Spec => []FeeAsCharged
<1>1. ASSUME RegistryOK  PROVE FeeAsCharged
  <2> SUFFICES ASSUME NEW i \in DOMAIN upkeeps,
                      NEW now \in upkeeps[i].last_serviced_round .. MaxRound
               PROVE  /\ EffectiveFee(upkeeps[i], now) = Charged(upkeeps[i], now)
                      /\ upkeeps[i].balance >= upkeeps[i].fee_per_execution =>
                            upkeeps[i].balance >= EffectiveFee(upkeeps[i], now)
    BY DEF FeeAsCharged
  <2>1. upkeeps[i] \in UpkeepRec
    BY <1>1 DEF RegistryOK, Boxes
  <2>2. now \in Nat /\ now >= upkeeps[i].last_serviced_round
    BY <2>1, UpkeepFields
  <2> QED
    BY <2>1, <2>2, Fee
<1> QED
  BY <1>1, RegistryInv, PTL

\* The registry's account holds every escrow and every box's minimum balance to
\* the last unit, and no escrow is overdrawn.
THEOREM EscrowAlwaysKept == Spec => []EscrowKept
<1>1. RegistryOK => EscrowKept
  BY UpkeepFields DEF RegistryOK, Boxes, Balances, EscrowKept
<1> QED
  BY <1>1, RegistryInv, PTL

-----------------------------------------------------------------------------
(* One upkeep for each hub *)

\* The deployer's upkeeps that drive a hub.
Own(h) == {i \in DOMAIN upkeeps :
              upkeeps[i].creator = Deployer /\ upkeeps[i].target_app = h}

\* There is at most one, and while the script reads the boxes, it has not read
\* it yet: it would have stopped there.
OwnOnce ==
    /\ \A h \in Hubs : \A i, j \in Own(h) : i = j
    /\ deploy.at = "lookup" => Own(deploy.hub) \subseteq deploy.unread

\* Nobody else registers an upkeep for the deployer, or changes what it calls.
LEMMA OwnKept ==
  ASSUME RegistryOK, KeeperNext, NEW h
  PROVE  Own(h)' \subseteq Own(h)
<1>1. CASE UNCHANGED upkeeps
  BY <1>1 DEF Own
<1>2. ASSUME NEW id, Executed(id)  PROVE Own(h)' \subseteq Own(h)
  <2>1. /\ upkeeps' = [upkeeps EXCEPT ![id] = upkeeps'[id]]
        /\ id \in DOMAIN upkeeps
        /\ upkeeps'[id].creator = upkeeps[id].creator
        /\ upkeeps'[id].target_app = upkeeps[id].target_app
    BY <1>2, ExecutedBox
  <2>2. \A i \in DOMAIN upkeeps \ {id} : upkeeps'[i] = upkeeps[i]
    BY <2>1
  <2>3. DOMAIN upkeeps' = DOMAIN upkeeps
    BY <2>1
  <2> QED
    BY <2>1, <2>2, <2>3 DEF Own
<1>3. CASE PassStep
  BY <1>1, <1>2, <1>3, PassMoves DEF registry
<1>4. ASSUME NEW a \in Registrants, NEW t \in Targets, NEW interval \in Intervals,
             NEW fee \in Fees, NEW cap \in Caps, NEW policy \in Policies,
             NEW funding \in Fundings,
             Register(a, t, interval, fee, cap, policy, funding)
      PROVE  Own(h)' \subseteq Own(h)
  <2>1. a # Deployer
    BY DeployAssumption
  <2>2. DOMAIN upkeeps' = DOMAIN upkeeps \cup {next_upkeep_id}
        /\ upkeeps'[next_upkeep_id].creator = a
        /\ \A i \in DOMAIN upkeeps \ {next_upkeep_id} : upkeeps'[i] = upkeeps[i]
    BY <1>4 DEF Register, Registered
  <2> QED
    BY <2>1, <2>2 DEF Own
<1>5. ASSUME NEW id \in UpkeepIds, NEW amount \in Fundings, TopUp(id, amount)
      PROVE  Own(h)' \subseteq Own(h)
  <2>1. id \in DOMAIN upkeeps /\ upkeeps[id] \in UpkeepRec
    BY <1>5 DEF TopUp, ToppedUp, RegistryOK, Boxes
  <2>2. /\ DOMAIN upkeeps' = DOMAIN upkeeps
        /\ upkeeps'[id].creator = upkeeps[id].creator
        /\ upkeeps'[id].target_app = upkeeps[id].target_app
        /\ \A i \in DOMAIN upkeeps \ {id} : upkeeps'[i] = upkeeps[i]
    BY <1>5, <2>1 DEF TopUp, ToppedUp, UpkeepRec, Upkeep
  <2> QED
    BY <2>2 DEF Own
<1>6. ASSUME NEW a \in Creators, NEW id \in UpkeepIds, Cancel(a, id)
      PROVE  Own(h)' \subseteq Own(h)
  BY <1>6 DEF Cancel, Cancelled, Restrict, Own
<1>7. CASE KeeperTick \/ \E t \in Targets : Break(t)
  BY <1>1, <1>7 DEF KeeperTick, Break, registry
<1> QED
  BY <1>2, <1>3, <1>4, <1>5, <1>6, <1>7 DEF KeeperNext, KeeperWorld, Execute

\* No step gives a hub a second one.
LEMMA OwnStep ==
  ASSUME RegistryOK, ScriptOK, OwnOnce, [Next]_vars
  PROVE  OwnOnce'
<1>1. ASSUME UNCHANGED deploy, \A h : Own(h)' \subseteq Own(h)
      PROVE  OwnOnce'
  BY <1>1 DEF OwnOnce
<1>2. ASSUME UNCHANGED upkeeps, deploy'.at # "lookup"
      PROVE  OwnOnce'
  BY <1>2 DEF OwnOnce, Own
<1>3. CASE KeeperNext /\ UNCHANGED <<hubs, deploy, cut, finished>>
  BY <1>1, <1>3, OwnKept
<1>4. CASE DeployHub \/ DeployBootstrap \/ DeployCount \/ DeployOpen
           \/ DeploySeed \/ DeployDies
  <2>1. UNCHANGED upkeeps
    BY <1>4 DEF DeployHub, DeployBootstrap, DeployCount, DeployOpen, DeploySeed,
                DeployDies, keeper_vars, registry
  <2>2. \/ \E at \in {"count", "open", "seed", "list"} :
              deploy' = [deploy EXCEPT !.at = at]
        \/ \E h : deploy' = [NoDeploy EXCEPT !.at = "bootstrap", !.hub = h]
        \/ deploy' = NoDeploy
    BY <1>4 DEF DeployHub, DeployBootstrap, DeployCount, DeployOpen, DeploySeed,
                DeployDies, Goes
  <2>3. \A at : [deploy EXCEPT !.at = at].at = at
    BY DEF ScriptOK
  <2>4. \A h : [NoDeploy EXCEPT !.at = "bootstrap", !.hub = h].at = "bootstrap"
    BY DEF NoDeploy
  <2>5. deploy'.at # "lookup"
    <3>1. ASSUME NEW at \in {"count", "open", "seed", "list"},
                 deploy' = [deploy EXCEPT !.at = at]
          PROVE  deploy'.at # "lookup"
      <4>1. deploy'.at = at
        BY <2>3, <3>1
      <4> QED
        BY <4>1
    <3>2. ASSUME NEW h, deploy' = [NoDeploy EXCEPT !.at = "bootstrap", !.hub = h]
          PROVE  deploy'.at # "lookup"
      BY <2>4, <3>2
    <3>3. CASE deploy' = NoDeploy
      BY <3>3 DEF NoDeploy
    <3> QED
      BY <2>2, <3>1, <3>2, <3>3
  <2> QED
    BY <1>2, <2>1, <2>5
<1>5. CASE DeployList
  <2>1. deploy' = [deploy EXCEPT !.at = "lookup", !.unread = DOMAIN upkeeps]
        /\ upkeeps' = upkeeps
    BY <1>5 DEF DeployList, keeper_vars, registry
  <2>2. deploy'.unread = DOMAIN upkeeps
    BY <2>1 DEF ScriptOK
  <2> QED
    BY <2>1, <2>2 DEF OwnOnce, Own
<1>6. ASSUME NEW id \in UpkeepIds, DeployLookup(id)
      PROVE  OwnOnce'
  <2>1. upkeeps' = upkeeps /\ deploy.at = "lookup"
        /\ deploy' = IF Drives(id)
                     THEN [deploy EXCEPT !.at = "top_up", !.unread = {},
                                         !.upkeep = id]
                     ELSE [deploy EXCEPT !.unread = @ \ {id}]
    BY <1>6 DEF DeployLookup, keeper_vars, registry
  <2>2. CASE Drives(id)
    BY <1>2, <2>1, <2>2 DEF ScriptOK
  <2>3. CASE ~Drives(id)
    <3>1. deploy'.hub = deploy.hub /\ deploy'.unread = deploy.unread \ {id}
      BY <2>1, <2>3 DEF ScriptOK
    <3>2. id \notin Own(deploy.hub)
      BY <2>3 DEF Drives, Own
    <3> QED
      BY <2>1, <3>1, <3>2 DEF OwnOnce, Own
  <2> QED
    BY <2>2, <2>3
<1>7. CASE DeployTopUp
  <2>1. deploy'.at = "idle" /\ ToppedUp(deploy.upkeep, DeployFunding)
    BY <1>7 DEF DeployTopUp, Ends, NoDeploy
  <2>2. deploy.upkeep \in DOMAIN upkeeps /\ upkeeps[deploy.upkeep] \in UpkeepRec
    BY <2>1 DEF ToppedUp, RegistryOK, Boxes
  <2>3. /\ DOMAIN upkeeps' = DOMAIN upkeeps
        /\ \A i \in DOMAIN upkeeps :
              /\ upkeeps'[i].creator = upkeeps[i].creator
              /\ upkeeps'[i].target_app = upkeeps[i].target_app
    BY <2>1, <2>2 DEF ToppedUp, UpkeepRec, Upkeep
  <2> QED
    BY <2>1, <2>3 DEF OwnOnce, Own
<1>8. CASE DeployRegister
  <2>1. deploy'.at = "idle" /\ deploy.at = "lookup" /\ deploy.unread = {}
        /\ Registered(Deployer, deploy.hub, DeployInterval, DeployFee, 0,
                      SKIP_AHEAD, DeployFunding)
    BY <1>8 DEF DeployRegister, Ends, NoDeploy
  <2>2. Own(deploy.hub) = {}
    BY <2>1 DEF OwnOnce
  <2>3. next_upkeep_id \notin DOMAIN upkeeps
    BY DEF RegistryOK, Boxes
  <2>4. DOMAIN upkeeps' = DOMAIN upkeeps \cup {next_upkeep_id}
        /\ upkeeps'[next_upkeep_id].target_app = deploy.hub
        /\ \A i \in DOMAIN upkeeps : upkeeps'[i] = upkeeps[i]
    BY <2>1, <2>3 DEF Registered
  <2>5. \A h \in Hubs : \A i, j \in Own(h)' : i = j
    BY <2>2, <2>4 DEF Own, OwnOnce
  <2> QED
    BY <2>1, <2>5 DEF OwnOnce
<1>9. CASE (\E h \in Hubs : StrangerOpens(h)) \/ UNCHANGED vars
  <2>1. UNCHANGED <<deploy, upkeeps>>
    BY <1>9 DEF StrangerOpens, vars, keeper_vars, registry
  <2> QED
    BY <1>1, <2>1 DEF Own
<1> QED
  BY <1>3, <1>4, <1>5, <1>6, <1>7, <1>8, <1>9 DEF Next, DeployStep

\* However often the script is run, wherever it dies and whatever the
\* registry's other users do, the deployer has one upkeep at most on each hub
\* (scripts/rain_testnet_deploy.py:72-107).
THEOREM OneUpkeep == Spec => []OneUpkeepPerHub
<1>1. Init => OwnOnce
  BY DEF Init, KeeperInit, NoDeploy, OwnOnce, Own
<1>2. RegistryOK /\ ScriptOK /\ OwnOnce /\ [Next]_vars => OwnOnce'
  BY OwnStep
<1>3. RegistryOK /\ ScriptOK /\ OwnOnce => OneUpkeepPerHub
  <2> SUFFICES ASSUME RegistryOK, ScriptOK, OwnOnce, NEW h \in DOMAIN hubs
               PROVE  Cardinality(Own(h)) <= 1
    BY DEF OneUpkeepPerHub, Own
  <2>1. \A i, j \in Own(h) : i = j
    BY DEF OwnOnce, ScriptOK
  <2>2. CASE Own(h) = {}
    BY <2>2, FS_EmptySet
  <2>3. ASSUME NEW i \in Own(h)  PROVE Cardinality(Own(h)) <= 1
    <3>1. Own(h) = {i}
      BY <2>1, <2>3
    <3>2. Cardinality({i}) = 1
      BY FS_Singleton
    <3> QED
      BY <3>1, <3>2
  <2> QED
    BY <2>2, <2>3
<1> QED
  BY <1>1, <1>2, <1>3, RegistryInv, PTL DEF Spec

-----------------------------------------------------------------------------
(* A hub that the script has finished *)

Untouched(h) == hubs[h].opened = {} /\ hubs[h].seeded = {}
Complete(h)  == hubs[h].opened = Corvid /\ hubs[h].seeded = Corvid
Excused(h)   == h \in cut \/ hubs[h].strangers > 0

\* Where the run has got to, a hub is bootstrapped, opened and seeded that far;
\* the hub it does not work on is as it came, complete or excused.
Progress ==
    LET h == deploy.hub IN
    /\ deploy.at \notin {"idle", "bootstrap"} => hubs[h].bootstrapped
    /\ deploy.at = "open" => hubs[h].opened \in {{}, {"split"}}
                             /\ hubs[h].seeded = {}
    /\ deploy.at = "seed" => hubs[h].opened = Corvid
    /\ deploy.at \in {"list", "lookup", "top_up"} => Excused(h) \/ Complete(h)
    /\ \A g \in DOMAIN hubs :
          \/ Excused(g) \/ Untouched(g) \/ Complete(g)
          \/ g = h /\ deploy.at \in {"open", "seed"}
    /\ \A g \in DOMAIN hubs : hubs[g].seeded = {} \/ hubs[g].opened = Corvid

Finished ==
    \A h \in finished :
        /\ h \in DOMAIN hubs /\ hubs[h].bootstrapped
        /\ Excused(h) \/ Complete(h)

\* A hub without a rain has none of the script's.
LEMMA NoRain ==
  ASSUME ScriptOK, NEW h \in DOMAIN hubs
  PROVE  NextRainId(h) = 0 <=> hubs[h].opened = {} /\ hubs[h].strangers = 0
<1>1. hubs[h].opened \in SUBSET Corvid /\ hubs[h].strangers \in Nat
  BY DeployAssumption DEF ScriptOK, HubRec
<1>2. IsFiniteSet(Corvid)
  <2>1. IsFiniteSet({"split"} \cup {"wave"})
    BY FS_Singleton, FS_AddElement
  <2>2. Corvid = {"split"} \cup {"wave"}
    BY DEF Corvid
  <2> QED
    BY <2>1, <2>2
<1>3. IsFiniteSet(hubs[h].opened) /\ Cardinality(hubs[h].opened) \in Nat
  BY <1>1, <1>2, FS_Subset, FS_CardinalityType
<1>4. Cardinality(hubs[h].opened) = 0 <=> hubs[h].opened = {}
  BY <1>3, FS_EmptySet
<1> QED
  BY <1>1, <1>3, <1>4 DEF NextRainId

\* The script's next step takes the hub one further, or leaves it where it is.
LEMMA ProgressStep ==
  ASSUME ScriptOK, Progress, Finished, [Next]_vars
  PROVE  Progress' /\ Finished'
<1>0. PICK h : h = deploy.hub
  OBVIOUS
<1>1. deploy.at # "idle" => h \in DOMAIN hubs /\ hubs[h] \in HubRec
  BY <1>0 DEF ScriptOK
<1>2. \A g \in DOMAIN hubs : hubs[g].strangers \in Nat
  BY DeployAssumption DEF ScriptOK, HubRec
<1>3. CASE UNCHANGED <<hubs, deploy, cut, finished>>
  BY <1>3 DEF Progress, Finished, Excused, Untouched, Complete
<1>4. CASE DeployHub
  <2>1. PICK g \in Hubs :
           /\ deploy' = [NoDeploy EXCEPT !.at = "bootstrap", !.hub = g]
           /\ hubs' = IF g \in DOMAIN hubs THEN hubs
                      ELSE [x \in DOMAIN hubs \cup {g} |->
                               IF x # g THEN hubs[x]
                               ELSE [bootstrapped |-> FALSE, opened |-> {},
                                     seeded |-> {}, strangers |-> 0]]
           /\ UNCHANGED <<cut, finished>> /\ deploy.at = "idle"
    BY <1>4 DEF DeployHub
  <2>2. deploy'.at = "bootstrap"
    BY <2>1 DEF NoDeploy
  <2>3. /\ DOMAIN hubs \subseteq DOMAIN hubs'
        /\ \A x \in DOMAIN hubs : hubs'[x] = hubs[x]
        /\ \A x \in DOMAIN hubs' \ DOMAIN hubs :
              hubs'[x].opened = {} /\ hubs'[x].seeded = {}
    BY <2>1
  <2>4. Finished'
    BY <2>1, <2>3 DEF Finished, Excused, Complete
  <2>5. \A x \in DOMAIN hubs' : (Excused(x) \/ Untouched(x) \/ Complete(x))'
    BY <2>1, <2>3 DEF Progress, Excused, Untouched, Complete
  <2>6. \A x \in DOMAIN hubs' : hubs'[x].seeded = {} \/ hubs'[x].opened = Corvid
    BY <2>3 DEF Progress
  <2> QED
    BY <2>2, <2>4, <2>5, <2>6 DEF Progress
<1>5. ASSUME deploy.at # "idle", NEW rec \in HubRec, NEW at \in Stages \ {"idle"},
             DOMAIN hubs' = DOMAIN hubs, hubs'[h] = rec,
             \A g \in DOMAIN hubs \ {h} : hubs'[g] = hubs[g],
             deploy'.at = at, deploy'.hub = h, UNCHANGED <<cut, finished>>,
             rec.strangers = hubs[h].strangers,
             hubs[h].bootstrapped => rec.bootstrapped,
             at # "bootstrap" => rec.bootstrapped,
             at = "open" => rec.opened \in {{}, {"split"}} /\ rec.seeded = {},
             at = "seed" => rec.opened = Corvid,
             at \in {"list", "lookup", "top_up"} =>
                Excused(h) \/ (rec.opened = Corvid /\ rec.seeded = Corvid),
             Complete(h) => rec.opened = Corvid /\ rec.seeded = Corvid,
             rec.seeded = {} \/ rec.opened = Corvid,
             \/ Excused(h)
             \/ rec.opened = {} /\ rec.seeded = {}
             \/ rec.opened = Corvid /\ rec.seeded = Corvid
             \/ at \in {"open", "seed"}
      PROVE  Progress' /\ Finished'
  <2>1. deploy'.at = at /\ deploy'.hub = h
    BY <1>5
  <2>2. /\ DOMAIN hubs' = DOMAIN hubs /\ hubs'[h] = rec /\ h \in DOMAIN hubs
        /\ \A g \in DOMAIN hubs \ {h} : hubs'[g] = hubs[g]
    BY <1>1, <1>5
  <2>3. /\ Complete(h)' <=> rec.opened = Corvid /\ rec.seeded = Corvid
        /\ Excused(h)' <=> Excused(h)
    BY <1>5, <2>2 DEF Complete, Excused
  <2>4. \A g \in DOMAIN hubs \ {h} :
           /\ Complete(g)' <=> Complete(g)
           /\ Excused(g)' <=> Excused(g)
           /\ Untouched(g)' <=> Untouched(g)
    BY <1>5, <2>2 DEF Complete, Excused, Untouched
  <2>5. \A g \in DOMAIN hubs' :
          \/ (Excused(g) \/ Untouched(g) \/ Complete(g))'
          \/ g = h /\ at \in {"open", "seed"}
    BY <1>0, <1>5, <2>2, <2>3, <2>4 DEF Progress, Untouched
  <2>6. Finished'
    BY <1>5, <2>2, <2>3, <2>4 DEF Finished
  <2> QED
    BY <1>0, <1>5, <2>1, <2>2, <2>3, <2>5, <2>6 DEF Progress
<1>6. CASE DeployDies
  <2>1. deploy.at # "idle" /\ deploy'.at = "idle" /\ UNCHANGED <<hubs, finished>>
        /\ cut' = IF \/ deploy.at = "seed"
                     \/ deploy.at = "open" /\ hubs[h].opened # {}
                  THEN cut \cup {h} ELSE cut
    BY <1>0, <1>6 DEF DeployDies, NoDeploy
  <2>2. \A g : Excused(g) => Excused(g)'
    BY <2>1 DEF Excused
  <2>3. deploy.at \in {"open", "seed"} => Excused(h)' \/ Untouched(h)
    BY <1>0, <2>1 DEF Progress, Excused, Untouched
  <2>4. \A g \in DOMAIN hubs' : (Excused(g) \/ Untouched(g) \/ Complete(g))'
    BY <1>0, <2>1, <2>2, <2>3 DEF Progress, Untouched, Complete
  <2>5. Finished'
    BY <2>1, <2>2 DEF Finished, Complete
  <2> QED
    BY <2>1, <2>4, <2>5 DEF Progress
<1>7. ASSUME deploy.at \in {"lookup", "top_up"}, deploy' = NoDeploy,
             finished' = finished \cup {h}, UNCHANGED <<hubs, cut>>
      PROVE  Progress' /\ Finished'
  <2>1. deploy'.at = "idle"
    BY <1>7 DEF NoDeploy
  <2>2. h \in DOMAIN hubs /\ hubs[h].bootstrapped /\ (Excused(h) \/ Complete(h))
    BY <1>0, <1>1, <1>7 DEF Progress
  <2>3. \A g : /\ Excused(g)' <=> Excused(g)
               /\ Complete(g)' <=> Complete(g)
               /\ Untouched(g)' <=> Untouched(g)
    BY <1>7 DEF Excused, Complete, Untouched
  <2>4. Finished'
    BY <1>7, <2>2, <2>3 DEF Finished
  <2>5. \A g \in DOMAIN hubs' : (Excused(g) \/ Untouched(g) \/ Complete(g))'
    BY <1>0, <1>7, <2>3 DEF Progress
  <2>6. \A g \in DOMAIN hubs' : hubs'[g].seeded = {} \/ hubs'[g].opened = Corvid
    BY <1>7 DEF Progress
  <2> QED
    BY <2>1, <2>4, <2>5, <2>6 DEF Progress
<1>8. ASSUME NEW g \in Hubs, StrangerOpens(g)
      PROVE  Progress' /\ Finished'
  <2>1. /\ g \in DOMAIN hubs /\ UNCHANGED <<deploy, cut, finished>>
        /\ hubs' = [hubs EXCEPT ![g] = [hubs[g] EXCEPT !.strangers = @ + 1]]
        /\ hubs[g] \in HubRec
    BY <1>8 DEF StrangerOpens, ScriptOK
  <2>2. /\ DOMAIN hubs' = DOMAIN hubs
        /\ \A x \in DOMAIN hubs :
              /\ hubs'[x].bootstrapped = hubs[x].bootstrapped
              /\ hubs'[x].opened = hubs[x].opened
              /\ hubs'[x].seeded = hubs[x].seeded
              /\ hubs[x].strangers > 0 => hubs'[x].strangers > 0
    BY <1>2, <2>1 DEF HubRec
  <2>3. \A x \in DOMAIN hubs :
           /\ Excused(x) => Excused(x)'
           /\ Complete(x) => Complete(x)'
           /\ Untouched(x) => Untouched(x)'
    BY <2>1, <2>2 DEF Excused, Complete, Untouched
  <2>4. Finished'
    BY <2>1, <2>2, <2>3 DEF Finished
  <2>5. Progress'
    BY <1>0, <1>1, <2>1, <2>2, <2>3 DEF Progress, ScriptOK
  <2> QED
    BY <2>4, <2>5
<1>9. CASE DeployBootstrap
  <2> DEFINE new == [hubs[h] EXCEPT !.bootstrapped = TRUE]
  <2>1. /\ deploy.at = "bootstrap" /\ h \in DOMAIN hubs /\ hubs[h] \in HubRec
        /\ deploy' = [deploy EXCEPT !.at = "count"]
        /\ hubs' = [hubs EXCEPT ![h] = new] /\ UNCHANGED <<cut, finished>>
    BY <1>0, <1>1, <1>9 DEF DeployBootstrap, Goes
  <2>2. deploy'.at = "count" /\ deploy'.hub = h
    BY <1>0, <2>1 DEF ScriptOK
  <2>3. /\ new \in HubRec /\ new.bootstrapped /\ new.opened = hubs[h].opened
        /\ new.seeded = hubs[h].seeded /\ new.strangers = hubs[h].strangers
    BY <2>1 DEF HubRec
  <2>4. Excused(h) \/ Untouched(h) \/ Complete(h)
    BY <1>0, <2>1 DEF Progress
  <2>5. hubs[h].seeded = {} \/ hubs[h].opened = Corvid
    BY <2>1 DEF Progress
  <2> HIDE DEF new
  <2> QED
    BY <1>5, <2>1, <2>2, <2>3, <2>4, <2>5 DEF Stages, Untouched, Complete
<1>10. CASE DeployCount
  <2> DEFINE at == IF NextRainId(h) = 0 THEN "open" ELSE "list"
  <2>1. /\ deploy.at = "count" /\ h \in DOMAIN hubs /\ hubs[h] \in HubRec
        /\ deploy' = [deploy EXCEPT !.at = at] /\ UNCHANGED <<hubs, cut, finished>>
    BY <1>0, <1>1, <1>10 DEF DeployCount, Goes
  <2>2. deploy'.at = at /\ deploy'.hub = h
    BY <1>0, <2>1 DEF ScriptOK
  <2>3. hubs' = hubs
    BY <2>1
  <2>4. /\ hubs[h].bootstrapped
        /\ Excused(h) \/ Untouched(h) \/ Complete(h)
        /\ hubs[h].seeded = {} \/ hubs[h].opened = Corvid
    BY <1>0, <2>1 DEF Progress
  <2>5. CASE NextRainId(h) = 0
    <3>1. hubs[h].opened = {} /\ at = "open"
      BY <2>1, <2>5, NoRain
    <3>2. hubs[h].seeded = {}
      BY <2>4, <3>1 DEF Corvid
    <3> HIDE DEF at
    <3> QED
      BY <1>5, <2>1, <2>2, <2>3, <2>4, <3>1, <3>2 DEF Stages, Complete
  <2>6. CASE NextRainId(h) # 0
    <3>1. at = "list" /\ (Excused(h) \/ Complete(h))
      BY <1>2, <2>1, <2>4, <2>6, NoRain DEF Untouched, Excused
    <3> HIDE DEF at
    <3> QED
      BY <1>5, <2>1, <2>2, <2>3, <2>4, <3>1 DEF Stages, Complete
  <2> QED
    BY <2>5, <2>6
<1>11. CASE DeployOpen
  <2> DEFINE mode == IF "split" \in hubs[h].opened THEN "wave" ELSE "split"
             at   == IF mode = "wave" THEN "seed" ELSE "open"
             new  == [hubs[h] EXCEPT !.opened = @ \cup {mode}]
  <2>1. /\ deploy.at = "open" /\ h \in DOMAIN hubs /\ hubs[h] \in HubRec
        /\ deploy' = [deploy EXCEPT !.at = at]
        /\ hubs' = [hubs EXCEPT ![h] = new] /\ UNCHANGED <<cut, finished>>
    BY <1>0, <1>1, <1>11 DEF DeployOpen, Goes
  <2>2. deploy'.at = at /\ deploy'.hub = h
    BY <1>0, <2>1 DEF ScriptOK
  <2>3. /\ hubs[h].bootstrapped /\ hubs[h].opened \in {{}, {"split"}}
        /\ hubs[h].seeded = {}
    BY <1>0, <2>1 DEF Progress
  <2>4. /\ new \in HubRec /\ new.bootstrapped = hubs[h].bootstrapped
        /\ new.opened = hubs[h].opened \cup {mode}
        /\ new.seeded = hubs[h].seeded /\ new.strangers = hubs[h].strangers
    BY <2>1 DEF HubRec, Corvid
  <2>5. ~Complete(h)
    BY <2>3 DEF Complete, Corvid
  <2>6. \/ at = "open" /\ new.opened = {"split"}
        \/ at = "seed" /\ new.opened = Corvid
    BY <2>3, <2>4 DEF Corvid
  <2> HIDE DEF new, at, mode
  <2>7. at \in Stages \ {"idle"}
    BY <2>6 DEF Stages
  <2>8. at \in {"open", "seed"}
    BY <2>6
  <2> QED
    BY <1>5, <2>1, <2>2, <2>3, <2>4, <2>5, <2>6, <2>7, <2>8
<1>12. CASE DeploySeed
  <2> DEFINE left == ToSeed \ hubs[h].seeded
             mode == IF "split" \in left THEN "split" ELSE "wave"
             at   == IF left = {mode} THEN "list" ELSE "seed"
             new  == [hubs[h] EXCEPT !.seeded = @ \cup {mode}]
  <2>1. /\ deploy.at = "seed" /\ h \in DOMAIN hubs /\ hubs[h] \in HubRec
        /\ deploy' = [deploy EXCEPT !.at = at]
        /\ hubs' = [hubs EXCEPT ![h] = new] /\ UNCHANGED <<cut, finished>>
    BY <1>0, <1>1, <1>12 DEF DeploySeed, Goes
  <2>2. deploy'.at = at /\ deploy'.hub = h
    BY <1>0, <2>1 DEF ScriptOK
  <2>3. hubs[h].bootstrapped /\ hubs[h].opened = Corvid
    BY <1>0, <2>1 DEF Progress
  <2>4. /\ new \in HubRec /\ new.bootstrapped = hubs[h].bootstrapped
        /\ new.seeded = hubs[h].seeded \cup {mode}
        /\ new.opened = hubs[h].opened /\ new.strangers = hubs[h].strangers
    BY <2>1 DEF HubRec, Corvid
  <2>5. hubs[h].seeded \subseteq Corvid
    BY <2>1 DEF HubRec
  <2>6. \/ at = "seed"
        \/ at = "list" /\ new.seeded = Corvid
    BY <2>4, <2>5 DEF ToSeed, Corvid
  <2>7. hubs[h].seeded = Corvid => new.seeded = Corvid
    BY <2>4 DEF Corvid
  <2> HIDE DEF new, at, mode, left
  <2>8. at \in Stages \ {"idle"}
    BY <2>6 DEF Stages
  <2>9. at \notin {"bootstrap", "open", "lookup", "top_up"}
    BY <2>6
  <2> QED
    BY <1>5, <2>1, <2>2, <2>3, <2>4, <2>6, <2>7, <2>8, <2>9 DEF Complete
<1>13. CASE DeployList \/ \E id \in UpkeepIds : DeployLookup(id)
  <2>1. /\ deploy.at \in {"list", "lookup"} /\ deploy'.hub = h
        /\ deploy'.at \in {"lookup", "top_up"} /\ UNCHANGED <<hubs, cut, finished>>
    BY <1>0, <1>13 DEF DeployList, DeployLookup, ScriptOK
  <2>2. h \in DOMAIN hubs /\ hubs[h].bootstrapped /\ (Excused(h) \/ Complete(h))
    BY <1>0, <1>1, <2>1 DEF Progress
  <2>3. \A g : /\ Excused(g)' <=> Excused(g)
               /\ Complete(g)' <=> Complete(g)
               /\ Untouched(g)' <=> Untouched(g)
    BY <2>1 DEF Excused, Complete, Untouched
  <2>4. \A g \in DOMAIN hubs : Excused(g) \/ Untouched(g) \/ Complete(g)
    BY <1>0, <2>1 DEF Progress
  <2>5. Finished'
    BY <2>1, <2>3 DEF Finished
  <2> QED
    BY <2>1, <2>2, <2>3, <2>4, <2>5 DEF Progress
<1>14. CASE DeployTopUp \/ DeployRegister
  BY <1>0, <1>7, <1>14 DEF DeployTopUp, DeployRegister, Ends
<1> QED
  BY <1>3, <1>4, <1>6, <1>8, <1>9, <1>10, <1>11, <1>12, <1>13, <1>14
  DEF Next, DeployStep, vars

\* A run that reached its end leaves the hub with both rains open and money in
\* them, whatever happened to the runs before it, unless somebody else's rain
\* was there or an earlier run died between opening and seeding
\* (scripts/rain_testnet_deploy.py:112-164).
THEOREM SetUpComplete == Spec => []SetUpUnlessCut
<1>1. Init => Progress /\ Finished
  BY DEF Init, NoDeploy, Progress, Finished
<1>2. ScriptOK /\ Progress /\ Finished /\ [Next]_vars => (Progress /\ Finished)'
  BY ProgressStep
<1>3. ScriptOK /\ Finished => SetUpUnlessCut
  BY DeployAssumption
  DEF ScriptOK, HubRec, Finished, Excused, Complete, SetUpUnlessCut
<1> QED
  BY <1>1, <1>2, <1>3, RegistryInv, PTL DEF Spec

-----------------------------------------------------------------------------
(* What a pass selected *)

\* An older and a newer reading of one upkeep: the terms stand, and until it is
\* executed the escrow only grows.
Behind(old, new) ==
    /\ new.fee_per_execution = old.fee_per_execution
    /\ old.next_execution_round <= new.next_execution_round
    /\ old.next_execution_round = new.next_execution_round =>
           old.balance <= new.balance

Readings == UNION {[D -> UpkeepRec] : D \in SUBSET Nat}

PassRec == [at : {"idle", "read", "execute", "send"}, now : Nat,
            unread : SUBSET Nat, seen : Readings, due : SUBSET Nat,
            stale : BOOLEAN]

\* What the pass holds was read from the boxes, and what it selected could be
\* executed when it was read.
PassOK ==
    /\ pass \in PassRec
    /\ pass.now <= round
    /\ pass.at = "read" => pass.due = {}
    /\ \A i \in DOMAIN pass.seen :
           /\ i < next_upkeep_id
           /\ i \in DOMAIN upkeeps => Behind(pass.seen[i], upkeeps[i])
    /\ \A i \in pass.due :
           /\ i \in DOMAIN pass.seen
           /\ pass.now >= pass.seen[i].next_execution_round
           /\ pass.seen[i].balance >= pass.seen[i].fee_per_execution

\* What a reading is.
LEMMA ReadingIs ==
  ASSUME NEW s
  PROVE  s \in Readings <=> DOMAIN s \in SUBSET Nat /\ s \in [DOMAIN s -> UpkeepRec]
BY DEF Readings

\* The keeper expects the base fee at least.
LEMMA AtLeastBase ==
  ASSUME NEW u \in UpkeepRec, NEW now \in Nat
  PROVE  EffectiveFee(u, now) \in Nat /\ EffectiveFee(u, now) >= u.fee_per_execution
<1> DEFINE interval == Greater(u.interval_rounds, 1)
           lateness == Greater(now - u.last_serviced_round, 0)
           excess   == Lesser(Greater(lateness - interval, 0), interval)
           part     == ((u.fee_cap - u.fee_per_execution) * excess) \div interval
<1>1. /\ u.interval_rounds \in Nat \ {0} /\ u.fee_per_execution \in Nat \ {0}
      /\ u.fee_cap \in Nat /\ u.last_serviced_round \in Nat
      /\ u.next_execution_round \in Nat /\ u.balance \in Nat
  BY UpkeepFields
<1>2. interval \in Nat \ {0} /\ excess \in Nat
  BY <1>1 DEF Greater, Lesser
<1>3. EffectiveFee(u, now)
        = CASE \/ u.fee_cap <= u.fee_per_execution
               \/ u.next_execution_round <= u.last_serviced_round
                                     -> u.fee_per_execution
            [] u.balance < u.fee_per_execution + part -> u.fee_per_execution
            [] OTHER                 -> u.fee_per_execution + part
  BY DEF EffectiveFee
<1> HIDE DEF interval, excess
<1>4. u.fee_cap > u.fee_per_execution => part \in Nat
  <2> SUFFICES ASSUME u.fee_cap > u.fee_per_execution  PROVE part \in Nat
    OBVIOUS
  <2>1. u.fee_cap - u.fee_per_execution \in Nat
    BY <1>1
  <2> QED
    BY <1>2, <2>1, Quotient
<1> HIDE DEF part
<1>5. CASE \/ u.fee_cap <= u.fee_per_execution
           \/ u.next_execution_round <= u.last_serviced_round
           \/ u.fee_cap > u.fee_per_execution
              /\ u.balance < u.fee_per_execution + part
  <2>1. EffectiveFee(u, now) = u.fee_per_execution
    BY <1>3, <1>5
  <2> QED
    BY <1>1, <2>1
<1>6. CASE /\ ~(\/ u.fee_cap <= u.fee_per_execution
                \/ u.next_execution_round <= u.last_serviced_round)
           /\ ~(u.balance < u.fee_per_execution + part)
  <2>1. EffectiveFee(u, now) = u.fee_per_execution + part
    BY <1>3, <1>6
  <2>2. part \in Nat
    BY <1>1, <1>4, <1>6
  <2> QED
    BY <1>1, <2>1, <2>2
<1> QED
  BY <1>1, <1>5, <1>6

\* Of three readings the last is behind the first.
LEMMA BehindOn ==
  ASSUME NEW a \in UpkeepRec, NEW b \in UpkeepRec, NEW c \in UpkeepRec,
         Behind(a, b), Behind(b, c)
  PROVE  Behind(a, c)
BY UpkeepFields DEF Behind

Clock == round' \in {round, round + 1}

Ahead ==
    /\ round' >= round /\ next_upkeep_id' >= next_upkeep_id
    /\ \A i \in DOMAIN upkeeps' :
          \/ i \in DOMAIN upkeeps /\ Behind(upkeeps[i], upkeeps'[i])
          \/ i = next_upkeep_id

\* No step takes a reading back, and a number is given to one upkeep only.
LEMMA RegistryAhead ==
  ASSUME RegistryOK, ScriptOK, [Next]_vars
  PROVE  Ahead
<1>1. /\ round \in Nat /\ next_upkeep_id \in Nat
      /\ \A i \in DOMAIN upkeeps : upkeeps[i] \in UpkeepRec
  BY DEF RegistryOK, Boxes
<1>2. \A u \in UpkeepRec : Behind(u, u)
  BY UpkeepFields DEF Behind
<1>3. Clock => round' >= round
  BY <1>1 DEF Clock
<1>4. ASSUME Clock, UNCHANGED registry  PROVE Ahead
  BY <1>1, <1>2, <1>3, <1>4 DEF registry, Ahead
<1>5. ASSUME Clock, NEW id, Executed(id)  PROVE Ahead
  <2>1. /\ id \in DOMAIN upkeeps /\ upkeeps[id] \in UpkeepRec
        /\ upkeeps'[id] \in UpkeepRec
        /\ upkeeps' = [upkeeps EXCEPT ![id] = upkeeps'[id]]
        /\ upkeeps'[id].fee_per_execution = upkeeps[id].fee_per_execution
        /\ upkeeps'[id].next_execution_round > upkeeps[id].next_execution_round
    BY <1>5, ExecutedBox
  <2>2. Behind(upkeeps[id], upkeeps'[id])
    BY <2>1, UpkeepFields DEF Behind
  <2>3. DOMAIN upkeeps' = DOMAIN upkeeps
        /\ \A i \in DOMAIN upkeeps \ {id} : upkeeps'[i] = upkeeps[i]
    BY <2>1
  <2>4. next_upkeep_id' = next_upkeep_id
    BY <1>5 DEF Executed
  <2> QED
    BY <1>1, <1>2, <1>3, <1>5, <2>2, <2>3, <2>4 DEF Ahead
<1>6. ASSUME Clock, NEW id, NEW amount \in Nat, ToppedUp(id, amount)  PROVE Ahead
  <2>1. id \in DOMAIN upkeeps /\ upkeeps[id] \in UpkeepRec
    BY <1>1, <1>6 DEF ToppedUp
  <2>2. /\ DOMAIN upkeeps' = DOMAIN upkeeps /\ next_upkeep_id' = next_upkeep_id
        /\ upkeeps'[id].fee_per_execution = upkeeps[id].fee_per_execution
        /\ upkeeps'[id].next_execution_round = upkeeps[id].next_execution_round
        /\ upkeeps'[id].balance = upkeeps[id].balance + amount
        /\ \A i \in DOMAIN upkeeps \ {id} : upkeeps'[i] = upkeeps[i]
    BY <1>6, <2>1 DEF ToppedUp, UpkeepRec, Upkeep
  <2>3. Behind(upkeeps[id], upkeeps'[id])
    BY <1>6, <2>1, <2>2, UpkeepFields DEF Behind
  <2> QED
    BY <1>1, <1>2, <1>3, <1>6, <2>2, <2>3 DEF Ahead
<1>7. ASSUME Clock, NEW a, NEW t, NEW interval, NEW fee, NEW cap, NEW policy,
             NEW funding, Registered(a, t, interval, fee, cap, policy, funding)
      PROVE  Ahead
  <2>1. /\ DOMAIN upkeeps' = DOMAIN upkeeps \cup {next_upkeep_id}
        /\ \A i \in DOMAIN upkeeps' \ {next_upkeep_id} : upkeeps'[i] = upkeeps[i]
        /\ next_upkeep_id' = next_upkeep_id + 1
    BY <1>7 DEF Registered
  <2> QED
    BY <1>1, <1>2, <1>3, <1>7, <2>1 DEF Ahead
<1>8. ASSUME Clock, NEW a, NEW id, Cancelled(a, id)  PROVE Ahead
  <2>1. /\ DOMAIN upkeeps' \subseteq DOMAIN upkeeps
        /\ \A i \in DOMAIN upkeeps' : upkeeps'[i] = upkeeps[i]
        /\ next_upkeep_id' = next_upkeep_id
    BY <1>8 DEF Cancelled, Restrict
  <2> QED
    BY <1>1, <1>2, <1>3, <1>8, <2>1 DEF Ahead
<1>9. CASE KeeperWorld
  <2>1. Clock
    BY <1>9 DEF Clock, KeeperWorld, KeeperTick, Break, Register, TopUp, Cancel,
                Execute
  <2>2. Fundings \subseteq Nat
    BY KeeperAssumption
  <2> QED
    BY <1>4, <1>5, <1>6, <1>7, <1>8, <1>9, <2>1, <2>2
    DEF KeeperWorld, KeeperTick, Break, Register, TopUp, Cancel, Execute
<1>10. CASE PassStep
  <2>1. Clock
    BY <1>10, PassMoves DEF Clock
  <2> QED
    BY <1>4, <1>5, <1>10, <2>1, PassMoves
<1>11. CASE DeployStep
  <2>1. Clock /\ DeployFunding \in Nat
    BY <1>11, ScriptMoves, DeployAssumption DEF Clock
  <2> QED
    BY <1>4, <1>6, <1>7, <1>11, <2>1, ScriptMoves DEF DeployTopUp, DeployRegister
<1>12. CASE (\E h \in Hubs : StrangerOpens(h)) \/ UNCHANGED vars
  <2>1. UNCHANGED <<round, registry>>
    BY <1>12 DEF StrangerOpens, vars, keeper_vars
  <2> QED
    BY <1>4, <2>1 DEF Clock
<1> QED
  BY <1>9, <1>10, <1>11, <1>12 DEF Next, KeeperNext

\* A pass that forgets, or stands still, keeps what it has in order.
LEMMA PassKept ==
  ASSUME RegistryOK, RegistryOK', Ahead, PassOK, pass' \in PassRec,
         pass'.now <= round', pass'.at = "read" => pass'.due = {},
         DOMAIN pass'.seen \subseteq DOMAIN pass.seen,
         \A i \in DOMAIN pass'.seen : pass'.seen[i] = pass.seen[i],
         pass'.due \subseteq pass.due \cap DOMAIN pass'.seen,
         pass'.due # {} => pass'.now = pass.now
  PROVE  PassOK'
<1>1. /\ next_upkeep_id \in Nat /\ next_upkeep_id' \in Nat
      /\ next_upkeep_id' >= next_upkeep_id /\ DOMAIN pass.seen \subseteq Nat
  BY ReadingIs DEF RegistryOK, Boxes, Ahead, PassOK, PassRec
<1>2. ASSUME NEW i \in DOMAIN pass'.seen
      PROVE  /\ i < next_upkeep_id'
             /\ i \in DOMAIN upkeeps' => Behind(pass'.seen[i], upkeeps'[i])
  <2>1. i \in DOMAIN pass.seen /\ i \in Nat /\ i < next_upkeep_id
        /\ pass'.seen[i] = pass.seen[i] /\ pass.seen[i] \in UpkeepRec
    BY <1>1, <1>2, ReadingIs DEF PassOK, PassRec
  <2>2. ASSUME i \in DOMAIN upkeeps'  PROVE Behind(pass.seen[i], upkeeps'[i])
    <3>1. i \in DOMAIN upkeeps /\ Behind(upkeeps[i], upkeeps'[i])
      BY <1>1, <2>1, <2>2 DEF Ahead
    <3>2. upkeeps[i] \in UpkeepRec /\ upkeeps'[i] \in UpkeepRec
      BY <2>2, <3>1 DEF RegistryOK, Boxes
    <3>3. Behind(pass.seen[i], upkeeps[i])
      BY <2>1, <3>1 DEF PassOK
    <3> QED
      BY <2>1, <3>1, <3>2, <3>3, BehindOn
  <2> QED
    BY <1>1, <2>1, <2>2
<1>3. \A i \in pass'.due :
         /\ i \in DOMAIN pass'.seen
         /\ pass'.now >= pass'.seen[i].next_execution_round
         /\ pass'.seen[i].balance >= pass'.seen[i].fee_per_execution
  BY DEF PassOK
<1> QED
  BY <1>2, <1>3 DEF PassOK

LEMMA NoPassIs == NoPass \in PassRec /\ NoPass.at = "idle" /\ NoPass.now = 0
                  /\ DOMAIN NoPass.seen = {} /\ NoPass.due = {}
<1>1. [i \in {} |-> 0] \in Readings
  BY ReadingIs
<1> QED
  BY <1>1 DEF NoPass, PassRec

\* The keeper's step.
LEMMA PassOwnStep ==
  ASSUME RegistryOK, RegistryOK', Ahead, PassOK, PassStep
  PROVE  PassOK'
<1>1. /\ round \in Nat /\ round' = round /\ pass \in PassRec
      /\ DOMAIN pass.seen \in SUBSET Nat
      /\ pass.seen \in [DOMAIN pass.seen -> UpkeepRec] /\ pass.now <= round
      /\ pass.now \in Nat
  BY PassMoves, ReadingIs DEF RegistryOK, PassOK, PassRec
<1>2. CASE pass' = NoPass
  BY <1>1, <1>2, NoPassIs, PassKept
<1>3. CASE PassScan
  <2>1. pass' = [NoPass EXCEPT !.at = "read", !.now = round,
                               !.unread = DOMAIN upkeeps]
    BY <1>3 DEF PassScan
  <2>2. DOMAIN upkeeps \in SUBSET Nat
    BY DEF RegistryOK, Boxes
  <2>3. /\ pass' \in PassRec /\ pass'.now = round /\ pass'.due = {}
        /\ DOMAIN pass'.seen = {}
    BY <1>1, <2>1, <2>2, NoPassIs DEF PassRec
  <2> QED
    BY <1>1, <2>3, PassKept
<1>4. ASSUME NEW id \in UpkeepIds, PassRead(id), id \in DOMAIN upkeeps
      PROVE  PassOK'
  <2> DEFINE seen == [i \in DOMAIN pass.seen \cup {id} |->
                         IF i = id THEN upkeeps[id] ELSE pass.seen[i]]
  <2>1. /\ pass' = [pass EXCEPT !.unread = @ \ {id}, !.seen = seen]
        /\ UNCHANGED <<round, registry>> /\ pass.at = "read"
    BY <1>4 DEF PassRead
  <2>2. /\ upkeeps[id] \in UpkeepRec /\ id \in Nat /\ id < next_upkeep_id
        /\ upkeeps' = upkeeps /\ next_upkeep_id' = next_upkeep_id
    BY <1>4, <2>1 DEF RegistryOK, Boxes, registry
  <2>3. DOMAIN seen = DOMAIN pass.seen \cup {id} /\ seen[id] = upkeeps[id]
        /\ \A i \in DOMAIN pass.seen \ {id} : seen[i] = pass.seen[i]
    OBVIOUS
  <2>4. seen \in Readings
    <3>1. DOMAIN seen \in SUBSET Nat
      BY <1>1, <2>2
    <3>2. seen \in [DOMAIN seen -> UpkeepRec]
      BY <1>1, <2>2
    <3> HIDE DEF seen
    <3> QED
      BY <3>1, <3>2, ReadingIs
  <2> HIDE DEF seen
  <2>5. /\ pass' \in PassRec /\ pass'.seen = seen /\ pass'.due = pass.due
        /\ pass'.now = pass.now /\ pass'.at = pass.at
    BY <1>1, <2>1, <2>4 DEF PassRec
  <2>6. pass.due = {}
    BY <2>1 DEF PassOK
  <2>7. Behind(upkeeps[id], upkeeps[id])
    BY <2>2, UpkeepFields DEF Behind
  <2>8. \A i \in DOMAIN seen :
           /\ i < next_upkeep_id
           /\ i \in DOMAIN upkeeps => Behind(seen[i], upkeeps[i])
    BY <2>2, <2>3, <2>7 DEF PassOK
  <2> QED
    BY <1>1, <2>1, <2>2, <2>5, <2>6, <2>8 DEF PassOK
<1>5. CASE PassSelect
  <2> DEFINE due == Selected(pass.seen, pass.now)
  <2>1. /\ pass' = [pass EXCEPT !.at = "execute", !.due = due,
                                !.seen = Restrict(pass.seen, due)]
        /\ UNCHANGED <<round, registry>>
    BY <1>5 DEF PassSelect
  <2>2. due \subseteq DOMAIN pass.seen
    BY DEF Selected
  <2>3. \A i \in due : /\ pass.now >= pass.seen[i].next_execution_round
                       /\ pass.seen[i].balance >= EffectiveFee(pass.seen[i], pass.now)
    BY DEF Selected
  <2>4. \A i \in due : pass.seen[i].balance >= pass.seen[i].fee_per_execution
    BY <1>1, <2>2, <2>3, AtLeastBase, UpkeepFields
  <2> DEFINE seen == Restrict(pass.seen, due)
  <2> HIDE DEF due
  <2>5. DOMAIN seen = due /\ \A i \in due : seen[i] = pass.seen[i]
    BY <2>2 DEF Restrict
  <2>6. seen \in [due -> UpkeepRec]
    BY <1>1, <2>2 DEF Restrict
  <2> HIDE DEF seen
  <2>7. seen \in Readings /\ due \in SUBSET Nat
    BY <1>1, <2>2, <2>5, <2>6, ReadingIs
  <2>8. /\ pass' \in PassRec /\ pass'.seen = seen /\ pass'.due = due
        /\ pass'.now = pass.now /\ pass'.at = "execute"
    BY <1>1, <2>1, <2>7 DEF PassRec, seen
  <2>9. /\ upkeeps' = upkeeps /\ next_upkeep_id' = next_upkeep_id
    BY <2>1 DEF registry
  <2>10. \A i \in DOMAIN seen :
            /\ i < next_upkeep_id
            /\ i \in DOMAIN upkeeps => Behind(seen[i], upkeeps[i])
    BY <2>2, <2>5 DEF PassOK
  <2> QED
    BY <1>1, <2>3, <2>4, <2>5, <2>8, <2>9, <2>10 DEF PassOK
<1>6. ASSUME NEW id \in UpkeepIds, PassSimulate(id), pass' # NoPass
      PROVE  PassOK'
  <2>1. pass' = [pass EXCEPT !.at = "send", !.stale = FALSE]
    BY <1>6 DEF PassSimulate
  <2>2. /\ pass' \in PassRec /\ pass'.seen = pass.seen /\ pass'.due = pass.due
        /\ pass'.now = pass.now /\ pass'.at = "send"
    BY <1>1, <2>1 DEF PassRec
  <2>3. pass.due \subseteq DOMAIN pass.seen
    BY DEF PassOK
  <2> QED
    BY <1>1, <2>2, <2>3, PassKept
<1>7. ASSUME NEW id \in UpkeepIds, PassSend(id), pass' # NoPass
      PROVE  PassOK'
  <2> DEFINE due  == pass.due \ {id}
             seen == Restrict(pass.seen, due)
  <2>1. pass' = [pass EXCEPT !.at = "execute", !.due = due, !.seen = seen,
                             !.stale = FALSE]
    BY <1>7 DEF PassSend
  <2>2. due \subseteq DOMAIN pass.seen /\ due \subseteq pass.due
    BY DEF PassOK
  <2> HIDE DEF due
  <2>3. DOMAIN seen = due /\ \A i \in due : seen[i] = pass.seen[i]
    BY <2>2 DEF Restrict
  <2>4. seen \in [due -> UpkeepRec]
    BY <1>1, <2>2 DEF Restrict
  <2> HIDE DEF seen
  <2>5. seen \in Readings /\ due \in SUBSET Nat
    BY <1>1, <2>2, <2>3, <2>4, ReadingIs
  <2>6. /\ pass' \in PassRec /\ pass'.seen = seen /\ pass'.due = due
        /\ pass'.now = pass.now /\ pass'.at = "execute"
    BY <1>1, <2>1, <2>5 DEF PassRec
  <2> QED
    BY <1>1, <2>2, <2>3, <2>6, PassKept
<1>8. CASE PassEnd
  BY <1>2, <1>8 DEF PassEnd
<1> QED
  BY <1>2, <1>3, <1>4, <1>5, <1>6, <1>7, <1>8 DEF PassStep, PassRead

\* Everybody else's steps.
LEMMA PassOKStep ==
  ASSUME RegistryOK, ScriptOK, PassOK, [Next]_vars
  PROVE  PassOK'
<1>1. RegistryOK' /\ Ahead
  BY RegistryStep, RegistryAhead
<1>2. /\ pass.now \in Nat /\ pass.now <= round /\ round \in Nat /\ round' \in Nat
      /\ round' >= round /\ pass \in PassRec
      /\ pass.due \subseteq DOMAIN pass.seen
  BY <1>1 DEF RegistryOK, Ahead, PassOK, PassRec
<1>3. CASE UNCHANGED pass
  BY <1>1, <1>2, <1>3, PassKept DEF PassOK
<1>4. CASE pass' = [pass EXCEPT !.stale = TRUE]
  <2>1. /\ pass' \in PassRec /\ pass'.seen = pass.seen /\ pass'.due = pass.due
        /\ pass'.now = pass.now /\ pass'.at = pass.at
    BY <1>2, <1>4 DEF PassRec
  <2> QED
    BY <1>1, <1>2, <2>1, PassKept DEF PassOK
<1>5. CASE PassStep
  BY <1>1, <1>5, PassOwnStep
<1>6. CASE KeeperWorld
  BY <1>3, <1>4, <1>6 DEF KeeperWorld, KeeperTick, Break, Register, TopUp,
                          Cancel, Execute
<1>7. CASE DeployStep
  BY <1>3, <1>7, ScriptMoves
<1>8. CASE (\E h \in Hubs : StrangerOpens(h)) \/ UNCHANGED vars
  BY <1>3, <1>8 DEF StrangerOpens, vars, keeper_vars
<1> QED
  BY <1>5, <1>6, <1>7, <1>8 DEF Next, KeeperNext

\* Once the pass has selected an upkeep, neither the rounds that go by, and the
\* fee with them, nor a top-up take it out of the keeper's reach: only an
\* execution by somebody else or a cancellation does (scripts/arcron.py:449-492).
THEOREM PickedStays == Spec => []PickedStaysDue
<1>1. Init => PassOK
  <2>1. Init => pass = NoPass /\ round = 1
    BY DEF Init, KeeperInit
  <2> QED
    BY <2>1, NoPassIs DEF PassOK
<1>2. RegistryOK /\ ScriptOK /\ PassOK /\ [Next]_vars => PassOK'
  BY PassOKStep
<1>3. ASSUME RegistryOK, PassOK  PROVE PickedStaysDue
  <2> SUFFICES ASSUME NEW i \in pass.due \cap DOMAIN upkeeps,
                      upkeeps[i].next_execution_round
                          = pass.seen[i].next_execution_round
               PROVE  Executable(i)
    BY DEF PickedStaysDue
  <2>1. /\ upkeeps[i] \in UpkeepRec /\ pass.seen[i] \in UpkeepRec
        /\ i \in DOMAIN pass.seen /\ Behind(pass.seen[i], upkeeps[i])
        /\ round \in Nat /\ pass.now \in Nat /\ pass.now <= round
        /\ upkeeps[i].last_serviced_round <= round
    BY <1>3, ReadingIs DEF RegistryOK, Boxes, PassOK, PassRec
  <2>2. /\ pass.now >= pass.seen[i].next_execution_round
        /\ pass.seen[i].balance >= pass.seen[i].fee_per_execution
    BY <1>3 DEF PassOK
  <2>3. round >= upkeeps[i].next_execution_round
    BY <2>1, <2>2, UpkeepFields
  <2>4. upkeeps[i].balance >= upkeeps[i].fee_per_execution
    BY <2>1, <2>2, UpkeepFields DEF Behind
  <2>5. upkeeps[i].balance >= Charged(upkeeps[i], round)
    BY <2>1, <2>4, Fee
  <2> QED
    BY <2>3, <2>5 DEF Executable
<1> QED
  BY <1>1, <1>2, <1>3, RegistryInv, PTL DEF Spec
=============================================================================
