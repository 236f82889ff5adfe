------------------------------ MODULE KeeperFee ------------------------------
(***************************************************************************)
(* What an execution of an upkeep pays.  The registry charges it           *)
(* (artifacts/keeper, the compiled keeper contract) and scripts/arcron.py  *)
(* computes the same number beforehand, to pick and to order the work.     *)
(***************************************************************************)
EXTENDS Integers

SKIP_AHEAD == 1

\* The terms of an upkeep, and where it stands.  The bonus asset is left out:
\* nothing in this repository registers one.
Upkeep(Creators, Targets) ==
    [creator : Creators, target_app : Targets, interval_rounds : Nat \ {0},
     next_execution_round : Nat, fee_per_execution : Nat \ {0},
     balance : Nat, policy : {0, SKIP_AHEAD}, fee_cap : Nat,
     last_serviced_round : Nat]

Lesser(m, n)  == IF m <= n THEN m ELSE n
Greater(m, n) == IF m >= n THEN m ELSE n

\* The registry's execute: branches as its program takes them.
\* Mutant: an upkeep that cannot pay the escalated fee is refused it.
ChargedFrozen(u, now) ==
    LET late == now - u.last_serviced_round IN
    IF /\ u.fee_cap > u.fee_per_execution
       /\ u.next_execution_round > u.last_serviced_round
       /\ late > u.interval_rounds
    THEN u.fee_per_execution + ((u.fee_cap - u.fee_per_execution)
            * Lesser(late - u.interval_rounds, u.interval_rounds))
               \div u.interval_rounds
    ELSE u.fee_per_execution

Charged(u, now) ==
    LET late  == now - u.last_serviced_round
        extra == IF late > u.interval_rounds
                 THEN IF late - u.interval_rounds > u.interval_rounds
                      THEN u.interval_rounds
                      ELSE late - u.interval_rounds
                 ELSE 0
        fee   == u.fee_per_execution
                    + ((u.fee_cap - u.fee_per_execution) * extra)
                         \div u.interval_rounds
    IN IF /\ u.fee_cap > u.fee_per_execution
          /\ u.next_execution_round > u.last_serviced_round
          /\ u.balance >= fee
       THEN fee
       ELSE u.fee_per_execution

\* Mutant: the fee never drops back to what the escrow can pay.
EffectiveFeeFrozen(u, current_round) ==
    LET interval == Greater(u.interval_rounds, 1)
        lateness == Greater(current_round - u.last_serviced_round, 0)
        excess   == Lesser(Greater(lateness - interval, 0), interval)
    IN IF \/ u.fee_cap <= u.fee_per_execution
          \/ u.next_execution_round <= u.last_serviced_round
       THEN u.fee_per_execution
       ELSE u.fee_per_execution
               + ((u.fee_cap - u.fee_per_execution) * excess) \div interval

\* effective_fee of scripts/arcron.py.
EffectiveFee(u, current_round) ==
    LET interval == Greater(u.interval_rounds, 1)
        lateness == Greater(current_round - u.last_serviced_round, 0)
        excess   == Lesser(Greater(lateness - interval, 0), interval)
        fee      == u.fee_per_execution
                       + ((u.fee_cap - u.fee_per_execution) * excess)
                            \div interval
    IN CASE \/ u.fee_cap <= u.fee_per_execution
            \/ u.next_execution_round <= u.last_serviced_round
                                   -> u.fee_per_execution
         [] u.balance < fee        -> u.fee_per_execution
         [] OTHER                  -> fee
=============================================================================
