------------------------------- MODULE Keeper -------------------------------
(***************************************************************************)
(* The keeper registry that calls draw on a schedule, and the pass over it *)
(* that scripts/arcron.py makes.  The registry is vendored as a compiled   *)
(* program; its methods are actions here, each run to its end or rolled    *)
(* back.  The pass is a client: it asks for the round, lists the boxes,    *)
(* reads them one request at a time and executes what it selected, while   *)
(* the registry's other users go on.                                       *)
(***************************************************************************)
EXTENDS KeeperFee, FiniteSets, Functions, Sums

CONSTANTS
    Creators,     \* accounts that may have upkeeps
    Registrants,  \* those that register them by hand
    Targets,      \* applications that upkeeps call
    Breakable,    \* the targets whose call may begin to fail
    Intervals, Fees, Caps, Policies, Fundings,   \* what callers offer
    MinInterval, MinFee, BoxMbr,
    MaxUpkeeps, MaxRound, MaxFunds               \* bounds

ASSUME KeeperAssumption ==
    /\ IsFiniteSet(Creators) /\ Registrants \subseteq Creators
    /\ IsFiniteSet(Targets) /\ Breakable \subseteq Targets
    /\ Intervals \subseteq Nat /\ Fees \subseteq Nat /\ Caps \subseteq Nat
    /\ Policies \subseteq {0, SKIP_AHEAD} /\ Fundings \subseteq Nat
    /\ MinInterval \in Nat \ {0} /\ MinFee \in Nat \ {0} /\ BoxMbr \in Nat
    /\ MaxUpkeeps \in Nat /\ MaxRound \in Nat \ {0} /\ MaxFunds \in Nat

VARIABLES
    round,
    upkeeps,         \* the upkeep boxes: id -> Upkeep
    next_upkeep_id,
    app_account,     \* what the registry's account holds of its users' ALGO
    broken,          \* the targets whose call fails now
    pass             \* run_keeper_once, and where it has got to

registry    == <<upkeeps, next_upkeep_id, app_account>>
keeper_vars == <<round, registry, broken, pass>>

\* at: what the pass does next; now: the round it asked for first; unread:
\* boxes listed and not read yet; seen: what it read; due: what it selected
\* and has not executed; stale: whether the target was called since the pass
\* found out what the call touches.
NoPass == [at |-> "idle", now |-> 0, unread |-> {}, seen |-> [i \in {} |-> 0],
           due |-> {}, stale |-> FALSE]

KeeperInit ==
    /\ round = 1
    /\ upkeeps = [i \in {} |-> 0]
    /\ next_upkeep_id = 0
    /\ app_account = 0
    /\ broken = {}
    /\ pass = NoPass

-----------------------------------------------------------------------------
(* The registry *)

\* What it holds for an upkeep: the box's minimum balance and the escrow.
\* Funding must cover an execution, at the cap if the fee may rise to it.
Registered(a, target, interval, fee, cap, policy, funding) ==
    /\ interval >= MinInterval
    /\ fee >= MinFee
    /\ cap = 0 \/ cap >= fee
    /\ funding >= Greater(fee, cap)
    /\ next_upkeep_id < MaxUpkeeps
    /\ app_account + funding + BoxMbr <= MaxFunds
    /\ upkeeps' = [i \in DOMAIN upkeeps \cup {next_upkeep_id} |->
           IF i # next_upkeep_id THEN upkeeps[i]
           ELSE [creator |-> a, target_app |-> target,
                 interval_rounds |-> interval,
                 next_execution_round |-> round + interval,
                 fee_per_execution |-> fee, balance |-> funding,
                 policy |-> policy, fee_cap |-> cap,
                 last_serviced_round |-> round]]
    /\ next_upkeep_id' = next_upkeep_id + 1
    /\ app_account' = app_account + funding + BoxMbr

ToppedUp(id, amount) ==
    /\ id \in DOMAIN upkeeps
    /\ amount > 0
    /\ app_account + amount <= MaxFunds
    /\ upkeeps' = [upkeeps EXCEPT ![id] = [upkeeps[id] EXCEPT
           !.balance = @ + amount]]
    /\ app_account' = app_account + amount
    /\ UNCHANGED next_upkeep_id

\* The escrow and the box's minimum balance go back to the creator.
Cancelled(a, id) ==
    /\ id \in DOMAIN upkeeps
    /\ upkeeps[id].creator = a
    /\ upkeeps' = Restrict(upkeeps, DOMAIN upkeeps \ {id})
    /\ app_account' = app_account - upkeeps[id].balance - BoxMbr
    /\ UNCHANGED next_upkeep_id

\* The call's own conditions; the target's are its own.
Executable(id) ==
    /\ id \in DOMAIN upkeeps
    /\ round >= upkeeps[id].next_execution_round
    /\ upkeeps[id].balance >= Charged(upkeeps[id], round)

\* The slot after the one served: the next one, or under SKIP_AHEAD the first
\* in the future.
NextSlot(u) ==
    u.next_execution_round + u.interval_rounds *
        (IF u.policy = SKIP_AHEAD
         THEN (round - u.next_execution_round) \div u.interval_rounds + 1
         ELSE 1)

\* Mutant: the escrow is charged the base fee, whatever is paid.
DebitBase(u) == u.fee_per_execution

Debit(u) == Charged(u, round)

Executed(id) ==
    /\ Executable(id)
    /\ upkeeps[id].target_app \notin broken
    /\ upkeeps' = [upkeeps EXCEPT ![id] = [upkeeps[id] EXCEPT
           !.next_execution_round = NextSlot(upkeeps[id]),
           !.balance = @ - Debit(upkeeps[id]),
           !.last_serviced_round = round]]
    /\ app_account' = app_account - Charged(upkeeps[id], round)
    /\ UNCHANGED next_upkeep_id

(* What the pass selects, and takes next *)

\* select_due, and its order: what pays most first, then the lowest id.
\* Mutant: only what could pay the fee at its cap.
SelectedAtCap(seen, now) ==
    {i \in DOMAIN seen :
        /\ now >= seen[i].next_execution_round
        /\ seen[i].balance >= Greater(seen[i].fee_per_execution,
                                      seen[i].fee_cap)}

Selected(seen, now) ==
    {i \in DOMAIN seen : /\ now >= seen[i].next_execution_round
                         /\ seen[i].balance >= EffectiveFee(seen[i], now)}

Before(seen, now, i, j) ==
    \/ EffectiveFee(seen[i], now) > EffectiveFee(seen[j], now)
    \/ EffectiveFee(seen[i], now) = EffectiveFee(seen[j], now) /\ i < j

First(id) ==
    /\ id \in pass.due
    /\ \A j \in pass.due \ {id} : Before(pass.seen, pass.now, id, j)

(* The registry's users, and the targets *)

KeeperTick ==
    /\ round < MaxRound
    /\ round' = round + 1
    /\ UNCHANGED <<registry, broken, pass>>

Break(t) ==
    /\ t \in Breakable \ broken
    /\ broken' = broken \cup {t}
    /\ UNCHANGED <<round, registry, pass>>

Register(a, target, interval, fee, cap, policy, funding) ==
    /\ Registered(a, target, interval, fee, cap, policy, funding)
    /\ UNCHANGED <<round, broken, pass>>

TopUp(id, amount) ==
    ToppedUp(id, amount) /\ UNCHANGED <<round, broken, pass>>

Cancel(a, id) == Cancelled(a, id) /\ UNCHANGED <<round, broken, pass>>

\* Another keeper.
Execute(id) ==
    /\ Executed(id)
    /\ pass' = IF /\ pass.at = "send"
                  /\ \E i \in pass.due :
                        First(i) /\ pass.seen[i].target_app
                                        = upkeeps[id].target_app
               THEN [pass EXCEPT !.stale = TRUE] ELSE pass
    /\ UNCHANGED <<round, broken>>

-----------------------------------------------------------------------------
(* run_keeper_once *)

\* The round, and the names of the boxes there are.  (An upkeep registered
\* between the two requests is not due yet.)
PassScan ==
    /\ pass.at = "idle"
    /\ pass' = [NoPass EXCEPT !.at = "read", !.now = round,
                              !.unread = DOMAIN upkeeps]
    /\ UNCHANGED <<round, registry, broken>>

\* In the listing's order.  A box that has gone since is an error, and ends
\* the pass.
PassRead(id) ==
    /\ pass.at = "read"
    /\ id \in pass.unread
    /\ \A j \in pass.unread : id <= j
    /\ pass' = IF id \in DOMAIN upkeeps
               THEN [pass EXCEPT !.unread = @ \ {id},
                        !.seen = [i \in DOMAIN pass.seen \cup {id} |->
                            IF i = id THEN upkeeps[id] ELSE pass.seen[i]]]
               ELSE NoPass
    /\ UNCHANGED <<round, registry, broken>>

PassSelect ==
    /\ pass.at = "read"
    /\ pass.unread = {}
    /\ LET due == Selected(pass.seen, pass.now) IN
        pass' = [pass EXCEPT !.at = "execute", !.due = due,
                             !.seen = Restrict(@, due)]
    /\ UNCHANGED <<round, registry, broken>>

Succeeds(id) == Executable(id) /\ upkeeps[id].target_app \notin broken

\* _resolve_execute_references: the call is simulated, and everything it
\* touches is named.  A simulation that fails ends the pass.
PassSimulate(id) ==
    /\ pass.at = "execute"
    /\ First(id)
    /\ pass' = IF Succeeds(id) THEN [pass EXCEPT !.at = "send", !.stale = FALSE]
                               ELSE NoPass
    /\ UNCHANGED <<round, registry, broken>>

\* A call of the target in between may have changed what the next one touches
\* (draw moves its cursor): then it is refused for want of a reference.
\* A refusal ends the pass.
PassSend(id) ==
    /\ pass.at = "send"
    /\ First(id)
    /\ \/ /\ Executed(id)
          /\ pass' = [pass EXCEPT !.at = "execute", !.due = @ \ {id},
                                  !.seen = Restrict(@, pass.due \ {id}),
                                  !.stale = FALSE]
       \/ /\ ~Succeeds(id) \/ pass.stale
          /\ pass' = NoPass
          /\ UNCHANGED registry
    /\ UNCHANGED <<round, broken>>

PassEnd ==
    /\ pass.at = "execute"
    /\ pass.due = {}
    /\ pass' = NoPass
    /\ UNCHANGED <<round, registry, broken>>

UpkeepIds == 0 .. MaxUpkeeps - 1

PassStep ==
    \/ PassScan \/ PassSelect \/ PassEnd
    \/ \E id \in UpkeepIds : PassRead(id) \/ PassSimulate(id) \/ PassSend(id)

KeeperWorld ==
    \/ KeeperTick
    \/ \E t \in Targets : Break(t)
    \/ \E a \in Registrants, t \in Targets, interval \in Intervals, fee \in Fees,
          cap \in Caps, policy \in Policies, funding \in Fundings :
            Register(a, t, interval, fee, cap, policy, funding)
    \/ \E id \in UpkeepIds, amount \in Fundings : TopUp(id, amount)
    \/ \E a \in Creators, id \in UpkeepIds : Cancel(a, id)
    \/ \E id \in UpkeepIds : Execute(id)

KeeperNext == KeeperWorld \/ PassStep

KeeperSpec == KeeperInit /\ [][KeeperNext]_keeper_vars

\* The demos and the operators' keepers run it again and again.
KeeperFairness == WF_keeper_vars(KeeperTick) /\ WF_keeper_vars(PassStep)
-----------------------------------------------------------------------------
(* Properties *)

KeeperTypeOK ==
    /\ round \in Nat \ {0} /\ next_upkeep_id \in Nat /\ app_account \in Int
    /\ DOMAIN upkeeps \subseteq 0 .. next_upkeep_id - 1
    /\ \A i \in DOMAIN upkeeps : upkeeps[i] \in Upkeep(Creators, Targets)
    /\ broken \subseteq Targets

\* What the script expects an execution to pay is what the registry charges,
\* for every upkeep in every round it can be asked about, and no more than the
\* escrow holds whenever the base fee is covered (scripts/arcron.py:257, "What
\* `execute` would pay for this upkeep right now").
FeeAsCharged ==
    \A i \in DOMAIN upkeeps : \A now \in upkeeps[i].last_serviced_round .. MaxRound :
        LET u == upkeeps[i] IN
        /\ EffectiveFee(u, now) = Charged(u, now)
        /\ u.balance >= u.fee_per_execution => u.balance >= EffectiveFee(u, now)

\* Nothing but an execution by somebody else, a cancellation or its target
\* takes an upkeep out of the keeper's reach once the pass has selected it: not
\* the rounds that pass while it works through the list, though the fee goes
\* up with them, and not a top-up.
PickedStaysDue ==
    \A i \in pass.due \cap DOMAIN upkeeps :
        upkeeps[i].next_execution_round = pass.seen[i].next_execution_round =>
            Executable(i)

\* The registry's account holds the escrow and the box of every upkeep, to the
\* last unit, and no escrow is overdrawn: each can be cancelled and paid back
\* in full.
EscrowKept ==
    /\ \A i \in DOMAIN upkeeps : upkeeps[i].balance >= 0
    /\ app_account = Total([i \in DOMAIN upkeeps |-> upkeeps[i].balance])
                       + BoxMbr * Cardinality(DOMAIN upkeeps)

\* The work does not pile up: an upkeep that could be executed is executed
\* until it no longer can be, unless there is a due upkeep whose target fails:
\* that failure ends every pass that gets to it before the others
\* (run_keeper_once lets it raise, and says so).
UpkeepServed ==
    \A id \in UpkeepIds :
        Executable(id) ~>
            \/ ~Executable(id)
            \/ \E j \in DOMAIN upkeeps :
                  Executable(j) /\ upkeeps[j].target_app \in broken
=============================================================================
