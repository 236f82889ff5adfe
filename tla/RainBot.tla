------------------------------ MODULE RainBot ------------------------------
(***************************************************************************)
(* Runs of the rain bot (scripts/rain_bot.py) against the hub.  A pass     *)
(* over the rains is a series of reads, transactions and file operations,  *)
(* each a step of its own: the hub, its other callers and other runs of    *)
(* the bot move in between.  All runs sign as one account and share one    *)
(* pending file.                                                           *)
(*                                                                         *)
(* A transaction that the hub refuses raises out of the pass, and so does  *)
(* a node that stays away; the process then starts over or is started      *)
(* again.  Either way the pass's local variables are gone, so an exception *)
(* and a crash are one action, Fail.                                       *)
(***************************************************************************)
EXTENDS Rain

CONSTANTS
    Bot,        \* the account the bot signs with
    Runs,       \* the runs of the bot that may overlap
    Float,      \* ALGO of its own that the account can spend
    MaxFails,   \* how many passes die
    NoRec       \* a rain not read yet

ASSUME BotAssumption ==
    Bot \in Accounts /\ Float \in Nat /\ Float <= Supply /\ MaxFails \in Nat

VARIABLES
    job,     \* job[p]: the local variables of a run, and where it is
    file,    \* what _read_pending makes of the pending file: <<amount, rain>>
    taken,   \* taken[r]: what the bot's claims on r brought it, less what
             \* its deposits put back
    fails

botVars == <<job, file, taken, fails>>
allVars == <<vars, botVars>>

\* current and last: the round and the number of rains a pass began with; rec:
\* the rain as last read, kept until the ticket has been read with it; amount:
\* what was claimed or is on file.
Idle == [at |-> "idle", current |-> 0, last |-> 0, rain |-> 0,
         rec |-> NoRec, amount |-> 0]

\* No file, or one that cannot be read.
NoFile == <<0, 0>>

BotInit ==
    /\ Init
    /\ job = [p \in Runs |-> Idle]
    /\ file = NoFile
    /\ taken = [r \in RainIds |-> 0]
    /\ fails = 0

-----------------------------------------------------------------------------
(* What the bot computes *)

Floored(n) == IF n > 0 THEN n ELSE 0

\* allocation(rain, ticket), from two reads that may be of different rounds.
\* Mutant: every rain read as a SPLIT one.
MirrorSplit(rec, t) == Floored(rec.cumulative - t.credit)

Mirror(rec, t) ==
    IF rec.mode = SPLIT THEN Floored(rec.cumulative - t.credit)
    ELSE t.credit + IF Unsettled(rec, t) THEN rec.last_share ELSE 0

BotOwed(rec, r) ==
    IF <<r, Bot>> \in DOMAIN tickets
    THEN Mirror(rec, tickets[<<r, Bot>>])
    ELSE 0

\* What is done first about a rain just read, in a pass begun at a round.
\* Mutant: the beacon's longer window instead of the seed's.
FirstStepBeacon(rec, current) ==
    IF rec.mode # ONE \/ rec.prize_locked = 0 THEN "ticket"
    ELSE IF current > rec.commit_round + SeedWindow + 1 THEN "abandon"
    ELSE IF current > rec.commit_round THEN "resolve"
    ELSE "reread"

FirstStep(rec, current) ==
    IF rec.mode # ONE \/ rec.prize_locked = 0 THEN "ticket"
    ELSE IF current > rec.commit_round + SeedWindow THEN "abandon"
    ELSE IF current > rec.commit_round THEN "resolve"
    ELSE "reread"

\* Every denomination of these rains is ALGO, and there is Supply of it.
Wallet ==
    Float + Total([r \in {x \in RainIds : taken[x] > 0} |-> taken[r]])
          - Total([r \in {x \in RainIds : taken[x] < 0} |-> -taken[r]])

-----------------------------------------------------------------------------
(* One pass *)

At(p, step) == job[p].at = step

Go(p, step) == job' = [job EXCEPT ![p].at = step]

\* The next rain of the pass, or its end.
NextJob(j, r) ==
    IF r > j.last THEN Idle
    ELSE [j EXCEPT !.at = "rain", !.rain = r, !.rec = NoRec, !.amount = 0]

NextRain(p) == job' = [job EXCEPT ![p] = NextJob(@, @.rain + 1)]

Quiet == UNCHANGED <<vars, file, taken, fails>>

\* The node's last round is the one before that in which a call sent now runs.
StartPass(p) ==
    /\ At(p, "idle")
    /\ job' = [job EXCEPT ![p] = [Idle EXCEPT !.at = "pending",
                                              !.current = round - 1]]
    /\ Quiet

ReadPending(p) ==
    /\ At(p, "pending")
    /\ job' = [job EXCEPT ![p] =
           IF file[1] > 0 /\ file[2] > 0
           THEN [@ EXCEPT !.at = "redeposit", !.amount = file[1],
                          !.rain = file[2]]
           ELSE [@ EXCEPT !.at = "list"]]
    /\ Quiet

\* deposit, signed by the bot and paid from its account.
PutBack(p, step, then) ==
    /\ At(p, step)
    /\ Wallet >= job[p].amount
    /\ Deposit(job[p].rain, job[p].amount)
    /\ taken' = [taken EXCEPT ![job[p].rain] = @ - job[p].amount]
    /\ Go(p, then)
    /\ UNCHANGED <<file, fails>>

Forget(p) ==
    /\ At(p, "forget")
    /\ file' = NoFile
    /\ Go(p, "list")
    /\ UNCHANGED <<vars, taken, fails>>

ListRains(p) ==
    /\ At(p, "list")
    /\ job' = [job EXCEPT ![p] = NextJob([@ EXCEPT !.last = next_rain_id], 1)]
    /\ Quiet

ReadRain(p) ==
    /\ At(p, "rain")
    /\ LET rec == rains[job[p].rain]
           first == FirstStep(rec, job[p].current)
       IN job' = [job EXCEPT
              ![p].rec = IF first = "ticket" THEN rec ELSE NoRec,
              ![p].at = first]
    /\ Quiet

ResolveDraw(p) ==
    /\ At(p, "resolve")
    /\ Resolve(job[p].rain)
    /\ Go(p, "reread")
    /\ UNCHANGED <<file, taken, fails>>

AbandonDraw(p) ==
    /\ At(p, "abandon")
    /\ Abandon(job[p].rain)
    /\ Go(p, "reread")
    /\ UNCHANGED <<file, taken, fails>>

Reread(p) ==
    /\ At(p, "reread")
    /\ job' = [job EXCEPT ![p].rec = rains[job[p].rain], ![p].at = "ticket"]
    /\ Quiet

ReadTicket(p) ==
    /\ At(p, "ticket")
    /\ LET rec == job[p].rec IN
        IF BotOwed(rec, job[p].rain) > 0 /\ rec.prize_asset = Algo
        THEN job' = [job EXCEPT ![p].at = "claim", ![p].rec = NoRec]
        ELSE NextRain(p)
    /\ Quiet

\* claim with gate_asset 0: nothing but an open gate lets it through.
ClaimPasses(r) ==
    AllocationOf(r, Bot) > 0 => rains[r].gate_creator = NoGate

ClaimPrize(p) ==
    /\ At(p, "claim")
    /\ LET r == job[p].rain
           claimed == AllocationOf(r, Bot)
       IN /\ ClaimPasses(r)
          /\ Claim(Bot, r)
          /\ IF claimed > 0
             THEN /\ taken' = [taken EXCEPT ![r] = @ + claimed]
                  /\ job' = [job EXCEPT ![p].at = "record", ![p].amount = claimed]
             ELSE NextRain(p) /\ UNCHANGED taken
    /\ UNCHANGED <<file, fails>>

\* write_text empties the file before it writes it.
\* Mutant: the deposit goes out with nothing on file.
RecordSkipped(p) ==
    /\ At(p, "record")
    /\ Go(p, "deposit")
    /\ Quiet

Record(p) ==
    /\ At(p, "record")
    /\ file' = NoFile
    /\ Go(p, "write")
    /\ UNCHANGED <<vars, taken, fails>>

Write(p) ==
    /\ At(p, "write")
    /\ file' = <<job[p].amount, job[p].rain>>
    /\ Go(p, "deposit")
    /\ UNCHANGED <<vars, taken, fails>>

Clear(p) ==
    /\ At(p, "clear")
    /\ file' = NoFile
    /\ NextRain(p)
    /\ UNCHANGED <<vars, taken, fails>>

InWindow(rec)   == /\ round > rec.commit_round
                   /\ round <= rec.commit_round + SeedWindow
PastWindow(rec) == round > rec.commit_round + SeedWindow

\* A call that the hub or the node refuses ends the pass.
Refused(p) ==
    /\ LET r == job[p].rain IN
        \/ At(p, "resolve") /\ ~(DrawOpen(r) /\ InWindow(rains[r]))
        \/ At(p, "abandon") /\ ~(DrawOpen(r) /\ PastWindow(rains[r]))
        \/ At(p, "claim") /\ ~ClaimPasses(r)
        \/ At(p, "redeposit") /\ Wallet < job[p].amount
        \/ At(p, "deposit") /\ Wallet < job[p].amount
    /\ job' = [job EXCEPT ![p] = Idle]
    /\ Quiet

Fail(p) ==
    /\ fails < MaxFails
    /\ ~At(p, "idle")
    /\ job' = [job EXCEPT ![p] = Idle]
    /\ fails' = fails + 1
    /\ UNCHANGED <<vars, file, taken>>

BotStep(p) ==
    \/ StartPass(p) \/ ReadPending(p) \/ Forget(p) \/ ListRains(p)
    \/ PutBack(p, "redeposit", "forget")
    \/ ReadRain(p) \/ ResolveDraw(p) \/ AbandonDraw(p) \/ Reread(p)
    \/ ReadTicket(p) \/ ClaimPrize(p) \/ Record(p) \/ Write(p)
    \/ PutBack(p, "deposit", "clear")
    \/ Clear(p) \/ Refused(p)

-----------------------------------------------------------------------------
(* Everybody else.  The bot's account enters rains like any other, and makes *)
(* no claim but the bot's.  Whose a rain is makes no difference to the bot.  *)

Given(r, amount) ==
    /\ Total(held) + Wallet + amount <= Supply
    /\ Deposit(r, amount)

\* The clock stops at MaxRound: the last draw leaves time for its window to
\* close, and for a pass begun after that.
LastDraw == MaxRound - CommitDelay - SeedWindow - 2

World ==
    /\ \/ Tick
       \/ round <= LastDraw /\ Draw
       \/ \E a \in Accounts \cup {HubCreator}, mbr \in MbrPayments :
               Bootstrap(a, mbr)
       \/ \E gate \in Gates \cup {NoGate}, drip \in Drips,
             interval \in Intervals, mode \in Modes, cap \in WaveCaps,
             mbr \in MbrPayments :
               CreateRain(Bot, gate, Algo, drip, interval, mode, cap, mbr)
       \/ \E a \in Accounts, r \in RainIds, mbr \in MbrPayments :
               Enter(a, r, mbr) \/ Gm(a, r)
       \/ \E a \in Accounts \ {Bot}, r \in RainIds : Claim(a, r)
       \/ \E r \in RainIds, amount \in Amounts : Given(r, amount)
       \/ \E r \in RainIds : Resolve(r) \/ Abandon(r)
    /\ UNCHANGED botVars

BotNext == World \/ \E p \in Runs : BotStep(p) \/ Fail(p)

BotSpec == BotInit /\ [][BotNext]_allVars

\* Blocks pass, and the bot is kept running.  Nobody else need close a draw.
BotFairness ==
    /\ WF_allVars(Tick /\ UNCHANGED botVars)
    /\ \A p \in Runs : WF_allVars(BotStep(p))

FairBotSpec == BotSpec /\ BotFairness
-----------------------------------------------------------------------------
(* Properties *)

\* The runs at one of these steps for this rain, and what they hold for it.
AtSteps(r, steps) == {p \in Runs : job[p].at \in steps /\ job[p].rain = r}
Amount(r, steps)  == Total([p \in AtSteps(r, steps) |-> job[p].amount])

\* What the bot has of a rain's money and no run or record will put back; or,
\* below zero, what it put back that it never had.
Astray(r) ==
    taken[r] - Amount(r, {"record", "write"})
             - (IF file[2] = r THEN file[1] ELSE 0)
             + Amount(r, {"forget", "clear"})

\* A lone bot keeps its books for each rain: what it claims it deposits again,
\* into the same rain and once, except where a pass dies between a claim and
\* its record, or between a deposit and the end of its record.
BooksKept ==
    [][\A r \in RainIds :
         Astray(r)' # Astray(r) =>
            /\ fails' = fails + 1
            /\ AtSteps(r, {"record", "write", "forget", "clear"}) # {}]_allVars

\* While no pass is under way, what the bot has of a rain's money is on file
\* for the next one (specs/rain/testing.md:11).
NothingStranded ==
    (\A p \in Runs : At(p, "idle")) =>
        \A r \in RainIds : taken[r] > 0 => file = <<taken[r], r>>

\* However many runs overlap, the bot pays into a rain no more than it took
\* out of it (the module's docstring, rain_bot.py:44-45).
NothingPaidTwice == \A r \in RainIds : taken[r] >= 0

\* What falls to the bot it claims, on every rain, as long as it is kept
\* running (rain 1 of the docstring, on which nothing ever did).
PrizesClaimed ==
    \A r \in RainIds : AllocationOf(r, Bot) > 0 ~> AllocationOf(r, Bot) = 0
=============================================================================
