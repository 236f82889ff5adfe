----------------------------- MODULE LiveProof -----------------------------
(***************************************************************************)
(* scripts/rain_testnet_live_proof.py against the hub: it fills and enters *)
(* the two daily rains, opens a lottery and a rain of a fresh asset with a *)
(* short interval, lets them fire and claims; then it shortens each daily  *)
(* rain's interval, fires it, claims and restores the interval.  A run may *)
(* die before any of its requests, and is then started again.              *)
(*                                                                         *)
(* Abstractions.  The deployer can pay for a run (_top_up_deployer is left *)
(* out).  The daily rains are 1 and 2, as in the code.                     *)
(***************************************************************************)
EXTENDS Scripts

CONSTANTS
    Prover,          \* the account of DEPLOYER, which opened the daily rains
    Minter,          \* who minted the gate's token
    Minted,          \* the assets that runs may mint
    DailyInterval, DailyDrip, ShortDrip, Fill,
    MaxProofDeaths   \* how often a run dies

ASSUME ProofAssumption ==
    /\ Prover \in Accounts /\ Minted \subseteq Clean
    /\ DailyInterval \in MinInterval .. MaxInterval
    /\ DailyDrip \in Nat \ {0} /\ ShortDrip \in Nat \ {0}
    /\ Fill \in Nat \ {0} /\ MaxProofDeaths \in Nat

\* The prover is one of the hub's callers.
ASSUME ProofOffersAssumption ==
    /\ {SPLIT, ONE} \subseteq Modes /\ 0 \in WaveCaps /\ Minter \in Gates
    /\ {DailyDrip, ShortDrip} \subseteq Drips /\ Fill \in Amounts
    /\ {MinInterval, DailyInterval} \subseteq Intervals
    /\ {AssetOptInMbr, RainBoxMbr, TicketMbr, TicketMbr + IndexMbr}
            \subseteq MbrPayments

VARIABLES
    proof,         \* the local variables of the run, and where it is
    left_short,    \* the daily rains a run died on between shortening and
                   \* restoring them
    paid,          \* the rains that ever paid the prover
    forgone,       \* those of which a drop fell on others alone, or was taken
                   \* back before it was claimed, or fell before the first run
    passed,        \* the rains of the runs that have said that the proof
                   \* passed, each with what it was taken for
    proof_deaths

ledger    == <<left_short, paid, forgone, passed, proof_deaths>>
proofVars == <<proof, ledger>>

\* daily: the rain of a step that is taken for 1 and 2 in turn; one, asa: the
\* short rains; fired: the lottery had fired when it was last read; until: the
\* round waited for; failing: an exception is on its way out of the try.
NoProof == [at |-> "idle", daily |-> 1, one |-> 0, asa |-> 0, prize |-> Algo,
            fired |-> FALSE, until |-> 0, failing |-> FALSE]

\* A drop of it has fallen, and none is held back.
Fallen(r) == rains[r].draw_id > 0 /\ rains[r].prize_locked = 0

ProofInit ==
    /\ proof = NoProof /\ left_short = {} /\ paid = {}
    /\ forgone = {r \in DOMAIN rains : Fallen(r)}
    /\ passed = {} /\ proof_deaths = 0

ProofAt(step) == proof.at = step
Proceed(step) == proof' = [proof EXCEPT !.at = step]
ProofQuiet    == UNCHANGED ledger

\* The same step for the other daily rain, or the next one.
NextDaily(again, after) ==
    proof' = IF proof.daily = 1 THEN [proof EXCEPT !.at = again, !.daily = 2]
                                ELSE [proof EXCEPT !.at = after, !.daily = 1]

Waited == Reached(proof.until)

-----------------------------------------------------------------------------
(* main, up to the short rains *)

ProofBegins ==
    /\ ProofAt("idle")
    /\ Proceed("look")
    /\ UNCHANGED vars /\ ProofQuiet

LookAtPot ==
    /\ ProofAt("look")
    /\ IF rains[proof.daily].pot < Fill THEN Proceed("fill")
                                        ELSE NextDaily("look", "join")
    /\ UNCHANGED vars /\ ProofQuiet

FillDaily ==
    /\ ProofAt("fill")
    /\ Deposit(proof.daily, Fill)
    /\ NextDaily("look", "join")
    /\ ProofQuiet

\* _enter: it pays for the mode it is told; "Already entered" will do.
JoinMbr(mode) == IF mode = ONE THEN TicketMbr + IndexMbr ELSE TicketMbr

Joins(r, mode) ==
    \/ Enter(Prover, r, JoinMbr(mode))
    \/ <<r, Prover>> \in DOMAIN tickets /\ UNCHANGED vars

JoinDaily ==
    /\ ProofAt("join")
    /\ Joins(proof.daily, IF proof.daily = 1 THEN SPLIT ELSE WAVE)
    /\ NextDaily("join", "count")
    /\ ProofQuiet

\* Four rains or more: 3 and 4 are taken for the short ones.
CountRains ==
    /\ ProofAt("count")
    /\ proof' = IF next_rain_id >= 4
                THEN [proof EXCEPT !.at = "join_one", !.one = 3, !.asa = 4,
                                   !.prize = rains[4].prize_asset]
                ELSE [proof EXCEPT !.at = "mint"]
    /\ UNCHANGED vars /\ ProofQuiet

Mint ==
    /\ ProofAt("mint")
    /\ \E x \in Minted :
        /\ holding[x][Prover] = "out"
        /\ Trade(Prover, x, "some")
        /\ proof' = [proof EXCEPT !.at = "opt_in", !.prize = x]
    /\ ProofQuiet

OptIn ==
    /\ ProofAt("opt_in")
    /\ OptInPrizeAsset(proof.prize, AssetOptInMbr)
    /\ Proceed("open_one")
    /\ ProofQuiet

OpenOne ==
    /\ ProofAt("open_one")
    /\ CreateRain(Prover, NoGate, Algo, DailyDrip, MinInterval, ONE, 0,
                  RainBoxMbr)
    /\ proof' = [proof EXCEPT !.at = "open_asa", !.one = next_rain_id']
    /\ ProofQuiet

OpenAsa ==
    /\ ProofAt("open_asa")
    /\ CreateRain(Prover, Minter, proof.prize, ShortDrip, MinInterval, SPLIT,
                  0, RainBoxMbr)
    /\ proof' = [proof EXCEPT !.at = "fill_one", !.asa = next_rain_id']
    /\ ProofQuiet

FillShort(step, r, then) ==
    /\ ProofAt(step)
    /\ Deposit(r, Fill)
    /\ proof' = [proof EXCEPT !.at = then, !.until = round + MinInterval]
    /\ ProofQuiet

JoinShort(step, r, mode, then) ==
    /\ ProofAt(step)
    /\ Waited
    /\ Joins(r, mode)
    /\ proof' = [proof EXCEPT !.at = then, !.until = 0]
    /\ ProofQuiet

-----------------------------------------------------------------------------
(* main, the short rains *)

LookAtShort ==
    /\ ProofAt("look_short")
    /\ Proceed(IF \/ rains[proof.asa].draw_id = 0
                  \/ rains[proof.one].draw_id = 0
                  \/ rains[proof.one].prize_locked > 0
               THEN "draw_short" ELSE "asa_owed")
    /\ UNCHANGED vars /\ ProofQuiet

\* The rains whose drop in this step falls on others alone, and those that take
\* back what the prover has not claimed or a prize nobody has won.
GoneElsewhere ==
    {r \in DOMAIN rains :
        \/ AllocationOf(r, Prover)' < AllocationOf(r, Prover)
        \/ /\ AllocationOf(r, Prover)' = AllocationOf(r, Prover)
           /\ \/ /\ rains[r].mode # ONE
                 /\ rains'[r].draw_id # rains[r].draw_id
              \/ rains[r].prize_locked > 0 /\ rains'[r].prize_locked = 0}

\* The hub closes a draw or opens one.
Falls ==
    /\ forgone' = forgone \cup GoneElsewhere
    /\ UNCHANGED <<left_short, paid, passed, proof_deaths>>

ProofDraw(step, then) ==
    /\ ProofAt(step)
    /\ Draw
    /\ Proceed(then)
    /\ Falls

Owed(r) == AllocationOf(r, Prover)

LookAtAsa ==
    /\ ProofAt("asa_owed")
    /\ Proceed(IF Owed(proof.asa) > 0 THEN "claim_asa" ELSE "asa_fired")
    /\ UNCHANGED vars /\ ProofQuiet

\* Nothing owed by a rain that never fired ends the run.
\* Mutant: nothing owed is nothing wrong.
LookIfFiredNot ==
    /\ ProofAt("asa_fired")
    /\ Proceed("look_one")
    /\ UNCHANGED vars /\ ProofQuiet

LookIfFired ==
    /\ ProofAt("asa_fired")
    /\ Proceed(IF rains[proof.asa].draw_id = 0 THEN "fails" ELSE "look_one")
    /\ UNCHANGED vars /\ ProofQuiet

\* _claim; a claim that the hub refuses is for ProofRefused.
Pays(r) ==
    /\ Claim(Prover, r)
    /\ paid' = IF Owed(r) > 0 THEN paid \cup {r} ELSE paid
    /\ UNCHANGED <<left_short, forgone, passed, proof_deaths>>

ProofClaim(step, r, then) ==
    /\ ProofAt(step)
    /\ Pays(r)
    /\ Proceed(then)

\* The lottery is read, and once more after a draw of its own.
LookAtOne(step) ==
    /\ ProofAt(step)
    /\ LET rec == rains[proof.one] IN
        proof' = [proof EXCEPT
            !.fired = rec.draw_id > 0,
            !.until = IF rec.prize_locked > 0 THEN rec.commit_round + 1 ELSE 0,
            !.at = IF rec.prize_locked > 0 THEN "resolve"
                   ELSE IF step = "look_one" /\ rec.draw_id = 0
                            /\ Owed(proof.one) = 0 THEN "draw_one"
                   ELSE "one_owed"]
    /\ UNCHANGED vars /\ ProofQuiet

ProofResolve ==
    /\ ProofAt("resolve")
    /\ Waited
    /\ Resolve(proof.one)
    /\ proof' = [proof EXCEPT !.at = "one_owed", !.until = 0]
    /\ Falls

LookAtPrize ==
    /\ ProofAt("one_owed")
    /\ Proceed(IF Owed(proof.one) > 0 THEN "claim_one"
               ELSE IF ~proof.fired THEN "fails" ELSE "daily")
    /\ UNCHANGED vars /\ ProofQuiet

-----------------------------------------------------------------------------
(* _fire_and_claim_corvid *)

AfterDaily == NextDaily("daily", "passes")

\* A rain that has fired and owes nothing is taken to be done.
LookAtDaily ==
    /\ ProofAt("daily")
    /\ IF rains[proof.daily].draw_id > 0 /\ Owed(proof.daily) = 0
       THEN AfterDaily
       ELSE Proceed("shorten")
    /\ UNCHANGED vars /\ ProofQuiet

Shorten ==
    /\ ProofAt("shorten")
    /\ SetRain(Prover, proof.daily, DailyDrip, MinInterval)
    /\ Proceed("draw_daily")
    /\ ProofQuiet

\* A claim of nothing is an error too.
ClaimDaily ==
    /\ ProofAt("claim_daily")
    /\ Pays(proof.daily)
    /\ proof' = [proof EXCEPT !.at = "restore",
                              !.failing = Owed(proof.daily) = 0]

\* finally: whatever happened in the try.  Mutant: only after success.
RestoreOnSuccess ==
    /\ ProofAt("restore")
    /\ IF proof.failing
       THEN proof' = NoProof /\ UNCHANGED vars
       ELSE /\ SetRain(Prover, proof.daily, DailyDrip, DailyInterval)
            /\ AfterDaily
    /\ left_short' = left_short \ {proof.daily}
    /\ UNCHANGED <<paid, forgone, passed, proof_deaths>>

Restore ==
    /\ ProofAt("restore")
    /\ SetRain(Prover, proof.daily, DailyDrip, DailyInterval)
    /\ IF proof.failing THEN proof' = NoProof ELSE AfterDaily
    /\ left_short' = left_short \ {proof.daily}
    /\ UNCHANGED <<paid, forgone, passed, proof_deaths>>

ProofPasses ==
    /\ ProofAt("passes")
    /\ passed' = passed \cup {<<"daily", 1>>, <<"daily", 2>>,
                            <<"one", proof.one>>, <<"asa", proof.asa>>}
    /\ proof' = NoProof
    /\ UNCHANGED <<vars, left_short, paid, forgone, proof_deaths>>

\* The rain of the claim that is due now.
ClaimedRain == CASE ProofAt("claim_asa")  -> proof.asa
                 [] ProofAt("claim_one")  -> proof.one
                 [] OTHER                 -> proof.daily

\* A refused call raises: out of the run, or to the finally.  A claim for want
\* of the gate's token, a resolve because somebody was before or its window is
\* over, an entry for either reason.
ProofRefused ==
    /\ \/ ProofAt("fails")
       \/ /\ proof.at \in {"claim_asa", "claim_one", "claim_daily"}
          /\ Owed(ClaimedRain) > 0
          /\ ~GatePassed(rains[ClaimedRain], Prover)
       \/ ProofAt("resolve") /\ Waited /\ ResolveRefused(proof.one)
       \/ /\ proof.at \in {"join", "join_one", "join_asa"} /\ Waited
          /\ LET r == CASE ProofAt("join_one") -> proof.one
                        [] ProofAt("join_asa") -> proof.asa
                        [] OTHER               -> proof.daily
                 mode == CASE ProofAt("join_one") -> ONE
                           [] OTHER               -> SPLIT
             IN /\ <<r, Prover>> \notin DOMAIN tickets
                /\ ~/\ GatePassed(rains[r], Prover)
                    /\ EntryOpen(rains[r])
                    /\ MbrPaid(JoinMbr(mode), EnterMbr(rains[r]))
    /\ proof' = IF ProofAt("claim_daily")
                THEN [proof EXCEPT !.at = "restore", !.failing = TRUE]
                ELSE NoProof
    /\ UNCHANGED vars /\ ProofQuiet

ProofDies ==
    /\ proof_deaths < MaxProofDeaths
    /\ ~ProofAt("idle")
    /\ proof' = NoProof
    /\ left_short' = IF proof.at \in {"draw_daily", "claim_daily", "restore"}
                     THEN left_short \cup {proof.daily} ELSE left_short
    /\ proof_deaths' = proof_deaths + 1
    /\ UNCHANGED <<vars, paid, forgone, passed>>

ProofStep ==
    \/ ProofBegins \/ LookAtPot \/ FillDaily \/ JoinDaily \/ CountRains
    \/ Mint \/ OptIn \/ OpenOne \/ OpenAsa
    \/ FillShort("fill_one", proof.one, "fill_asa")
    \/ FillShort("fill_asa", proof.asa, "join_one")
    \/ JoinShort("join_one", proof.one, ONE, "join_asa")
    \/ JoinShort("join_asa", proof.asa, SPLIT, "look_short")
    \/ LookAtShort \/ ProofDraw("draw_short", "asa_owed")
    \/ LookAtAsa \/ LookIfFired
    \/ ProofClaim("claim_asa", proof.asa, "look_one")
    \/ LookAtOne("look_one") \/ ProofDraw("draw_one", "look_again")
    \/ LookAtOne("look_again")
    \/ ProofResolve \/ LookAtPrize \/ ProofClaim("claim_one", proof.one, "daily")
    \/ LookAtDaily \/ Shorten \/ ProofDraw("draw_daily", "claim_daily")
    \/ ClaimDaily \/ Restore \/ ProofPasses \/ ProofRefused \/ ProofDies

\* Everybody else: the keeper's draws, a lottery closed by hand, others who
\* enter and claim, and the prover's own dealings in the gate's token.
ProofWorld ==
    /\ \/ Tick \/ Draw
       \/ \E r \in RainIds : Resolve(r)
       \/ \E r \in RainIds : Abandon(r)
       \/ \E a \in Accounts \ {Prover}, r \in RainIds :
            Enter(a, r, TicketMbr + IndexMbr) \/ Claim(a, r)
       \/ \E x \in Assets, h \in {"empty", "some"} :
            CreatorOf[x] = Minter /\ Trade(Prover, x, h)
    /\ Falls
    /\ UNCHANGED proof

ProofNext == ProofStep \/ ProofWorld

\* What it finds: any hub whose rains 1 and 2 are its daily rains.  A prize is
\* locked in a lottery that has fired, and nowhere else.
LockFollowsDrop(rec) ==
    rec.prize_locked > 0 => rec.mode = ONE /\ rec.draw_id > 0

ProofFound ==
    /\ TypeOK /\ TicketsInStep /\ SeatsMatch
    /\ \A r \in DOMAIN rains : rains[r].drip > 0 /\ LockFollowsDrop(rains[r])
    /\ next_rain_id \in 2 .. MaxRains
    /\ \A r \in {1, 2} : /\ rains[r].creator = Prover
                          /\ rains[r].interval_rounds = DailyInterval
                          /\ rains[r].mode # ONE

ProofSpec == ProofFound /\ ProofInit /\ [][ProofNext]_<<vars, proofVars>>
-----------------------------------------------------------------------------
(* Properties *)

\* A daily rain keeps its daily interval, but while a run has shortened it:
\* whatever fails in between, the interval is restored before the run is over,
\* unless the process itself died there (rain_testnet_live_proof.py:231).  If
\* it died after its claim, no later run restores it: the rain has fired and
\* owes nothing, and is taken to be done.
CadenceKept ==
    \A r \in {1, 2} \ left_short :
        rains[r].interval_rounds # DailyInterval =>
            /\ proof.at \in {"draw_daily", "claim_daily", "restore"}
            /\ proof.daily = r

\* A proof that passed has seen it rain on the prover, on every rain it is
\* about: each has paid it, or owes it still, or a drop of it went elsewhere.
\* The rain taken for the asset's is 4, whatever it is: where a run died after
\* opening the lottery and before the asset's rain, 4 is the next run's
\* lottery, and its first drop may be locked and fall on nobody yet.
Rained(r) == r \in paid \cup forgone \/ Owed(r) > 0

PassedIfRained ==
    \A p \in passed :
        \/ Rained(p[2])
        \/ p[1] = "asa" /\ DrawOpen(p[2])
=============================================================================
