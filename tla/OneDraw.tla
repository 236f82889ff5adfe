------------------------------ MODULE OneDraw ------------------------------
(***************************************************************************)
(* scripts/rain_one_draw.py against the hub: it writes down the keys of    *)
(* fresh players, funds them, enters them into a lottery, lets it fire and *)
(* resolves it until an index other than zero comes up, checks who gained, *)
(* claims, closes the players' accounts and deletes the keys.  Every       *)
(* request and every file operation is a step of its own; the process may  *)
(* die before any of them, and is then run again.                          *)
(*                                                                         *)
(* Abstractions.  The funder can pay for a run; of what a player's account *)
(* holds, only whether it holds anything; a block's seed is any seed.      *)
(***************************************************************************)
EXTENDS Scripts, SequencesExt

CONSTANTS
    Funder,      \* the account of DEPLOYER
    KeyOrder,    \* the keys that will be made, in that order
    Lottery,     \* --rain-id
    Counts,      \* what --players may say
    Cycles,      \* --cycles
    DrawTries,   \* how often _fire calls draw
    MaxDeaths    \* how often a run dies

Keys == ToSet(KeyOrder)

ASSUME PlayersAssumption ==
    /\ KeyOrder \in Seq(Accounts) /\ Funder \in Accounts \ Keys
    /\ IsInjective(KeyOrder) /\ Lottery \in Nat \ {0}
    /\ Counts \subseteq 1 .. Len(KeyOrder) /\ Cycles \in Nat \ {0}
    /\ DrawTries \in Nat \ {0} /\ MaxDeaths \in Nat

\* A player is one of the hub's callers.
ASSUME PlayersOfferAssumption == TicketMbr + IndexMbr \in MbrPayments

VARIABLES
    keyfile,  \* the keys on file, in order; none if there is no file
    made,     \* how many keys were ever made
    funded,   \* the players whose accounts hold money
    play,     \* the local variables of the run, and where it is
    alone,    \* nobody else drew, resolved or abandoned since the run asked
              \* for its baseline
    deaths

playerVars  == <<keyfile, made, funded, play, alone, deaths>>
oneDrawVars == <<vars, playerVars>>

\* words: the keys as read and added to; count: --players; todo: the accounts
\* a loop has left; base, after: allocations asked for; left: accounts that
\* the claims are through with; late: those of them credited since.
NoPlay == [at |-> "idle", words |-> <<>>, count |-> 0, todo |-> <<>>,
         base |-> <<>>, after |-> <<>>, cycle |-> 0, tries |-> 0, due |-> 0,
         commit |-> 0, tickets |-> 0, locked |-> 0, winner |-> Funder,
         left |-> {}, late |-> {}]

Verdicts == {"never_fired", "wrong_index", "wrong_gain"}

Players(j)  == SubSeq(j.words, 1, j.count)
Everyone(j) == <<Funder>> \o Players(j)

OneDrawInit ==
    /\ keyfile = <<>> /\ made = 0 /\ funded = {} /\ play = NoPlay
    /\ alone = FALSE /\ deaths = 0

PlayAt(step) == play.at = step
Become(j)    == play' = j
HubQuiet     == UNCHANGED <<vars, alone>>
FilesQuiet   == UNCHANGED <<keyfile, made, funded, deaths>>
-----------------------------------------------------------------------------
(* The players: main up to the deposit, _load_or_make_players *)

Begin ==
    /\ PlayAt("idle")
    /\ rains[Lottery].prize_locked = 0
    /\ \E count \in Counts :
        Become([NoPlay EXCEPT !.at = "load", !.count = count])
    /\ HubQuiet /\ FilesQuiet

\* Mutant: the keys on file are not read.
LoadFresh ==
    /\ PlayAt("load")
    /\ LET more == play.count IN
        /\ made + more <= Len(KeyOrder)
        /\ made' = made + more
        /\ Become([play EXCEPT !.at = "truncate",
               !.words = SubSeq(KeyOrder, made + 1, made + more)])
    /\ HubQuiet /\ UNCHANGED <<keyfile, funded, deaths>>

Load ==
    /\ PlayAt("load")
    /\ LET more == IF play.count > Len(keyfile) THEN play.count - Len(keyfile) ELSE 0
       IN /\ made + more <= Len(KeyOrder)
          /\ made' = made + more
          /\ Become([play EXCEPT !.at = "truncate",
                 !.words = keyfile \o SubSeq(KeyOrder, made + 1, made + more)])
    /\ HubQuiet /\ UNCHANGED <<keyfile, funded, deaths>>

\* write_text empties the file before it writes it.
Truncate ==
    /\ PlayAt("truncate")
    /\ keyfile' = <<>>
    /\ Become([play EXCEPT !.at = "write"])
    /\ HubQuiet /\ UNCHANGED <<made, funded, deaths>>

WriteKeys ==
    /\ PlayAt("write")
    /\ keyfile' = play.words
    /\ Become([play EXCEPT !.at = "fund", !.todo = Players(play)])
    /\ HubQuiet /\ UNCHANGED <<made, funded, deaths>>

Fund ==
    /\ PlayAt("fund")
    /\ funded' = funded \cup {Head(play.todo)}
    /\ Become([play EXCEPT !.at = "enter"])
    /\ HubQuiet /\ UNCHANGED <<keyfile, made, deaths>>

NextPlayer ==
    Become([play EXCEPT !.todo = Tail(@),
                       !.at = IF Len(play.todo) = 1 THEN "deposit" ELSE "fund"])

\* A ticket of an earlier run is good: "Already entered".
EnterPlayer ==
    /\ PlayAt("enter")
    /\ NextPlayer
    /\ \/ Enter(Head(play.todo), Lottery, TicketMbr + IndexMbr)
       \/ Head(play.todo) \in Holders(Lottery) /\ UNCHANGED vars
    /\ FilesQuiet /\ UNCHANGED alone

FillPot ==
    /\ PlayAt("deposit")
    /\ \E amount \in Amounts : Deposit(Lottery, amount)
    /\ alone' = TRUE
    /\ Become([play EXCEPT !.at = "baseline", !.todo = Everyone(play)])
    /\ FilesQuiet

-----------------------------------------------------------------------------
(* The draws: the loop over cycles, _fire, check_allocations *)

\* Allocations are asked for one by one; seen collects them.
Asked(seen) ==
    [who \in DOMAIN seen \cup {Head(play.todo)} |->
        IF who = Head(play.todo) THEN AllocationOf(Lottery, who) ELSE seen[who]]

Ask ==
    /\ \/ /\ PlayAt("baseline")
          /\ Become([play EXCEPT !.base = Asked(@), !.todo = Tail(@),
                 !.at = IF Len(play.todo) = 1 THEN "cycle" ELSE "baseline"])
       \/ /\ PlayAt("after")
          /\ Become([play EXCEPT !.after = Asked(@), !.todo = Tail(@),
                 !.at = IF Len(play.todo) = 1 THEN "check" ELSE "after"])
    /\ HubQuiet /\ FilesQuiet

ToClaims(j) == [j EXCEPT !.at = "owed", !.todo = Everyone(j), !.base = <<>>,
                         !.after = <<>>, !.due = 0]

ReadTerms ==
    /\ PlayAt("cycle")
    /\ LET rec == rains[Lottery] IN
        Become(IF play.cycle = Cycles \/ rec.pot < rec.drip
               THEN ToClaims(play)
               ELSE [play EXCEPT !.at = "draw", !.cycle = @ + 1, !.tries = 0,
                         !.due = rec.last_rain_round + rec.interval_rounds])
    /\ HubQuiet /\ FilesQuiet

DrawLottery ==
    /\ PlayAt("draw")
    /\ play.tries = 0 => Reached(play.due)
    /\ Draw
    /\ Become([play EXCEPT !.at = "fired", !.tries = @ + 1])
    /\ FilesQuiet /\ UNCHANGED alone

ReadFired ==
    /\ PlayAt("fired")
    /\ LET rec == rains[Lottery] IN
        Become(IF rec.prize_locked > 0
               THEN [play EXCEPT !.at = "resolve", !.due = 0, !.tries = 0,
                         !.commit = rec.commit_round,
                         !.tickets = rec.tickets, !.locked = rec.prize_locked]
               ELSE [play EXCEPT !.at = IF play.tries = DrawTries
                                       THEN "never_fired" ELSE "draw"])
    /\ HubQuiet /\ FilesQuiet

\* The index expected from the seed is the one returned if the draw resolved
\* is the one that was read; of another draw it may or may not be.
ResolveLottery ==
    /\ PlayAt("resolve")
    /\ Reached(play.commit + 1)
    /\ Resolve(Lottery)
    /\ \E who \in Holders(Lottery) :
        /\ AllocationOf(Lottery, who)' > AllocationOf(Lottery, who)
        /\ \/ Become([play EXCEPT !.at = "after", !.winner = who,
                          !.todo = Everyone(play)])
           \/ /\ \/ rains[Lottery].commit_round # play.commit
                 \/ rains[Lottery].tickets # play.tickets
              /\ Become([play EXCEPT !.at = "wrong_index"])
    /\ FilesQuiet /\ UNCHANGED alone

Gain(who, seen, base) ==
    seen[who] - (IF who \in DOMAIN base THEN base[who] ELSE 0)

\* Mutant: what each has, not what each gained, as the first version did.
GainsRightAbsolute(j) ==
    /\ j.winner \in DOMAIN j.after /\ j.after[j.winner] = j.locked
    /\ \A who \in DOMAIN j.after \ {j.winner} : j.after[who] = 0

GainsRight(j) ==
    /\ j.winner \in DOMAIN j.after
    /\ Gain(j.winner, j.after, j.base) = j.locked
    /\ \A who \in DOMAIN j.after \ {j.winner} : Gain(who, j.after, j.base) = 0

\* A non-zero index ends the loop.
Check ==
    /\ PlayAt("check")
    /\ Become(IF ~GainsRight(play) THEN [play EXCEPT !.at = "wrong_gain"]
              ELSE IF indexes[<<Lottery, 0>>] # play.winner THEN ToClaims(play)
              ELSE [play EXCEPT !.at = "cycle", !.base = play.after,
                               !.after = <<>>])
    /\ HubQuiet /\ FilesQuiet

-----------------------------------------------------------------------------
(* The end: claims, closes, and the keys deleted *)

\* todo is what is left of one loop or the other.
NextClaim(j) ==
    LET rest == Tail(j.todo) IN
    IF rest = <<>>
    THEN [j EXCEPT !.at = "close", !.todo = Players(j)]
    ELSE [j EXCEPT !.at = "owed", !.todo = rest]

Leaves(j, who) == [j EXCEPT !.left = @ \cup {who}]

AskOwed ==
    /\ PlayAt("owed")
    /\ Become(IF AllocationOf(Lottery, Head(play.todo)) = 0
              THEN NextClaim(Leaves(play, Head(play.todo)))
              ELSE [play EXCEPT !.at = "claim"])
    /\ HubQuiet /\ FilesQuiet

ClaimOwed ==
    /\ PlayAt("claim")
    /\ Claim(Head(play.todo), Lottery)
    /\ Become(NextClaim(Leaves(play, Head(play.todo))))
    /\ FilesQuiet /\ UNCHANGED alone

Close ==
    /\ PlayAt("close")
    /\ funded' = funded \ {Head(play.todo)}
    /\ Become([play EXCEPT !.todo = Tail(@),
                          !.at = IF Len(play.todo) = 1 THEN "unlink" ELSE "close"])
    /\ HubQuiet /\ UNCHANGED <<keyfile, made, deaths>>

Unlink ==
    /\ PlayAt("unlink")
    /\ keyfile' = <<>>
    /\ Become(NoPlay)
    /\ HubQuiet /\ UNCHANGED <<made, funded, deaths>>

\* A verdict ends the run, and so does a call the hub refuses: somebody else
\* resolved, or let the window pass and a draw be open when a player enters.
PlayRefused ==
    /\ \/ play.at \in Verdicts
       \/ PlayAt("enter") /\ Head(play.todo) \notin Holders(Lottery)
                      /\ ~EntryOpen(rains[Lottery])
       \/ PlayAt("resolve") /\ Reached(play.commit + 1) /\ ResolveRefused(Lottery)
    /\ Become(NoPlay)
    /\ HubQuiet /\ FilesQuiet

Dies ==
    /\ deaths < MaxDeaths
    /\ ~PlayAt("idle")
    /\ Become(NoPlay)
    /\ deaths' = deaths + 1
    /\ HubQuiet /\ UNCHANGED <<keyfile, made, funded>>

Script ==
    \/ Begin \/ Load \/ Truncate \/ WriteKeys \/ Fund \/ EnterPlayer \/ FillPot
    \/ Ask \/ ReadTerms \/ DrawLottery \/ ReadFired \/ ResolveLottery \/ Check
    \/ AskOwed \/ ClaimOwed \/ Close \/ Unlink \/ PlayRefused \/ Dies

-----------------------------------------------------------------------------
(* Everybody else, on this rain and around it *)

Others == Accounts \ (Keys \cup {Funder})

Credited == {who \in Accounts :
                AllocationOf(Lottery, who)' > AllocationOf(Lottery, who)}

Else ==
    /\ \/ Tick /\ UNCHANGED alone
       \/ /\ \E a \in Others, mbr \in MbrPayments :
                 Enter(a, Lottery, mbr) \/ Claim(a, Lottery)
          /\ UNCHANGED alone
       \/ (Draw \/ Resolve(Lottery) \/ Abandon(Lottery)) /\ alone' = FALSE
    /\ Become([play EXCEPT !.late = @ \cup (play.left \cap Credited)])
    /\ FilesQuiet

OneDrawNext == Script \/ Else

\* What it finds: any hub with a rain of that id, and it is a lottery whose
\* terms were validated.
OneDrawFound ==
    /\ TypeOK /\ TicketsInStep /\ SeatsMatch
    /\ next_rain_id \in Lottery .. MaxRains
    /\ rains[Lottery].mode = ONE /\ rains[Lottery].drip > 0

OneDrawSpec ==
    OneDrawFound /\ OneDrawInit /\ [][OneDrawNext]_oneDrawVars
-----------------------------------------------------------------------------
(* Properties *)

\* A key goes off the file only when there is nothing left to fetch with it:
\* its account is closed, and the hub owes it nothing but what fell to it
\* after the run's claims.  Two ways of losing one the script leaves open: it
\* dies while it rewrites the file, or is run for fewer players than are on it
\* (rain_one_draw.py:137, "they have to outlive a traceback").
KeysOutliveMoney ==
    [][\A k \in ToSet(keyfile) \ ToSet(keyfile') :
         \/ PlayAt("truncate") /\ k \in ToSet(play.words)
         \/ PlayAt("unlink") /\ k \notin ToSet(Players(play))
         \/ /\ k \notin funded
            /\ AllocationOf(Lottery, k) > 0 => k \in play.late]_oneDrawVars

\* The script finds fault with the hub (no drop after four draws, an index
\* that is not the seed's, a gain that is not the winner's) only if somebody
\* else drew, resolved or abandoned meanwhile, or the winner is none of its
\* own accounts, so that it asked for nobody's gain; or the hub has more rains
\* than four draws visit.
VerdictTrue ==
    play.at \in Verdicts =>
        \/ ~alone
        \/ PlayAt("wrong_gain") /\ play.winner \notin ToSet(Everyone(play))
        \/ PlayAt("never_fired") /\ DrawTries * DrawScan < next_rain_id
=============================================================================
