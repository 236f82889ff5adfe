# arcron-rain in TLA+

Arcron Rain is one Algorand application, the *hub*, on which anybody opens a
*rain*: a pot that pays a fixed *drip* out to its ticket holders every so many
rounds. A scheduled call, `draw`, fires the rains that are due; holders pull
what fell to them with `claim`. Around the hub are Python scripts (a bot that
closes lottery draws, a keeper client, a retry layer for rate-limited nodes,
scripts that build, deploy, verify, seed and demonstrate a hub) and a web
application with a small client library.

This directory holds TLA+ specifications of the hub contract, of the bot and the
keeper that work for it, of the scripts around it, of the node retry and of the
services behind the web page, their model-checking runs and the proofs about
them. `PROJECT.json` maps every definition to the source lines it stands for.

## The system

| part | state it keeps | operations | what is hard |
|---|---|---|---|
| hub contract, `smart_contracts/rain/contract.py` | globals `bootstrapped`, `next_rain_id`, `cursor`; a box per rain, per ticket and, for lotteries, per ticket number | set-up, `create_rain`, `set_rain`, `enter`, `gm`, `deposit(_asset)`, `draw`, `resolve`, `abandon`, `claim` | calls of many accounts in any order; money spread lazily over tickets that are only brought up to date when their holder calls; a scan that wraps around a growing list; a lottery left open between two calls |
| rain bot, `scripts/rain_bot.py` | a file with one claimed and not yet deposited amount | `scan_once`: resolve or abandon, claim, deposit back | separate transactions with crashes between them; overlapping runs; the hub changing during a pass |
| node retry, `scripts/node_retry.py` | none between calls | `retrying`, `install` | a refused request may have been forwarded |
| keeper client, `scripts/arcron.py` | none between passes | `select_due`, `effective_fee`, `run_keeper_once`, `deploy_keeper` | a list of boxes read one request at a time and worked through while others execute, top up and cancel; a second copy of the registry's fee arithmetic |
| deployment, `scripts/rain_testnet_deploy.py` | none; it looks at the chain | create, bootstrap, open and seed two rains, register or top up an upkeep | runs that die anywhere and are started again |
| `scripts/seed_wave_pot.py`, `js/src/rain.ts` | none | `shortfall`, `dropCost`, `waitingReason`, `rainsRemaining`, ... | second copies of the hub's conditions, that may go out of step |
| `scripts/rain_one_draw.py` | a file of mnemonics | enters fresh players, draws and resolves, checks who gained, claims, closes the accounts | keys that must outlive every crash; a verdict about a hub that others use too |
| `scripts/rain_testnet_live_proof.py` | none; it looks at the chain | opens short rains, shortens and restores daily ones, claims | the keeper draws between any two questions; restoring what was shortened |
| `scripts/rain_demo.py`, `community_rain_demo.py` | none | a hub from its creation to its first claims, every amount asserted | amounts to the last unit while others use the hub |
| `scripts/network.py`, `smart_contracts/__main__.py`, `scripts/verify_build.py` | environment files; the artifacts directory | connect; build, deploy, verify | configuration and files that change between two steps, shared and not locked |
| web services, `web/src/app/core/*.service.ts` | signals: network, round, rains, wallet, busy flag | `refresh`, `send`, `connect`, `disconnect`, network change | overlapping asynchronous calls whose answers come late |
| web pages, generated clients, beacon stub, `new_bot_account.py` | - | display; serialisation; a test double; one file written | - |

The parts meet only through the chain. The keeper calls `draw`; the bot calls
`resolve`, `abandon`, `claim` and `deposit`; the web application reads boxes
and sends one group of transactions per click. The AVM runs one call at a time
and undoes a call that fails, so on the hub an interleaving is an order of
whole calls; off the chain it is an order of requests.

What would make each part correct:

- hub: no money is made, lost or moved between rains; the counters in a rain
  box agree with its tickets; nobody's share is paid twice or dropped except as
  the rules say; the numbering of a lottery is complete and frozen while a draw
  is open; no lock lasts; every fireable rain is reached; no call that should
  succeed is rejected for a sum out of range or a box nobody paid for;
- rain bot: a claimed prize is deposited again exactly once; every lock is
  closed; one rain's failure does not starve the others;
- node retry: a submission lands at most once and is answered with what
  happened to it;
- mirrors (`allocation`, `shortfall`, `waitingReason`, `effective_fee`): equal
  to the contract's own;
- keeper registry and pass: the escrow of every upkeep is there; what was picked
  can be executed when its turn comes; work does not pile up;
- deployment: one upkeep a hub, and both rains open and filled when it is done;
- proof and demonstration scripts: fault is found with the hub only when the
  hub is at fault; what was changed for the proof is changed back; no key is
  lost while anything can be fetched with it;
- network and build: the chain that was asked for, the program of this tree;
- web services: the page shows the newest state of the chosen network only.

## Modules

- `Rain` - the hub: state, one action per method, fairness, properties.
- `Sums` - the sum of a function over a finite set, defined as the number of its
  units, so that facts about sums are facts about cardinalities.
- `Tills` - what depositors and ticket holders may rely on, as an abstract
  specification: a till for each rain, what is due from it to each account, and
  the four ways either changes. `Rain` implements it.
- `Standing` - extends `Rain` with what the client library and the seeding script
  say of a rain from its box, and compares it with `TryFire`.
- `MCRain` - constants for the runs, and `draw` as its loop runs it, to compare
  with `Rain`'s one-step `Draw`; `MCOneRain` one rain of any mode, `MCHub`
  several rains, or one with a gate and an asset.
- `SumsProofs` - facts about such sums: adding to one summand, to all of them,
  taking one away.
- `RainProofs`, `BoxProofs` - the theorems about the hub: its money and its
  counters; its numbering, its boxes' cost and what a step may do.
- `RainBot` - extends `Rain` with runs of the bot: `scan_once` one request, one
  transaction or one file operation at a time, with the hub's other callers in
  between.
- `MCRainBot` - constants for the bot's runs, and a hub that has been set up.
- `KeeperFee` - the fee of an execution, as the registry charges it and as the
  keeper computes it. `Keeper` - the registry, its users and a keeper's pass.
  `HubSetup` - extends `Keeper` with the deploy script. `MCSetup` - a run has
  either the script or a pass. `KeeperProofs` - their theorems.
- `Scripts` - what the scripts that drive a hub have in common. `OneDraw`,
  `LiveProof`, `Demo` - the one-draw script, the live proof and the two
  demonstrations, each on `Rain`. `MCScripts` - the three, one in each scene.
- `ClientProofs` - the theorems about the programs that read the hub or call it:
  the bot when it runs alone, the readers of `Standing`, and the scripts.
- `Network` - which chain a script talks to, and the keeper a demonstration
  makes for itself. `Release` - extends `Network` with builds, deployments and
  verifications that share one tree. `MCRelease` - a run has either connecting
  scripts or builds. `ReleaseProofs` - the theorems about both.
- `Submission` - what a caller of the node may rely on, as an abstract
  specification: a request ends done or failed, and a submission that is done
  has landed.
- `NodeRetry` - the retrying wrapper, the edge that refuses and the node behind
  it; implements `Submission`.
- `NodeRetryProofs` - the theorems about the retry.
- `RainPage` - the two services of the web page that read a node while the user
  changes the network, the rain and the account.
- `MCRainPage` - a page opened at a rain with the last session's account.
- `PageProofs` - the theorems about the page's safety.

### How `Rain` corresponds to the contract

| `Rain` | `contract.py` |
|---|---|
| `rains[r]` (`RainRec`) | the box `r` + id; field names are the source's |
| `tickets[<<r, a>>]` (`Ticket`) | the box `t` + id + account |
| `indexes[<<r, n>>]` | the box `n` + id + number (lotteries only) |
| `bootstrapped`, `next_rain_id`, `cursor` | global state |
| `opted_in`, `reserve` | assets the hub account holds; ALGO received as minimum-balance payments |
| `held[r]` | bookkeeping of the model: deposits to rain `r` less claims on it |
| `round`, `holding` | `Global.round`; what the accounts hold of each asset |
| `FireSplit`, `FireWave`, `FireOne`, `TryFire` | `_fire_split`, `_fire_wave`, `_fire_one`, `_try_fire` |
| `SettledRec`, `SettledTicket` | `_settle_wave` and `_settle` |
| `Allocation` | `allocation_of` |
| `Enter`, `Gm`, `Claim`, `Draw`, ... | the ABI method of the same name |

An action's guard is the conjunction of the method's assertions; a call that
changes no box is a stuttering step. `claim` is modelled whole: it settles, it
may owe nothing, and when it owes something the gate and the opt-in decide
whether the entire call happens or not. `Draw` fires each visited rain once.
The loop in the code fires up to `DRAW_SCAN` ids one after another and on a
small hub comes back to the same one; that these are the same is checked and
proved (`SecondVisitIsVain`, and `FireIdempotent` for one rain).

Left out: a rain's label; the `rekey_to`, `close_remainder_to` and sender
checks on payments (a payment either counts or does not); asset amounts beyond
none, zero and some; the opcode budget and box-reference limits; network fees.
The block seed of `resolve` is a free choice of number. Deposits have no
depositor: anybody may make them, and `deposit` and `deposit_asset` together
accept exactly one kind of payment for each rain.

Bounds: `MaxRound` ends the clock and `MaxRains` the number of rains; `Supply`
is the most of a denomination that can be in the hub at once, which is what
stops deposits; `MaxUint` is the largest AVM integer (2^64 - 1 on chain).

### How `RainBot` corresponds to the bot

| `RainBot` | `rain_bot.py` |
|---|---|
| `job[p]` | the local variables of one run of `scan_once` and the statement it has reached |
| `file` | what `_read_pending` makes of the pending file; a file that is missing, empty or damaged is `NoFile` |
| `taken[r]`, `fails` | bookkeeping of the model: what the bot's claims on `r` brought less what its deposits put back; passes that died |
| `StartPass` | `current = last-round`, line 352; a call sent now runs a round later, so `current = round - 1` |
| `ReadPending`, `PutBack`, `Forget` | lines 360-374, the money of an earlier pass |
| `ListRains`, `ReadRain`, `FirstStep`, `ResolveDraw`, `AbandonDraw`, `Reread` | lines 376-390 |
| `ReadTicket`, `Mirror`, `ClaimPrize` | `allocation` and lines 391-414 |
| `Record`, `Write`, `PutBack`, `Clear` | `_write_pending`, the deposit, `_clear_pending`, lines 415-420 |
| `Refused` | a call the hub rejects, or a deposit the wallet does not cover: the exception leaves `scan_once` |
| `Fail` | the process dies, or any other exception ends the pass |

Each of these steps reads or writes the hub once, and the hub's other callers
(`World`, which is `Rain`'s own actions) move between any two of them. `write_text`
empties the file before it writes, so it is two steps. The bot's wallet is not a
variable: it is `Float` and what `taken` says, and together with the hub's money
it never exceeds `Supply`. After an exception the process starts over or is
started again with all its locals gone; so an exception and a crash are the same
step, and only the number of passes that die of themselves is bounded
(`MaxFails`). A refusal is not bounded.

Left out: prizes in an asset beyond the test that skips them (every rain of the
bot's runs pays ALGO), `--no-state`, the sleep between passes, and what is
logged. The deposit's fee and the minimum balance of the bot's account are part
of `Float`.

### How `Standing` corresponds to the readers

`PayablePot`, `Count`, `DropShare`, `DropPaid`, `Waiting`, `Standing` and
`RainsRemaining` are `payablePot`, `dropCost`, `waitingReason` (whether it names
a reason), `rainStanding` and `rainsRemaining` of `js/src/rain.ts`; `Blocked`,
`Shortfall` and `SeedDeposit` are the two results of `shortfall` and the amount
`main` deposits in `seed_wave_pot.py`. They take the rain's box as it stands, so
they are checked in every state the hub reaches rather than on invented boxes.
Left out: a share that would make the accumulator overflow, which none of them
knows of.

### How `Keeper` and `HubSetup` correspond to the keeper and the deploy script

| `Keeper`, `HubSetup` | `arcron.py`, `rain_testnet_deploy.py` |
|---|---|
| `upkeeps`, `next_upkeep_id`, `app_account` | the registry's boxes, its counter and its account |
| `Registered`, `ToppedUp`, `Cancelled`, `Executed`, `Charged` | external: the vendored keeper program's methods, as `artifacts/keeper` and the callers here show them |
| `EffectiveFee`, `Selected`, `Before` | `effective_fee`, and the filter and the order of `select_due` |
| `pass`: `PassScan`, `PassRead`, `PassSelect` | `run_keeper_once`: the round, the list of boxes, each box, `select_due` |
| `PassSimulate`, `PassSend` | `_resolve_execute_references` and the execution; a failure of either ends the pass |
| `deploy`: `DeployHub` ... `DeployRegister` | one request of `main` each; `DeployList`, `DeployLookup` are `_upkeep_for_hub` |
| `DeployDies` | the process ends anywhere; the next run is given the hub's id |
| `KeeperWorld`, `StrangerOpens`, `Break` | other users of the registry and of the hub, and a target that begins to fail |

`cut` and `finished` are bookkeeping of the model. The draw that an execution
makes is that of `Rain` and does not appear here: of a target only whether its
call fails is known, and whether it was called between the simulation, which
finds the references, and the execution, which uses them (`pass.stale`). Left
out: the bonus in an asset (nothing in this repository registers one) and the
fee a keeper pays.

### How `OneDraw`, `LiveProof` and `Demo` correspond to the scripts

Each action is one request or one file operation of the script; its name says
which. The local variables are in `play`, `proof` and `demo`, an exception ends
the run (with the `finally` of the live proof as steps on the way out), and a
process may die before any step, after which the script may be started again.
`Reached(target)` in `Scripts` is `wait_for_round`. What else happens on the hub is
`Rain`'s own actions by others. A seed is any seed. `VerdictTrue` and `DemoTrue`
speak of the script's own judgements: the states `never_fired`, `wrong_index`,
`wrong_gain` and `failed` are its `raise` and `SystemExit`. Left out: how the
scripts fund the accounts they call with, beyond whether a player's account
still holds anything.

### How `Network` and `Release` correspond to connecting and building

| `Network`, `Release` | `network.py`, `__main__.py`, `verify_build.py` |
|---|---|
| `shell`, `files` | what is exported; `.env.<network>` and `.env` |
| `Start`, `Load`, `AssertNetwork` | `load_network`, `AlgorandClient.from_environment`, `assert_network` |
| `Refuses` | the refusals of MainNet and of a network with no node |
| `CreateKeeper`, `FundKeeper` | `deploy_keeper` of `arcron.py` |
| `tree`, `art`, `apps` | a contract's source, its ARC-56 file and client in `artifacts`, the applications on the chains |
| `StartMain`, `Clear`, `ReadSource`, `WriteSpec`, `BuiltOne`, `Generate`, `FindSpec`, `Deploy`, `NextContract` | `main` with `build`, `deploy` and `all` |
| `StartVerify`, `ReadLocal`, `Compare` | `verify_build.main`; its rebuild is a build |
| `EditEnv`, `EditTree`, `Deployed` | the operator, the editor, and deployments from elsewhere |

A program is told apart by contract and version of the tree. Any process may
end at any step (`Ends`, `BuildFails`, `Over`).

### How `NodeRetry` corresponds to the wrapper

| `NodeRetry` | `node_retry.py` |
|---|---|
| `call[c]` | one call of `wrapper`: its request, `attempt`, `replayed`, the error or answer at hand |
| `Recognised` | `_is_replayed_submission` and the id read out of the blob, lines 414-436 |
| `ShouldRetry`, `TriesAgain` | `_should_retry` and the test of `attempt` |
| `Return`, `Raise`, `Retry`, `Resend` | the ways out of the `try` and of one turn of the loop |
| `EdgeAnswers` | external: a 403 or 429, a 5xx or a lost connection; the edge may have passed the submission on |
| `NodeSubmits`, `NodeReads`, `Deliver`, `inflight`, `landed` | external: the node takes a transaction once, answers the same blob with a duplicate, and gets forwarded copies late or never |

The node is modelled from what the wrapper relies on (comments at
`node_retry.py:108-143` and `:404-436`). A transaction whose id cannot be read
(`Nameable`) is one the wrapper cannot answer for. Left out: the length of the
waits, the reading of status codes out of three kinds of exception (an answer is
its class), and `install`, which puts the wrapper around the clients' methods.

### How `RainPage` corresponds to the services

A step is one turn of the event loop, from one `await` to the next; between two
of them anything else may happen. What is read from a node is told apart by
where it was read and for whom, and by nothing else.

| `RainPage` | `chain.service.ts`, `rain.service.ts` |
|---|---|
| `chain` | `status`, and the networks from which `genesisId` and `round` were read |
| `probe`, `Poll`, `Answered`, `Unanswered` | `ChainService.refresh`: the one with the current `generation`, which may write, and one before it |
| `SetNetwork` | `setNetwork` |
| `genuine`, `Mismatch` | the nodes that are the chain they are listed as; `genesisMatches() === false` |
| `page` | the signals of `RainService`: `rains`, `current`, `held` (what the account holds) and `ticket` (with the allocation), with network, rain and account |
| `refresh`, `Begin`, `ReadRains`, `Select`, `ReadAssets`, `ReadTicket`, `Breaks` | `RainService.refresh`, every call that is under way, by the `await` it stands at |
| `stale`, `Effect`, `Timer` | the effect on account and network; the interval timer |
| `Focus`, `Unfocus` | `focus` with an id and with `null` |
| `MaySend`, `Send`, `Create`, `Confirmed`, `Declined`, `busy` | `canWrite`, `send`, `create` and the busy flag, which stays up for the refresh that follows |
| `SetAccount` | external: the wallet library reports another account, or none |

`RainService.refresh` has no generation: a call that is overtaken goes on and
writes what it read. `Begin` has its two early returns, of which only the first
blanks the page. The reads of the hub's state, its schedule and its boxes stand
at one stage, for nothing is shown between them. The count of watchers never
falls to zero, since the shell's tiles (`app.html:14`) watch from the start, so
that the timer is never stopped.

Left out: the measured length of a round, `localStorage`, pictures and names
that are cached, the activity list, and the wording of messages.

## Runs

Each run has a module of its own: the hub's `MCOneRain`, `MCHub` and `MCRain`, the
bot's `MCRainBot`, the page's `MCRainPage`, the scripts' `MCSetup`, `MCScripts` and
`MCRelease`; `retry` is run on `NodeRetry` itself. Where a module has several
scenes, the first state chooses one. Rounds are scaled down: intervals of one to
three rounds, a commit delay of one, a seed window of at most two, a scan of two
(four in `scripts`).

| run | instance | checks |
|---|---|---|
| `rain` | one rain of any mode, three holders, drips and deposits of 2 and 3, two WAVE seats | `Solvency`, `TicketsAgree`, `IndexesMatch`, `WordsFit`, `SecondVisitIsVain`, `StandingTrue`, `ShortfallExact`, `CreditOnlyByDrop`, `CreditOnlyLostWhenDue`, `PotFallsByDrop`, `OutcomeFixed`, `KeepsTills` |
| `hub` | one account, two scenes: up to three rains of all modes; one rain with gate, prizes in ALGO and in an asset, payments too small and too large | `TypeOK`, `BoxesFunded`, `AllServed` |
| `overflow` | one SPLIT rain, `MaxUint` 4 and `Supply` 3 | `DrawNeverFails`, found violated |
| `bot` | one bot, a lottery and another rain of any mode but WAVE, two holders, one pass that dies | `BooksKept`, `LockEnds`, `PrizesClaimed` |
| `overlap` | two runs at once, none dies | `NothingPaidTwice`, found violated |
| `stranded` | one run, one pass dies | `NothingStranded`, found violated |
| `stuck` | one run, one pass dies, a wallet with nothing of its own | `LockEnds`, found violated |
| `setup` | one hub, one other target that may break; the deployer and a stranger; two upkeeps; two scenes: the script, a keeper's pass | `EscrowKept`, `FeeAsCharged`, `PickedStaysDue`, `OneUpkeepPerHub`, `SetUpUnlessCut`, `ServedByPass` |
| `scripts` | five scenes: the one-draw script with up to two players on a hub of eight rains; the live proof with two daily rains and a stranger about, or a run that dies, or lotteries left by runs that died; both demonstrations on a new hub | `VerdictTrue`, `CadenceKept`, `PassedIfRained`, `DemoTrue`, `KeysOutliveMoney` |
| `release` | two processes of three starts, three servers, two edits of the environment; two scenes: scripts that connect; builds of two contracts, deployments and verifications | `NetworkAsked`, `FromTheTree` |
| `retry` | two calls, two transactions of which one can be named, three attempts | `KeepsPromise`, `OwnReplayNotRaised`, `DoubleSubmissionHeard`, `EveryCallEnds` |
| `page` | two networks, one with a hub; two rains, one account; two refreshes at once, two events | `RoundOfNetwork`, `SendsToItsChain`, `PageCatchesUp`, `ChainCatchesUp`, `WritesEnd` |

Why the bounds are enough for what each run asks:

- Three holders and a drip of two or three give drips that divide, that leave a
  remainder and that are too small to share. Deposits of two and three under a
  supply of six make pots that cannot pay, that pay once and that pay twice,
  and money that is claimed and deposited again.
- Two seats for three holders is the least that has a holder who misses a
  drop. Five rounds are enough for two drops with a roll-back between or after
  them, so that a share is settled by `gm`, settled by `claim`, taken back by
  the next fire, and taken back with no fire.
- A rain's rounds depend on its mode (`MCHorizon`): a lottery's seven hold an
  interval, a commit delay, a window and the round after it.
- Three rains and a scan of two make a cursor that does not divide the number
  of rains, while one or two rains make the scan come round in one call. The
  rains of that scene are as simple as a rain can be, with one unit in each and
  two rounds: the question is only whether the scan gets to them.
- The gated rain has every combination of payment and box, a denomination that
  is opted in to or not, and a holder with and without the gate's asset.
- In `overflow` the supply is below `MaxUint`, as on chain, so the accumulator
  passes it only because the same money falls again and again.

- The bot's runs start on a hub that has been set up and entered (`MCReady`): what
  precedes the first drop is no concern of the bot's. Two rains are what it takes
  for one to stand in another's way, two holders for a draw the bot does not win.
  Nine rounds hold a draw, its window, a pass after the window and a second drop;
  no drop falls after `LastDraw`, so that the stopping of the clock leaves no draw
  whose window never closes. The seed window is two rounds, because a pass decides
  by the round before the one its calls run in: with a window of one there would
  be no round in which a pass may still resolve.
- `Supply` 4 and a drip of 2 let two prizes be out at once. `Float` 2 covers one
  deposit made twice; with `Float` 0 that deposit is refused, which is `stuck`.
- Two calls are the caller and somebody else with the same transaction; a third
  would play the part of the second. Three attempts instead of five are a first,
  one in the middle and a last. With one transaction that can be named and one
  that cannot, both ways of telling a replay are taken.
- Two refreshes of a page are an old one and one that overtakes it; a third
  would be as old as the first. An event is something the user or the wallet
  does, or a read that fails: two of them are a network left and come back to, a
  rain exchanged for another during a refresh, or a write with a network changed
  under it. The network with a hub may be an impostor, decided at the start, and
  the other has no hub.

- In `setup` an upkeep with a cap and one without, on a hub and on a target that
  may break, are the two kinds of work a pass can have, in either order; the
  rounds reach past the interval, so that fees escalate and come to their cap.
  The script's scene has a second upkeep for somebody else's on the same hub. What
  the script does to the registry while a pass is under way is what other users
  do, so the two need not be in one run.
- In `scripts` eight rains and a scan of four make a draw that need not get to the
  lottery, and two tries that always do. Two players, of one or two asked for,
  let a run be started with fewer players than are on file. A script dies once at
  most, and is then run again to its end. With a stranger about the live proof
  runs long enough for a lottery's window to pass. Seven rounds hold two cycles of
  a lottery, or a draw that is abandoned. In the scenes without the live proof
  `left_short` has both daily rains from the start: nothing is asked of them.
- Two processes are what it takes for one to meet another's files; the third
  start is a second run after either. Two edits are a change and a change back,
  or one of an export and one of a file.

`rain` uses symmetry of the accounts and `release` of the processes; neither
checks liveness.

### Properties

- `Solvency`: a rain's deposits less its payouts equal its pot, its locked
  prize and its holders' allocations, exactly. It is per rain, so it also says
  that no rain is paid from another's money.
- `TicketsAgree` (`SeatsMatch` and `TicketsInStep`), `IndexesMatch`: the counters
  and the numbering in a rain box agree with the boxes of its tickets; no ticket
  is ahead of its rain.
- `WordsFit`: with the accumulator apart, no sum exceeds an AVM integer.
- `BoxesFunded`: the minimum-balance payments cover every box.
- `CreditOnlyByDrop`, `CreditOnlyLostWhenDue`, `PotFallsByDrop`,
  `OutcomeFixed`: what may raise and lower an allocation and a pot, how often,
  and what stands still while a draw is open.
- `KeepsTills`: the refinement; `Rain` implements `Tills`. Of all the hub keeps,
  depositors and holders need to know a till and its dues.
- `SecondVisitIsVain`: a scan that comes round to a rain a second time does
  nothing to it.
- `StandingTrue`, `ShortfallExact`: the page says `due` exactly when the next visit
  pays and never counts no drops left beside one that is coming; the money the
  seeding script asks for is enough, and a unit less is not.
- `LockEnds`, `AllServed` (`EveryRainServed` in the scene of many rains): liveness,
  below.
- `BooksKept`: the bot's accounts. What the bot has of a rain's money, less what
  a run or the file will put back, changes only when a pass dies, and then only
  between a claim and its record or between a deposit and the end of its record.
  It names the two places where the bot's protocol is open.
- `NothingStranded`, `NothingPaidTwice`: what the module's docstring promises of
  crashes and of overlap; the findings below.
- `PrizesClaimed`: liveness, below.
- `EscrowKept`, `FeeAsCharged`, `PickedStaysDue`: no escrow is overdrawn or lost;
  the keeper expects the fee the registry charges; and nothing but somebody else
  takes from a pass what it selected. That last one is not obvious: the fee
  rises while the pass works, and only because the registry falls back to the
  base fee when the escalated one cannot be paid does the upkeep stay
  executable.
- `OneUpkeepPerHub`, `SetUpUnlessCut`: what the deploy script leaves, however often
  it dies. The second names where it is not idempotent, though its docstring
  says it is: a hub with any rain is not given the other one, or its deposit.
- `VerdictTrue`, `KeysOutliveMoney`, `CadenceKept`, `PassedIfRained`, `DemoTrue`: what
  the scripts say of the hub, what they leave behind, and the exceptions each
  leaves open. The live proof takes rain 4 for the asset's, whatever it is:
  where a run died after opening the lottery, that is the next run's lottery,
  whose first drop may be locked and fall on nobody yet.
- `NetworkAsked`: one answer to the genesis question protects everything after
  it, whatever is exported. `FromTheTree`: what is said or deployed is of this
  tree, though builds overlap.
- `KeepsPromise`: the refinement; `NodeRetry` implements `Submission`.
- `OwnReplayNotRaised`, `DoubleSubmissionHeard`: the two sides of recognising a
  replay. A call does not hear its own copy as a failure, and a caller who sends
  a transaction twice on purpose is told, as long as neither call was refused.
- `RoundOfNetwork`: a late answer does not put one network's round under
  another's name. The generation is what it needs: an answer may come any number
  of network changes after its question.
- `SendsToItsChain`: no button of a rain asks for a signature while the node has
  not shown itself to be the chain it is listed as.
- `PageCatchesUp`: overlapping refreshes may leave one rain's heading over
  another's ticket, but not for good. `ChainCatchesUp`, `WritesEnd`: the round
  comes back after every failure and every change, and the buttons do.

### Fairness

`FairSpec` assumes weak fairness of `Tick` (blocks pass), of `Draw` (the Arcron
keeper goes on calling it; the hub is built to be called on a schedule and
anybody may call it) and of `Resolve \/ Abandon` for each rain (`rain_bot`
does this on every pass, and anybody may). Nothing is assumed of holders or
depositors. `AllServed` is the claim that makes the cursor worth having:
with `DRAW_SCAN` boxes per call and rains being opened between calls, a rain
that could fire is reached. The code gives no bound on how many rains are
opened; the instance does.

`BotFairness` assumes that blocks pass and that each run of the bot goes on
taking its steps, a refusal and the next pass included (it is a cron job or a
loop). Nobody else is assumed to close a draw: `LockEnds` in the run `bot` is
what justifies `Resolve \/ Abandon` in `FairSpec`. It holds as long as the
wallet covers what is on file, and `stuck` shows that it does not otherwise.
`PrizesClaimed` is what the docstring regrets of an earlier version, a rain on
which nothing was ever pulled.

`MCSetup` assumes that in the pass's scene the clock or the pass goes on: the
keeper is a loop. `ServedByPass` says that the work is done, unless a target
whose call fails is due as well: `run_keeper_once` lets that failure raise, and
whatever it selected after it waits for a pass that gets there first. How often
others may step in is bounded by `MaxFunds` and `MaxRound`, so it does not rest on
their leaving the keeper alone for ever.

`NodeRetry` assumes of every call that its next step is taken: an attempt ends
in an answer or in an error (the clients have timeouts), and the process runs. A
forwarded copy need never arrive, and calls need never begin.

`RainPage` assumes that the timers and the effect run, and that reads and
signatures end one way or the other. That the newest of the chain's reads is
answered is strong fairness: every poll takes over from the one before it, so
what is assumed is that now and again a node answers within a polling interval.
A node that never does leaves the page at "connecting", whatever it answers
later. The user and the wallet need do nothing, and after `MaxEvents` they do
nothing more; nor do reads fail after that.

### Findings

**The accumulator** (run `overflow`). `specs/rain/rain.spec.md:89` says that `draw` never fails, and
`specs/rain/requirements.md:28` that it shall not. The run `overflow` finds a
history in which it does: `_fire_split` adds each share to `rec.cumulative`,
which is never reduced, and money that was claimed may be deposited and fall
again. Once the sum passes the largest integer the AVM rejects the whole call.
The cursor moves after the loop (line 387), so it does not move, and every
later `draw` starts with the same rain and is rejected as well. In ALGO, with
sensible drips, this takes far longer than the chain will last; in an asset
with a supply near 2^64 - 1 and few holders it takes a handful of drops. In
the model `Draw` is disabled while `DrawFails`; the other runs have a `MaxUint`
their accumulators do not reach, or state their properties for that case too.

**Overlapping runs** (run `overlap`). `rain_bot.py:43-45` says that every action
is a no-op check before it is a transaction and that the bot may run from a cron
job that overlaps with itself. The redeposit is not checked against the chain: a
run that starts while another is between writing its record and clearing it reads
the record and deposits the amount as well, out of the account's own money.

**The record comes after the claim** (run `stranded`). `rain_bot.py:18-22` and
`specs/rain/testing.md:11` say that a crash between claim and deposit is made good
by the next run. The record is written after the claim is confirmed, and writing
it empties the file first; a pass that dies before the record is complete leaves
a prize in the wallet that nothing remembers.

**A record that cannot be honoured** (run `stuck`). `rain_bot.py:9-14` says that
every run visits every rain, and that no prize sits locked forever. A pass that
dies after its deposit and before clearing the record leaves a record of money
that is back already. Every later pass starts with that deposit; if the account
cannot pay it, the exception ends the pass before the first rain, every time.

Noticed while reading, and not the subject of a run:

- a claim that is refused, on a gated rain for one, ends the pass; the rains
  after it are never visited while the account is owed something on that rain
  (`rain_bot.py:408`);
- with `--no-state` nothing is written and nothing is kept in memory either
  (`rain_bot.py:462`);
- a `Retry-After` can make each of four waits last four seconds, sixteen in all;
  `node_retry.py:185` speaks of about eight;
- a duplicate that is swallowed after a refusal may be of another caller's copy
  (`node_retry.py:419-420` says so): hence the condition in
  `DoubleSubmissionHeard`;
- `create` looks neither at the chain's status nor at its genesis id
  (`rain.service.ts:531-576`), which `chain.service.ts:38-45` asks of whatever
  commits money. `SendsToItsChain` therefore speaks of `send` alone;
- a ticket and a rain that do not belong together can be on the page until the
  next refresh, for the refreshes of the rains have no generation;
- the one-draw script, killed while it rewrites the keys' file, loses them, and
  run for fewer players than are on file removes keys whose accounts it never
  closed (`rain_one_draw.py:150`, `:333`); when the winner is an outsider it says the
  hub credited nobody (`:208` ff.). `KeysOutliveMoney` and `VerdictTrue` name these;
- the live proof, killed between a claim and its `finally`, leaves a daily rain on
  the short interval, and no later run restores it, for the rain has fired and
  owes nothing (`rain_testnet_live_proof.py:218`);
- the deploy script tops up whatever upkeep targets the hub, a stranger's too
  (`rain_testnet_deploy.py:88`);
- `python -m smart_contracts deploy` reads `.env` and asks no node what chain it is,
  while `network.py:159-160` speaks of every entry point at once. `NetworkAsked`
  speaks of what goes through `connect`;
- a build may end without a client when another build removed the ARC-56 file
  between its two steps; `verify_build --no-rebuild` says only what was built last;
- two wallet connections begun one after the other can both end connected
  (`wallet.service.ts:77`, against lines 8-9).

## Proofs

### The hub

Everything here is checked by TLAPS for every number of accounts, rains and
rounds and every value of the constants that satisfies the named assumptions in
`Rain`: `Accounts` is finite, a scan is at least one rain, delays and intervals
are naturals, `Supply <= MaxUint`, `Algo` is no asset.

- `TypeCorrect`: `Spec => []TypeOK`. `TypeOK` is inductive but for one thing:
  `_settle_wave` subtracts, guarded by its own test, and `_fire_split`,
  `_fire_wave` and `_fire_one` subtract from the pot what they tested it for.
  `held` is typed as an integer here, because that a claim never takes more
  than there is needs solvency.
- `TicketsAlwaysAgree`: `Spec => []TicketsAgree`. The invariant, `SeatsInv`, is
  that and the type; it counts holders, seated holders and unsettled holders as
  sets and follows each action's effect on the three. A ticket must also be known
  never to be seated past the open drop or settled ahead of the last one: without
  that, a fire could find a ticket already settled for the drop it makes.
- `AlwaysSolvent`: `Spec => []Solvency`. Rests on `SeatsMatch`: a WAVE fire puts
  `last_share * wave_unclaimed` back into the pot, which is the money of the
  unsettled tickets only if the counter counts them, and a fire hands its share
  to as many as the counter says. The sum over holders changes at one account
  (`claim`, `gm`, `resolve`, `enter`) or by one share over a set of them (`draw`):
  these are the lemmas of `SumsProofs`. Every action leaves each other rain
  untouched, which is one lemma (`StepShape`).
- `WordsAlwaysFit`: `Spec => []WordsFit`, from solvency, `held[r] <= Supply` and
  `Supply <= MaxUint`.
- `FireIdempotent`: firing a rain twice in one round is firing it once.

`BoxProofs` goes on from there.

- `NumbersAlwaysMatch`: `Spec => []IndexesMatch`, proved number by number
  (`NumberedRight`): a number has a box exactly if it is below `tickets`, its box
  names a holder, every holder has one and no two the same. Only `Enter` adds a
  number, the next one, and never to an account that has a ticket.
- `OutcomeStands`: `Spec => OutcomeFixed`. The calls that change a locked rain are
  the ones that close its draw; `Enter` is refused while it is open.
- `BoxesAlwaysFunded`: `Spec => []BoxesFunded`. `Funded` adds that nothing is in the
  boxes before the set-up; after it, each method's payment covers what it adds
  to the four counts the minimum balance is made of.
- `PotsFallByDrop`: `Spec => PotFallsByDrop`. `Started`: every rain has a
  `last_rain_round` above zero, or the interval would not be tested.

- `CreditByDropOnly` and `CreditLostWhenDue`: `Spec => CreditOnlyByDrop` and
  `Spec => CreditOnlyLostWhenDue`, step theorems from `SeatsInv`: how each call moves
  one account's allocation. A ticket in step is what makes lazy settling
  invisible, so that only a drop, a resolved draw, a payment and a roll-back are
  left.
- `HubKeepsTills`: `Spec => KeepsTills`, the refinement. `till` is `held`, `due` is
  `AllocationOf` for every account, and the counters, seats, waves, debts and locks
  have no counterpart. A call on one rain leaves the others' rows alone
  (`CallTouchesOne`) and is a deposit, a payment, an award or nothing (`CallOnTills`);
  an award fits because by `Solvency` the locked prize is over. A draw is one `Fall`
  of every rain it visits (`DrawOnTills`): for each, the share and the share taken
  back are read off the lemmas of the two theorems above, and what falls is covered
  because `Solvency` holds after the step too (`DuesCovered`).
- `SecondVisitAlwaysVain`: `Spec => []SecondVisitIsVain`. The loop of `draw` is a
  recursive function over the visits of a scan, and what it has written after
  `k` visits is a fact about every `k`. `LoopEquation` shows that its definition has a
  solution (every rain seen so far fired once, which `FireIdempotent` keeps true when
  the scan comes round), `LoopIsScan` that it has no other: of the numbers of visits
  where another one differs, the least would come right after one where it does not.

### The programs that read and call the hub

`ClientProofs` composes the invariants above with those of each client. Its
theorems hold for any hub, any amounts, and whatever the other callers that the
client's module has do between two steps.

- `BooksAlwaysKept`: `BotSpec => BooksKept` if `Runs = {p}`, for any number of passes
  that die. The invariant `BookInv` ties the file to the step a pass is at. From the
  reading or writing of a record to its clearing the file holds what the pass
  holds; at every other step after the file was read it holds nothing; and the
  rain on file exists. With two runs this is false, as `overlap` shows. Every step of
  the run changes the claimed money, the file and what is in hand by amounts
  that cancel; the hub's other callers change none of them (`WorldOnHub`), and only
  `Fail` forgets what is in hand.
- `StandingAlwaysTrue` and `ShortfallAlwaysExact`: `Spec => []StandingTrue` and
  `Spec => []ShortfallExact`. `Readable` is what the readers rely on and never test:
  a rain's drip is positive and its first round was recorded. The rest is integer
  division, of `w` drops into a pot (`QuotientAtLeast`), used once for the page's
  count and once for the script's deposit.
- `CadenceAlwaysKept`: `ProofSpec => []CadenceKept`. The property is inductive beside
  the type, because `set_rain` is for the creator alone, which is the deployer, and
  no other call changes a rain's terms (`TermsStay`).
- `PassedAlwaysRained`: `ProofSpec => []PassedIfRained`. `LedgerInv`: a rain whose
  drop has fallen, and is not held back as a locked prize, has paid the prover,
  owes it, or let the drop go elsewhere; every step of anybody keeps that. `Seen`
  says what a run has seen fallen by the step it has reached, and `PassInv` carries
  it to the end: the set of rains that have rained never loses one.
- `KeysAlwaysOutlive`: `OneDrawSpec => KeysOutliveMoney`. `KeyInv` ties the file of
  keys to the step of the run, and says that from its claim to the closing of its
  account a player is owed only what fell to it in between (`OwedLate`).
- `VerdictAlwaysTrue`: `OneDrawSpec => []VerdictTrue`. `VerdictInv` adds what the
  script has been told: as long as nobody else drew or closed a draw, each
  allocation it noted is what the hub owes, or that and the prize for the winner;
  the locked prize, the commit round and the number of tickets are what it read.
  That four draws reach the lottery takes a distance: the lottery is `d` ids ahead
  of the cursor, `d` plus the scans still to come is below the number of rains, and
  a draw that does not reach it takes a scan off (`Ahead`).
- `DemoAlwaysTrue`: `DemoSpec => []DemoTrue`, for any list of guests. `DemoInv` has the
  ticket count, the accumulator, the pot and the debtless tickets of the
  demonstration's rain at each step, while it is alone on it.

The assumptions beyond those of `Rain`: the callers are among the hub's and what
they pay is among the amounts offered (`ProofOffersAssumption`,
`PlayersOfferAssumption`, `DemoOffersAssumption`), which makes a step of a script one
of the hub's steps; the accounts a script makes are distinct and none is the
account that pays for it (`PlayersAssumption`, `DemoAssumption`). `ProofSpec` and
`OneDrawSpec` start in any state of a hub that satisfies what `RainProofs` proves of
one, and in which the daily rains, or the lottery, are as the script was told.

### The keeper and the deploy script

`KeeperProofs`, for any users, targets, terms and bounds.

- `FeesAgree`: `Spec => []FeeAsCharged`. The two formulas differ in form; they agree
  on every upkeep that can be registered, because its interval is positive, and
  in every round from its last service on.
- `EscrowAlwaysKept`: `Spec => []EscrowKept`, with the sum over the boxes changing at
  one of them.
- `PickedStays`: `Spec => []PickedStaysDue`. `PassOK` keeps what the pass read of an
  upkeep and what the registry has of it together: if nobody executed it, only
  its balance changed, and that upwards; and an id is never given out twice, so
  an upkeep that was cancelled is not mistaken for a later one.
- `OneUpkeep`: `Spec => []OneUpkeepPerHub`. `OwnOnce`: while the script
  looks through the boxes it listed, the deployer's upkeep on this hub, if there is
  one, is among those it has still to read; so when it finds none there is none.
- `SetUpComplete`: `Spec => []SetUpUnlessCut`. `Progress` says how far a hub is at each
  step of the script, unless a run was cut on it or a stranger came first.

### Connecting, building and the page

- `ReleaseProofs`, `AlwaysTheNetworkAsked`: `NetSpec \/ ReleaseSpec => []NetworkAsked`,
  for any servers, files and number of edits. `NetInv`: a process past its question
  holds a node of the network it asked for; a keeper is only on a chain of
  LocalNet's; it is funded before it is used.
- `AlwaysFromTheTree`: `ReleaseSpec => []FromTheTree`, for any contracts, versions and
  builds at once. `Sees` is the argument: once a run has removed a contract's
  artifacts, whatever is put there was made of a version the tree has had since
  the run began, or that another build had read by then and not yet written;
  and so for the files there, the reads that are under way, and the tree.
- `PageProofs`: `RoundsOfTheNetwork` and `SendsAlwaysToItsChain`. `ChainOK`: the
  newest of the chain's reads is of the chosen network, which is all that the
  generation number has to guarantee.

### The retry

`NodeRetryProofs` holds for every set of calls and transactions, every choice of
the ones that can be named and every limit on attempts.

- `RetryInvariant`: `Spec => []RetryInv`, where `RetryInv` adds to the type five
  facts. `Counted`: a call has been replayed exactly if it made more than one
  attempt, or sleeps before its second. `AnswersTrue`: a node that answered a
  submission with "ok" or with "duplicate" holds the transaction. `CopiesSent`: what is on its way or has
  landed was sent by some call. `DuplicatesOfOthers`: a call that hears of a
  duplicate and was not replayed has a rival. `TakenOnce`: of two calls with one
  transaction only one is told "ok".
- `PromiseKept`: `Spec => KeepsPromise`, by the refinement mapping in `NodeRetry`
  (a call is open until it returns or raises). The step that matters is
  `Return` after a recognised duplicate: `AnswersTrue` makes it a success of a
  transaction that has landed.
- `OwnReplaysRecognised`, `DoubleSubmissionsHeard`, `RetryTypeCorrect`: the
  invariants of the run `retry`.

### What is only model-checked

Every safety property of every passing run is proved for all values of the
constants, `BooksKept` for one run of the bot, as it is false of two. What is left to
TLC is liveness, which is beyond the installed provers with its fairness and
`ENABLED`: `AllServed`, `LockEnds`, `PrizesClaimed`, `ServedByPass`, `EveryCallEnds`,
`PageCatchesUp`, `ChainCatchesUp` and `WritesEnd`; and the four violations.
Induction over data is beyond them too. That is why `Total` counts units instead
of recurring over a set: a fold would need induction, the cardinality of a union
of disjoint finite sets does not; and why the one recursive function that is
reasoned about, the loop of `draw`, is reached through its least counterexample.

## Not modelled

The beacon stub, `new_bot_account.py`, the transaction builders, the settings,
the pages and the generated clients: they keep no state of their own or do one
thing in a fixed order. The compiled keeper contract is modelled from the
clients that call it. The wallet service's connect and disconnect are planned;
`RainPage` has only their effect, an account that changes at any time.

## Plan

1. The wallet service's connect, cancel and disconnect, as part of `RainPage`.
2. The bot beside a gated rain, once a run can be spared for it: the refusal is
   in `RainBot` (`Refused`), no instance has such a rain.
