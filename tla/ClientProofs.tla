---------------------------- MODULE ClientProofs ----------------------------
(***************************************************************************)
(* The programs that read the hub and call it, against the hub itself: for *)
(* any hub, any amounts and whatever its other callers do between their    *)
(* steps.                                                                  *)
(*                                                                         *)
(* A bot that runs alone keeps its books, wherever it dies.  The invariant *)
(* ties the pending file to the step a pass has reached: from a record's   *)
(* reading or writing to its clearing the file holds what the pass holds,  *)
(* and everywhere else, once the file has been read, it holds nothing.     *)
(* With two runs that is false (the run overlap).                          *)
(*                                                                         *)
(* The readers of a rain's box say of it exactly what the contract does.   *)
(*                                                                         *)
(* The scripts: the live proof changes back what it changed, and has seen  *)
(* it rain when it says so; the one-draw script keeps every key that       *)
(* something can still be fetched with, and finds fault with no hub it has *)
(* been alone on; nor do the demonstrations.  Each of these invariants     *)
(* says what a run knows of the hub at the step it has reached, and that   *)
(* the hub's other callers leave that true.                                *)
(***************************************************************************)
EXTENDS RainBot, Standing, LiveProof, Demo, OneDraw, BoxProofs,
        SequenceTheorems

-----------------------------------------------------------------------------
(* The bot *)

Recorded  == {"redeposit", "forget", "deposit", "clear"}
NotOnFile == {"list", "rain", "resolve", "abandon", "reread", "ticket",
              "claim", "record", "write"}
Steps     == {"idle", "pending"} \cup Recorded \cup NotOnFile

JobRec == [at : Steps, current : Int, last : Nat, rain : Nat,
           rec : RainRec \cup {NoRec}, amount : Nat]

\* What is true of a run, given what is on file and how many rains there are.
JobOK(j, f, n) ==
    /\ j \in JobRec
    /\ j.last <= n
    /\ j.at \notin {"idle", "pending", "list"} => j.rain \in 1 .. n
    /\ j.at \in Recorded => f = <<j.amount, j.rain>>
    /\ j.at \in NotOnFile => f = NoFile
    /\ j.at \in {"record", "write"} => j.amount > 0

FileOK(f, n) == f = NoFile \/ f \in (Nat \ {0}) \X (1 .. n)

BookInv ==
    /\ TypeOK
    /\ next_rain_id <= MaxRains
    /\ FileOK(file, next_rain_id)
    /\ taken \in [RainIds -> Int]
    /\ fails \in Nat
    /\ job \in [Runs -> JobRec]
    /\ \A p \in Runs : JobOK(job[p], file, next_rain_id)

LEMMA StepNames ==
    {"idle", "pending", "redeposit", "forget", "deposit", "clear", "list", "rain",
     "resolve", "abandon", "reread", "ticket", "claim", "record", "write"} = Steps
  BY DEF Steps, Recorded, NotOnFile

-----------------------------------------------------------------------------
(* The hub under the bot *)

HubNext == Next \/ \E r \in RainIds, amount \in Nat : Deposit(r, amount)

LEMMA HubType ==
  ASSUME TypeOK, HubNext \/ UNCHANGED vars
  PROVE  TypeOK'
<1>1. CASE [Next]_vars
  BY <1>1, TypeStep
<1>2. ASSUME NEW r \in RainIds, NEW amount \in Nat, Deposit(r, amount)
      PROVE  TypeOK'
  BY <1>2, TypeDeposit
<1> QED
  BY <1>1, <1>2 DEF HubNext

LEMMA HubGrows ==
  ASSUME TypeOK, next_rain_id <= MaxRains, HubNext \/ UNCHANGED vars
  PROVE  next_rain_id' \in Nat /\ next_rain_id <= next_rain_id'
         /\ next_rain_id' <= MaxRains
<1>1. next_rain_id \in Nat /\ MaxRains \in Nat
  BY InputAssumption DEF TypeOK
<1>2. CASE [Next]_vars
  <2>1. CASE next_rain_id' = next_rain_id
    BY <1>1, <2>1
  <2>2. CASE next_rain_id' # next_rain_id
    <3>1. /\ next_rain_id' = next_rain_id + 1
          /\ \E a \in Accounts, gate \in Gates \cup {NoGate},
                prize \in Assets \cup {Algo}, drip \in Drips,
                interval \in Intervals, mode \in Modes, cap \in WaveCaps,
                mbr \in MbrPayments :
                  CreateRain(a, gate, prize, drip, interval, mode, cap, mbr)
      BY <1>2, <2>2, NextIdMoves
    <3>2. next_rain_id < MaxRains
      BY <3>1 DEF CreateRain
    <3> QED
      BY <1>1, <3>1, <3>2
  <2> QED
    BY <2>1, <2>2
<1>3. ASSUME NEW r \in RainIds, NEW amount \in Nat, Deposit(r, amount)
      PROVE  next_rain_id' = next_rain_id
  BY <1>3 DEF Deposit, hub
<1> QED
  BY <1>1, <1>2, <1>3 DEF HubNext

LEMMA WorldOnHub == World => HubNext /\ UNCHANGED botVars
<1> SUFFICES ASSUME World PROVE HubNext /\ UNCHANGED botVars
  OBVIOUS
<1>1. UNCHANGED botVars
  BY DEF World
<1>2. ASSUME Tick \/ Draw PROVE Next
  BY <1>2 DEF Next
<1>3. ASSUME NEW a \in Accounts \cup {HubCreator}, NEW mbr \in MbrPayments,
             Bootstrap(a, mbr)
      PROVE  Next
  BY <1>3 DEF Next
<1>4. ASSUME NEW gate \in Gates \cup {NoGate}, NEW drip \in Drips,
             NEW interval \in Intervals, NEW mode \in Modes,
             NEW cap \in WaveCaps, NEW mbr \in MbrPayments,
             CreateRain(Bot, gate, Algo, drip, interval, mode, cap, mbr)
      PROVE  Next
  BY <1>4, BotAssumption DEF Next
<1>5. ASSUME NEW a \in Accounts, NEW r \in RainIds, NEW mbr \in MbrPayments,
             Enter(a, r, mbr) \/ Gm(a, r)
      PROVE  Next
  BY <1>5 DEF Next
<1>6. ASSUME NEW a \in Accounts, NEW r \in RainIds, Claim(a, r)
      PROVE  Next
  BY <1>6 DEF Next
<1>7. ASSUME NEW r \in RainIds, NEW amount \in Amounts, Given(r, amount)
      PROVE  Next
  BY <1>7 DEF Next, Given
<1>8. ASSUME NEW r \in RainIds, Resolve(r) \/ Abandon(r)
      PROVE  Next
  BY <1>8 DEF Next
<1>9. Next
  BY <1>2, <1>3, <1>4, <1>5, <1>6, <1>7, <1>8, Zenon DEF World
<1> QED
  BY <1>1, <1>9 DEF HubNext

-----------------------------------------------------------------------------
(* The books of a lone run *)

\* What a run holds for a rain at one of these steps.
HeldAt(j, r, steps) == IF j.at \in steps /\ j.rain = r THEN j.amount ELSE 0

Books(j, f, t, r) ==
    t[r] - HeldAt(j, r, {"record", "write"})
         - (IF f[2] = r THEN f[1] ELSE 0)
         + HeldAt(j, r, {"forget", "clear"})

LEMMA SumOfOne ==
  ASSUME NEW p, NEW P \in {{}, {p}}, NEW f \in [P -> Nat]
  PROVE  Total(f) = IF p \in P THEN f[p] ELSE 0
<1> DEFINE none == [q \in {} |-> f[q]]
<1>1. Total(none) = 0
  <2>1. Units(none) = {}
    BY DEF Units
  <2> QED
    BY <2>1, FS_EmptySet DEF Total
<1>2. CASE P = {}
  <2>1. Units(f) = {}
    BY <1>2, UnitsMember
  <2> QED
    BY <1>2, <2>1, FS_EmptySet DEF Total
<1>3. CASE P = {p}
  <2> DEFINE rest == [q \in P \ {p} |-> f[q]]
  <2>1. IsFiniteSet(P) /\ p \in P
    BY <1>3, FS_Singleton
  <2>2. Total(f) = f[p] + Total(rest)
    BY <2>1, TotalApart
  <2>3. rest = none
    BY <1>3
  <2>4. f[p] \in Nat
    BY <2>1
  <2> HIDE DEF rest, none
  <2> QED
    BY <1>1, <2>1, <2>2, <2>3, <2>4
<1> QED
  BY <1>2, <1>3

LEMMA AstrayIs ==
  ASSUME NEW p, Runs = {p}, job[p].amount \in Nat, job'[p].amount \in Nat,
         NEW r \in RainIds
  PROVE  /\ Astray(r) = Books(job[p], file, taken, r)
         /\ Astray(r)' = Books(job'[p], file', taken', r)
<1>1. ASSUME NEW steps
      PROVE  /\ Amount(r, steps) = HeldAt(job[p], r, steps)
             /\ Amount(r, steps)' = HeldAt(job'[p], r, steps)
  <2>1. Amount(r, steps) = HeldAt(job[p], r, steps)
    <3> DEFINE P == AtSteps(r, steps)
               f == [q \in P |-> job[q].amount]
    <3>1. /\ P \in {{}, {p}}
          /\ p \in P <=> job[p].at \in steps /\ job[p].rain = r
      BY DEF AtSteps
    <3>2. f \in [P -> Nat] /\ (p \in P => f[p] = job[p].amount)
      BY <3>1
    <3>3. Total(f) = IF p \in P THEN f[p] ELSE 0
      BY <3>1, <3>2, SumOfOne
    <3> QED
      BY <3>1, <3>2, <3>3 DEF Amount, HeldAt
  <2>2. Amount(r, steps)' = HeldAt(job'[p], r, steps)
    <3> DEFINE P == AtSteps(r, steps)'
               f == [q \in P |-> job'[q].amount]
    <3>1. /\ P \in {{}, {p}}
          /\ p \in P <=> job'[p].at \in steps /\ job'[p].rain = r
      BY DEF AtSteps
    <3>2. f \in [P -> Nat] /\ (p \in P => f[p] = job'[p].amount)
      BY <3>1
    <3>3. Total(f) = IF p \in P THEN f[p] ELSE 0
      BY <3>1, <3>2, SumOfOne
    <3> QED
      BY <3>1, <3>2, <3>3 DEF Amount, HeldAt
  <2> QED
    BY <2>1, <2>2
<1>2. /\ Amount(r, {"record", "write"}) = HeldAt(job[p], r, {"record", "write"})
      /\ Amount(r, {"forget", "clear"}) = HeldAt(job[p], r, {"forget", "clear"})
  BY <1>1
<1>3. /\ Amount(r, {"record", "write"})' = HeldAt(job'[p], r, {"record", "write"})
      /\ Amount(r, {"forget", "clear"})' = HeldAt(job'[p], r, {"forget", "clear"})
  BY <1>1
<1> QED
  BY <1>2, <1>3 DEF Astray, Books

-----------------------------------------------------------------------------
(* One step of the run *)

\* Rains are only added: what was said of a run and a file stays true.
LEMMA JobGrows ==
  ASSUME NEW j, NEW f, NEW n \in Nat, NEW m \in Nat, n <= m,
         JobOK(j, f, n), FileOK(f, n)
  PROVE  JobOK(j, f, m) /\ FileOK(f, m)
<1>1. 1 .. n \subseteq 1 .. m
  OBVIOUS
<1>2. FileOK(f, m)
  BY <1>1 DEF FileOK
<1>3. j \in JobRec /\ j.last \in Nat
  BY DEF JobOK, JobRec
<1>4. j.last <= m
  BY <1>3 DEF JobOK
<1> QED
  BY <1>1, <1>2, <1>3, <1>4 DEF JobOK

\* A step that leaves the run as j.
LEMMA RunStep ==
  ASSUME NEW p, Runs = {p}, BookInv, HubNext \/ UNCHANGED vars,
         NEW j, job' = [job EXCEPT ![p] = j],
         JobOK(j, file', next_rain_id), FileOK(file', next_rain_id),
         taken' \in [RainIds -> Int], fails' \in Nat
  PROVE  BookInv' /\ job'[p] = j
<1>1. next_rain_id \in Nat /\ next_rain_id' \in Nat
      /\ next_rain_id <= next_rain_id' /\ next_rain_id' <= MaxRains
  BY HubGrows DEF BookInv, TypeOK
<1>2. TypeOK'
  BY HubType DEF BookInv
<1>3. JobOK(j, file', next_rain_id') /\ FileOK(file', next_rain_id')
  BY <1>1, JobGrows
<1>4. job' \in [Runs -> JobRec] /\ job'[p] = j
  BY DEF BookInv, JobOK
<1>5. \A q \in Runs : JobOK(job'[q], file', next_rain_id')
  BY <1>3, <1>4
<1> QED
  BY <1>1, <1>2, <1>3, <1>4, <1>5 DEF BookInv

LEMMA IdleOK ==
  /\ Idle \in JobRec /\ Idle.at = "idle" /\ Idle.last = 0
  /\ \A f, n : n \in Nat => JobOK(Idle, f, n)
<1>1. Idle \in JobRec /\ Idle.at = "idle" /\ Idle.last = 0
  BY DEF Idle, JobRec, Steps
<1>2. ASSUME NEW f, NEW n \in Nat PROVE JobOK(Idle, f, n)
  BY <1>1 DEF JobOK, Recorded, NotOnFile
<1> QED
  BY <1>1, <1>2

LEMMA NextJobOK ==
  ASSUME NEW j \in JobRec, NEW n \in Nat, j.last <= n, NEW r \in Nat \ {0}
  PROVE  /\ JobOK(NextJob(j, r), NoFile, n)
         /\ NextJob(j, r).at \in {"idle", "rain"}
<1>1. CASE r > j.last
  <2>1. NextJob(j, r) = Idle
    BY <1>1 DEF NextJob
  <2> QED
    BY <2>1, IdleOK
<1>2. CASE ~(r > j.last)
  <2> DEFINE k == [j EXCEPT !.at = "rain", !.rain = r, !.rec = NoRec,
                            !.amount = 0]
  <2>1. NextJob(j, r) = k
    BY <1>2 DEF NextJob
  <2>2. j.last \in Nat /\ r <= j.last /\ r \in 1 .. n
    BY <1>2 DEF JobRec
  <2>3. k \in JobRec /\ k.at = "rain" /\ k.rain = r /\ k.last = j.last
    BY DEF JobRec, Steps, NotOnFile
  <2> QED
    BY <2>1, <2>2, <2>3 DEF JobOK, Recorded, NotOnFile
<1> QED
  BY <1>1, <1>2

\* What every step may use of the run it is taken by.
LEMMA RunIs ==
  ASSUME NEW p, Runs = {p}, BookInv
  PROVE  /\ job[p] \in JobRec /\ JobOK(job[p], file, next_rain_id)
         /\ FileOK(file, next_rain_id) /\ NoFile \in Nat \X Nat
         /\ next_rain_id \in Nat /\ next_rain_id <= MaxRains
         /\ 1 .. next_rain_id \subseteq RainIds
  BY InputAssumption DEF BookInv, TypeOK, RainIds, NoFile

\* A step of the run: what it leaves, and that it leaves the books as they were.
LEMMA Keeps ==
  ASSUME NEW p, Runs = {p}, BookInv, HubNext \/ UNCHANGED vars,
         NEW j, job' = [job EXCEPT ![p] = j],
         JobOK(j, file', next_rain_id), FileOK(file', next_rain_id),
         taken' \in [RainIds -> Int], fails' \in Nat,
         \A r \in RainIds : Books(j, file', taken', r)
                                = Books(job[p], file, taken, r)
  PROVE  BookInv' /\ \A r \in RainIds : Astray(r)' = Astray(r)
<1>1. BookInv' /\ job'[p] = j
  BY RunStep
<1>2. job[p].amount \in Nat /\ job'[p].amount \in Nat
  BY <1>1 DEF BookInv, JobRec
<1>3. ASSUME NEW r \in RainIds PROVE Astray(r)' = Astray(r)
  BY <1>1, <1>2, AstrayIs
<1> QED
  BY <1>1, <1>3

\* At a step that holds nothing for any rain, before and after.
LEMMA KeepsQuietly ==
  ASSUME NEW p, Runs = {p}, BookInv, HubNext \/ UNCHANGED vars,
         NEW j, job' = [job EXCEPT ![p] = j], JobOK(j, file, next_rain_id),
         UNCHANGED <<file, taken, fails>>,
         job[p].at \notin {"record", "write", "forget", "clear"},
         j.at \notin {"record", "write", "forget", "clear"}
  PROVE  BookInv' /\ \A r \in RainIds : Astray(r)' = Astray(r)
<1>1. \A r \in RainIds : Books(j, file', taken', r)
                            = Books(job[p], file, taken, r)
  BY DEF Books, HeldAt
<1>2. FileOK(file', next_rain_id) /\ taken' \in [RainIds -> Int] /\ fails' \in Nat
  BY DEF BookInv
<1> QED
  BY <1>1, <1>2, Keeps

-----------------------------------------------------------------------------
(* Steps that move no money and touch no file *)

LEMMA StartPassKeeps ==
  ASSUME NEW p, Runs = {p}, BookInv, StartPass(p)
  PROVE  BookInv' /\ \A r \in RainIds : Astray(r)' = Astray(r)
<1> DEFINE j == [Idle EXCEPT !.at = "pending", !.current = round - 1]
<1>1. /\ job' = [job EXCEPT ![p] = j] /\ job[p].at = "idle"
      /\ UNCHANGED <<vars, file, taken, fails>>
  BY DEF StartPass, At, Quiet
<1>2. next_rain_id \in Nat /\ round \in Nat
  BY DEF BookInv, TypeOK
<1>3. Idle \in JobRec /\ Idle.last = 0
  BY IdleOK
<1>4. j.at = "pending" /\ j.last = 0
  BY <1>3 DEF JobRec
<1>5. round - 1 \in Int /\ "pending" \in Steps
  BY <1>2, StepNames
<1>6. j \in JobRec
  BY <1>3, <1>5 DEF JobRec
<1> HIDE DEF j
<1>7. JobOK(j, file, next_rain_id)
  BY <1>2, <1>4, <1>6 DEF JobOK, Recorded, NotOnFile
<1> QED
  BY <1>1, <1>4, <1>7, KeepsQuietly

LEMMA ReadPendingKeeps ==
  ASSUME NEW p, Runs = {p}, BookInv, ReadPending(p)
  PROVE  BookInv' /\ \A r \in RainIds : Astray(r)' = Astray(r)
<1> DEFINE k == job[p]
           j == IF file[1] > 0 /\ file[2] > 0
                THEN [k EXCEPT !.at = "redeposit", !.amount = file[1],
                               !.rain = file[2]]
                ELSE [k EXCEPT !.at = "list"]
<1>1. /\ job' = [job EXCEPT ![p] = j] /\ k.at = "pending"
      /\ UNCHANGED <<vars, file, taken, fails>>
  BY DEF ReadPending, At, Quiet
<1>2. k \in JobRec /\ k.last <= next_rain_id /\ next_rain_id \in Nat
  BY RunIs DEF JobOK
<1>3. FileOK(file, next_rain_id)
  BY DEF BookInv
<1>4. JobOK(j, file, next_rain_id) /\ j.at \in {"redeposit", "list"}
  <2>1. CASE file[1] > 0 /\ file[2] > 0
    <3>1. PICK a \in Nat \ {0}, r \in 1 .. next_rain_id : file = <<a, r>>
      BY <1>3, <2>1 DEF FileOK, NoFile
    <3>2. j = [k EXCEPT !.at = "redeposit", !.amount = a, !.rain = r]
      BY <2>1, <3>1
    <3> HIDE DEF j
    <3>3. "redeposit" \in Steps /\ r \in Nat
      BY StepNames, <1>2
    <3>4. j \in JobRec
      BY <1>2, <3>2, <3>3 DEF JobRec
    <3>5. j.at = "redeposit" /\ j.amount = a /\ j.rain = r /\ j.last = k.last
      BY <1>2, <3>2 DEF JobRec
    <3> QED
      BY <1>2, <3>1, <3>4, <3>5 DEF JobOK, Recorded, NotOnFile
  <2>2. CASE ~(file[1] > 0 /\ file[2] > 0)
    <3>1. file = NoFile
      BY <1>2, <1>3, <2>2 DEF FileOK
    <3>2. j = [k EXCEPT !.at = "list"]
      BY <2>2
    <3>3. j \in JobRec /\ j.at = "list" /\ j.last = k.last
      BY <1>2, <3>2 DEF JobRec, Steps, NotOnFile
    <3> HIDE DEF j
    <3> QED
      BY <1>2, <3>1, <3>3 DEF JobOK, Recorded
  <2> QED
    BY <2>1, <2>2
<1> HIDE DEF j
<1> QED
  BY <1>1, <1>4, KeepsQuietly

LEMMA ListRainsKeeps ==
  ASSUME NEW p, Runs = {p}, BookInv, ListRains(p)
  PROVE  BookInv' /\ \A r \in RainIds : Astray(r)' = Astray(r)
<1> DEFINE l == [job[p] EXCEPT !.last = next_rain_id]
           j == NextJob(l, 1)
<1>1. /\ job' = [job EXCEPT ![p] = j] /\ job[p].at = "list"
      /\ UNCHANGED <<vars, file, taken, fails>>
  BY DEF ListRains, At, Quiet
<1>2. file = NoFile /\ next_rain_id \in Nat /\ job[p] \in JobRec
  BY <1>1, RunIs DEF JobOK, NotOnFile
<1>3. l \in JobRec /\ l.last = next_rain_id
  BY <1>2 DEF JobRec
<1> HIDE DEF l
<1>4. JobOK(j, file, next_rain_id) /\ j.at \in {"idle", "rain"}
  BY <1>2, <1>3, NextJobOK
<1> HIDE DEF j
<1> QED
  BY <1>1, <1>4, KeepsQuietly

\* A rain that has been listed is there, and stays there.
LEMMA ReadRainKeeps ==
  ASSUME NEW p, Runs = {p}, BookInv, ReadRain(p) \/ Reread(p)
  PROVE  BookInv' /\ \A r \in RainIds : Astray(r)' = Astray(r)
<1> DEFINE k     == job[p]
           rec   == rains[k.rain]
           first == FirstStep(rec, k.current)
           read  == [k EXCEPT !.rec = IF first = "ticket" THEN rec ELSE NoRec,
                              !.at = first]
           again == [k EXCEPT !.rec = rec, !.at = "ticket"]
<1>1. k.at \in {"rain", "reread"} /\ UNCHANGED <<vars, file, taken, fails>>
  BY DEF ReadRain, Reread, At, Quiet
<1>2. /\ k \in JobRec /\ k.last <= next_rain_id /\ file = NoFile
      /\ k.rain \in 1 .. next_rain_id
  BY <1>1, RunIs DEF JobOK, NotOnFile
<1>3. rec \in RainRec
  BY <1>2 DEF BookInv, TypeOK
<1>4. first \in {"ticket", "abandon", "resolve", "reread"}
  BY DEF FirstStep
<1>5. ASSUME NEW x \in RainRec \cup {NoRec}, NEW step \in NotOnFile,
             step \notin {"record", "write"},
             job' = [job EXCEPT ![p] = [k EXCEPT !.rec = x, !.at = step]]
      PROVE  BookInv' /\ \A r \in RainIds : Astray(r)' = Astray(r)
  <2> DEFINE j == [k EXCEPT !.rec = x, !.at = step]
  <2>1. /\ j \in JobRec /\ j.at = step /\ j.last = k.last /\ j.rain = k.rain
    BY <1>2, <1>5 DEF JobRec, Steps
  <2>2. step \notin Recorded
    BY <1>5 DEF Recorded, NotOnFile
  <2> HIDE DEF j
  <2>3. JobOK(j, file, next_rain_id)
    BY <1>2, <1>5, <2>1, <2>2 DEF JobOK
  <2>4. j.at \notin {"record", "write", "forget", "clear"}
    BY <1>5, <2>1 DEF NotOnFile
  <2>5. job' = [job EXCEPT ![p] = j]
    BY <1>5 DEF j
  <2> QED
    BY <1>1, <2>3, <2>4, <2>5, KeepsQuietly
<1>6. CASE ReadRain(p)
  <2>1. job' = [job EXCEPT ![p] = read]
    BY <1>6 DEF ReadRain
  <2> QED
    BY <1>3, <1>4, <1>5, <2>1 DEF NotOnFile
<1>7. CASE Reread(p)
  <2>1. job' = [job EXCEPT ![p] = again]
    BY <1>7 DEF Reread
  <2> QED
    BY <1>3, <1>5, <2>1 DEF NotOnFile
<1> QED
  BY <1>6, <1>7

LEMMA CloseKeeps ==
  ASSUME NEW p, Runs = {p}, BookInv, ResolveDraw(p) \/ AbandonDraw(p)
  PROVE  BookInv' /\ \A r \in RainIds : Astray(r)' = Astray(r)
<1> DEFINE k == job[p]
           j == [k EXCEPT !.at = "reread"]
<1>1. /\ job' = [job EXCEPT ![p] = j] /\ k.at \in {"resolve", "abandon"}
      /\ UNCHANGED <<file, taken, fails>>
      /\ Resolve(k.rain) \/ Abandon(k.rain)
  BY DEF ResolveDraw, AbandonDraw, At, Go
<1>2. /\ k \in JobRec /\ k.last <= next_rain_id /\ file = NoFile
      /\ k.rain \in 1 .. next_rain_id /\ k.rain \in RainIds
  BY <1>1, RunIs DEF JobOK, NotOnFile
<1>3. HubNext
  BY <1>1, <1>2 DEF HubNext, Next
<1>4. j.at = "reread" /\ j.last = k.last /\ j.rain = k.rain
  BY <1>2 DEF JobRec
<1>5. j \in JobRec
  BY <1>2, StepNames DEF JobRec
<1> HIDE DEF j
<1>6. JobOK(j, file, next_rain_id)
  BY <1>2, <1>4, <1>5 DEF JobOK, Recorded
<1> QED
  BY <1>1, <1>3, <1>4, <1>6, KeepsQuietly

LEMMA NextRainKeeps ==
  ASSUME NEW p, Runs = {p}, BookInv, HubNext \/ UNCHANGED vars, NextRain(p),
         UNCHANGED <<file, taken, fails>>, job[p].at \in {"ticket", "claim"}
  PROVE  BookInv' /\ \A r \in RainIds : Astray(r)' = Astray(r)
<1> DEFINE k == job[p]
           j == NextJob(k, k.rain + 1)
<1>1. job' = [job EXCEPT ![p] = j]
  BY DEF NextRain
<1>2. /\ k \in JobRec /\ k.last <= next_rain_id /\ file = NoFile
      /\ next_rain_id \in Nat /\ k.rain + 1 \in Nat \ {0}
  BY RunIs DEF JobOK, NotOnFile, JobRec
<1>3. JobOK(j, file, next_rain_id) /\ j.at \in {"idle", "rain"}
  BY <1>2, NextJobOK
<1> HIDE DEF j
<1> QED
  BY <1>1, <1>3, KeepsQuietly

LEMMA ReadTicketKeeps ==
  ASSUME NEW p, Runs = {p}, BookInv, ReadTicket(p)
  PROVE  BookInv' /\ \A r \in RainIds : Astray(r)' = Astray(r)
<1> DEFINE k == job[p]
           j == [k EXCEPT !.at = "claim", !.rec = NoRec]
<1>1. k.at = "ticket" /\ UNCHANGED <<vars, file, taken, fails>>
  BY DEF ReadTicket, At, Quiet
<1>2. NextRain(p) \/ job' = [job EXCEPT ![p].at = "claim", ![p].rec = NoRec]
  BY DEF ReadTicket
<1>3. CASE NextRain(p)
  BY <1>1, <1>3, NextRainKeeps
<1>4. CASE job' = [job EXCEPT ![p].at = "claim", ![p].rec = NoRec]
  <2>1. /\ k \in JobRec /\ k.last <= next_rain_id /\ file = NoFile
        /\ k.rain \in 1 .. next_rain_id /\ p \in DOMAIN job
    BY <1>1, RunIs DEF JobOK, NotOnFile, BookInv
  <2>2. job' = [job EXCEPT ![p] = j]
    BY <1>4, <2>1 DEF BookInv
  <2>3. j.at = "claim" /\ j.last = k.last /\ j.rain = k.rain
    BY <2>1 DEF JobRec
  <2>4. j \in JobRec
    BY <2>1, StepNames DEF JobRec
  <2> HIDE DEF j
  <2>5. JobOK(j, file, next_rain_id)
    BY <2>1, <2>3, <2>4 DEF JobOK, Recorded
  <2> QED
    BY <1>1, <2>2, <2>3, <2>5, KeepsQuietly
<1> QED
  BY <1>2, <1>3, <1>4

\* A refused call ends the pass with nothing in hand that is not on file.
LEMMA RefusedKeeps ==
  ASSUME NEW p, Runs = {p}, BookInv, Refused(p)
  PROVE  BookInv' /\ \A r \in RainIds : Astray(r)' = Astray(r)
<1>1. /\ job' = [job EXCEPT ![p] = Idle]
      /\ job[p].at \in {"resolve", "abandon", "claim", "redeposit", "deposit"}
      /\ UNCHANGED <<vars, file, taken, fails>>
  BY DEF Refused, At, Quiet
<1>2. JobOK(Idle, file, next_rain_id)
  BY RunIs, IdleOK
<1> QED
  BY <1>1, <1>2, IdleOK, KeepsQuietly

-----------------------------------------------------------------------------
(* Steps that move money, and those that say so in the file *)

\* What is held for a rain, by the step alone.
LEMMA HeldIs ==
  ASSUME NEW j \in JobRec, NEW r
  PROVE  /\ j.at \in {"record", "write"} =>
              /\ HeldAt(j, r, {"record", "write"}) =
                     IF j.rain = r THEN j.amount ELSE 0
              /\ HeldAt(j, r, {"forget", "clear"}) = 0
         /\ j.at \in {"forget", "clear"} =>
              /\ HeldAt(j, r, {"forget", "clear"}) =
                     IF j.rain = r THEN j.amount ELSE 0
              /\ HeldAt(j, r, {"record", "write"}) = 0
         /\ j.at \notin {"record", "write", "forget", "clear"} =>
              /\ HeldAt(j, r, {"forget", "clear"}) = 0
              /\ HeldAt(j, r, {"record", "write"}) = 0
  BY DEF HeldAt

\* A deposit: what was on file is put back and awaits its clearing.
LEMMA PutBackKeeps ==
  ASSUME NEW p, Runs = {p}, BookInv,
         \/ PutBack(p, "redeposit", "forget")
         \/ PutBack(p, "deposit", "clear")
  PROVE  BookInv' /\ \A r \in RainIds : Astray(r)' = Astray(r)
<1> DEFINE k == job[p]
<1>1. PICK step \in {"redeposit", "deposit"}, then \in {"forget", "clear"} :
          PutBack(p, step, then)
  OBVIOUS
<1> DEFINE j == [k EXCEPT !.at = then]
<1>2. /\ job' = [job EXCEPT ![p] = j] /\ k.at \in {"redeposit", "deposit"}
      /\ taken' = [taken EXCEPT ![k.rain] = @ - k.amount]
      /\ UNCHANGED <<file, fails>> /\ Deposit(k.rain, k.amount)
  BY <1>1 DEF PutBack, At, Go
<1>3. /\ k \in JobRec /\ k.last <= next_rain_id /\ file = <<k.amount, k.rain>>
      /\ k.rain \in 1 .. next_rain_id /\ k.rain \in RainIds /\ k.amount \in Nat
      /\ FileOK(file, next_rain_id)
  BY <1>2, RunIs DEF JobOK, Recorded, NotOnFile, JobRec
<1>4. HubNext
  BY <1>2, <1>3 DEF HubNext
<1>5. /\ j.at = then /\ j.last = k.last /\ j.rain = k.rain
      /\ j.amount = k.amount
  BY <1>3 DEF JobRec
<1>6. j \in JobRec
  BY <1>3, StepNames DEF JobRec
<1> HIDE DEF j
<1>7. JobOK(j, file', next_rain_id)
  BY <1>2, <1>3, <1>5, <1>6 DEF JobOK, NotOnFile
<1>8. taken' \in [RainIds -> Int] /\ fails' \in Nat
  BY <1>2, <1>3 DEF BookInv
<1>9. ASSUME NEW r \in RainIds
      PROVE  Books(j, file', taken', r) = Books(k, file, taken, r)
  <2>1. /\ taken[r] \in Int
        /\ taken'[r] = taken[r] - (IF k.rain = r THEN k.amount ELSE 0)
    BY <1>2, <1>3 DEF BookInv
  <2>2. /\ HeldAt(j, r, {"forget", "clear"}) =
               IF k.rain = r THEN k.amount ELSE 0
        /\ HeldAt(j, r, {"record", "write"}) = 0
    BY <1>5, <1>6, HeldIs
  <2>3. /\ HeldAt(k, r, {"forget", "clear"}) = 0
        /\ HeldAt(k, r, {"record", "write"}) = 0
    BY <1>2, <1>3, HeldIs
  <2>4. (IF file[2] = r THEN file[1] ELSE 0) \in Nat /\ file' = file
    BY <1>2, <1>3
  <2> QED
    BY <1>3, <2>1, <2>2, <2>3, <2>4 DEF Books
<1> QED
  BY <1>2, <1>3, <1>4, <1>7, <1>8, <1>9, Keeps

LEMMA NoFileIs == NoFile[1] = 0 /\ NoFile[2] = 0 /\ \A n : FileOK(NoFile, n)
  BY DEF NoFile, FileOK

\* The record is cleared once its money is back.
LEMMA ClearKeeps ==
  ASSUME NEW p, Runs = {p}, BookInv, Forget(p) \/ Clear(p)
  PROVE  BookInv' /\ \A r \in RainIds : Astray(r)' = Astray(r)
<1> DEFINE k == job[p]
<1>1. /\ k.at \in {"forget", "clear"} /\ file' = NoFile
      /\ UNCHANGED <<vars, taken, fails>>
  BY DEF Forget, Clear, At
<1>2. /\ k \in JobRec /\ k.last <= next_rain_id /\ file = <<k.amount, k.rain>>
      /\ k.amount \in Nat /\ k.rain + 1 \in Nat \ {0} /\ next_rain_id \in Nat
  BY <1>1, RunIs DEF JobOK, Recorded, JobRec
<1>3. PICK j : /\ job' = [job EXCEPT ![p] = j] /\ j.at \in {"list", "idle", "rain"}
               /\ JobOK(j, NoFile, next_rain_id)
  <2>1. CASE Forget(p)
    <3> DEFINE j == [k EXCEPT !.at = "list"]
    <3>1. job' = [job EXCEPT ![p] = j]
      BY <2>1 DEF Forget, Go
    <3>2. j.at = "list" /\ j.last = k.last
      BY <1>2 DEF JobRec
    <3>3. j \in JobRec
      BY <1>2, StepNames DEF JobRec
    <3> HIDE DEF j
    <3>4. JobOK(j, NoFile, next_rain_id)
      BY <1>2, <3>2, <3>3 DEF JobOK, Recorded
    <3> QED
      BY <3>1, <3>2, <3>4
  <2>2. CASE Clear(p)
    <3> DEFINE j == NextJob(k, k.rain + 1)
    <3>1. job' = [job EXCEPT ![p] = j]
      BY <2>2 DEF Clear, NextRain
    <3>2. JobOK(j, NoFile, next_rain_id) /\ j.at \in {"idle", "rain"}
      BY <1>2, NextJobOK
    <3> HIDE DEF j
    <3> QED
      BY <3>1, <3>2
  <2> QED
    BY <2>1, <2>2
<1>4. j \in JobRec
  BY <1>3 DEF JobOK
<1>5. ASSUME NEW r \in RainIds
      PROVE  Books(j, file', taken', r) = Books(k, file, taken, r)
  <2>1. /\ HeldAt(j, r, {"forget", "clear"}) = 0
        /\ HeldAt(j, r, {"record", "write"}) = 0
    BY <1>3, <1>4, HeldIs
  <2>2. /\ HeldAt(k, r, {"forget", "clear"}) =
               IF k.rain = r THEN k.amount ELSE 0
        /\ HeldAt(k, r, {"record", "write"}) = 0
    BY <1>1, <1>2, HeldIs
  <2>3. (IF file'[2] = r THEN file'[1] ELSE 0) = 0
    BY <1>1, NoFileIs
  <2>4. (IF file[2] = r THEN file[1] ELSE 0) = IF k.rain = r THEN k.amount ELSE 0
    BY <1>2
  <2>5. taken[r] \in Int /\ taken' = taken
    BY <1>1 DEF BookInv
  <2> QED
    BY <1>2, <2>1, <2>2, <2>3, <2>4, <2>5 DEF Books
<1>6. FileOK(file', next_rain_id) /\ taken' \in [RainIds -> Int] /\ fails' \in Nat
  BY <1>1, NoFileIs DEF BookInv
<1> QED
  BY <1>1, <1>3, <1>5, <1>6, Keeps

\* Writing the record: first the file is empty, then it holds the amount that
\* the pass holds until then.
LEMMA RecordKeeps ==
  ASSUME NEW p, Runs = {p}, BookInv, Record(p)
  PROVE  BookInv' /\ \A r \in RainIds : Astray(r)' = Astray(r)
<1> DEFINE k == job[p]
           j == [k EXCEPT !.at = "write"]
<1>1. /\ job' = [job EXCEPT ![p] = j] /\ k.at = "record" /\ file' = NoFile
      /\ UNCHANGED <<vars, taken, fails>>
  BY DEF Record, At, Go
<1>2. /\ k \in JobRec /\ k.last <= next_rain_id /\ file = NoFile
      /\ k.amount > 0 /\ k.rain \in 1 .. next_rain_id
  BY <1>1, RunIs DEF JobOK, NotOnFile
<1>3. /\ j.at = "write" /\ j.last = k.last /\ j.rain = k.rain
      /\ j.amount = k.amount
  BY <1>2 DEF JobRec
<1>4. j \in JobRec
  BY <1>2, StepNames DEF JobRec
<1> HIDE DEF j
<1>5. JobOK(j, file', next_rain_id)
  BY <1>1, <1>2, <1>3, <1>4 DEF JobOK, Recorded
<1>6. ASSUME NEW r \in RainIds
      PROVE  Books(j, file', taken', r) = Books(k, file, taken, r)
  BY <1>1, <1>2, <1>3 DEF Books, HeldAt
<1>7. FileOK(file', next_rain_id) /\ taken' \in [RainIds -> Int] /\ fails' \in Nat
  BY <1>1, NoFileIs DEF BookInv
<1> QED
  BY <1>1, <1>5, <1>6, <1>7, Keeps

LEMMA WriteKeeps ==
  ASSUME NEW p, Runs = {p}, BookInv, Write(p)
  PROVE  BookInv' /\ \A r \in RainIds : Astray(r)' = Astray(r)
<1> DEFINE k == job[p]
           j == [k EXCEPT !.at = "deposit"]
<1>1. /\ job' = [job EXCEPT ![p] = j] /\ k.at = "write"
      /\ file' = <<k.amount, k.rain>> /\ UNCHANGED <<vars, taken, fails>>
  BY DEF Write, At, Go
<1>2. /\ k \in JobRec /\ k.last <= next_rain_id /\ file = NoFile
      /\ k.amount \in Nat \ {0} /\ k.rain \in 1 .. next_rain_id
  BY <1>1, RunIs DEF JobOK, NotOnFile, JobRec
<1>3. /\ j.at = "deposit" /\ j.last = k.last /\ j.rain = k.rain
      /\ j.amount = k.amount
  BY <1>2 DEF JobRec
<1>4. j \in JobRec
  BY <1>2, StepNames DEF JobRec
<1> HIDE DEF j
<1>5. JobOK(j, file', next_rain_id)
  BY <1>1, <1>2, <1>3, <1>4 DEF JobOK, NotOnFile
<1>6. ASSUME NEW r \in RainIds
      PROVE  Books(j, file', taken', r) = Books(k, file, taken, r)
  <2>1. /\ HeldAt(j, r, {"forget", "clear"}) = 0
        /\ HeldAt(j, r, {"record", "write"}) = 0
    BY <1>3, <1>4, HeldIs
  <2>2. /\ HeldAt(k, r, {"record", "write"}) =
               IF k.rain = r THEN k.amount ELSE 0
        /\ HeldAt(k, r, {"forget", "clear"}) = 0
    BY <1>1, <1>2, HeldIs
  <2>3. (IF file[2] = r THEN file[1] ELSE 0) = 0
    BY <1>2, NoFileIs
  <2>4. (IF file'[2] = r THEN file'[1] ELSE 0)
            = IF k.rain = r THEN k.amount ELSE 0
    BY <1>1
  <2>5. taken[r] \in Int /\ taken' = taken
    BY <1>1 DEF BookInv
  <2> QED
    BY <1>2, <2>1, <2>2, <2>3, <2>4, <2>5 DEF Books
<1>7. FileOK(file', next_rain_id) /\ taken' \in [RainIds -> Int] /\ fails' \in Nat
  BY <1>1, <1>2 DEF BookInv, FileOK
<1> QED
  BY <1>1, <1>5, <1>6, <1>7, Keeps

\* What a claim brings is what the pass will write down.
LEMMA ClaimKeeps ==
  ASSUME NEW p, Runs = {p}, BookInv, ClaimPrize(p)
  PROVE  BookInv' /\ \A r \in RainIds : Astray(r)' = Astray(r)
<1> DEFINE k == job[p]
           claimed == AllocationOf(k.rain, Bot)
           j == [k EXCEPT !.at = "record", !.amount = claimed]
<1>1. /\ k.at = "claim" /\ Claim(Bot, k.rain) /\ UNCHANGED <<file, fails>>
      /\ IF claimed > 0
         THEN /\ taken' = [taken EXCEPT ![k.rain] = @ + claimed]
              /\ job' = [job EXCEPT ![p].at = "record", ![p].amount = claimed]
         ELSE NextRain(p) /\ UNCHANGED taken
  BY DEF ClaimPrize, At
<1>2. /\ k \in JobRec /\ k.last <= next_rain_id /\ file = NoFile
      /\ k.rain \in 1 .. next_rain_id /\ k.rain \in RainIds
      /\ next_rain_id \in Nat /\ k.rain + 1 \in Nat \ {0}
  BY <1>1, RunIs DEF JobOK, NotOnFile, JobRec
<1>3. HubNext
  BY <1>1, <1>2, BotAssumption DEF HubNext, Next
<1>4. claimed \in Int
  <2> DEFINE rec == rains[k.rain]
             t   == tickets[<<k.rain, Bot>>]
  <2>1. <<k.rain, Bot>> \in DOMAIN tickets
    BY <1>1 DEF Claim
  <2>2. rec \in RainRec /\ t \in Ticket
    BY <1>2, <2>1 DEF BookInv, TypeOK
  <2>3. /\ rec.cumulative \in Nat /\ rec.last_share \in Nat /\ t.credit \in Nat
    BY <2>2 DEF RainRec, Ticket
  <2>4. claimed = Allocation(rec, t)
    BY <2>1 DEF AllocationOf
  <2> HIDE DEF rec, t, claimed
  <2> QED
    BY <2>3, <2>4 DEF Allocation
<1> HIDE DEF claimed
<1>5. CASE claimed > 0
  <2>1. job' = [job EXCEPT ![p] = j]
    BY <1>1, <1>5 DEF BookInv
  <2>2. /\ j.at = "record" /\ j.last = k.last /\ j.rain = k.rain
        /\ j.amount = claimed
    BY <1>2 DEF JobRec
  <2>3. j \in JobRec
    <3>1. claimed \in Nat /\ "record" \in Steps
      BY <1>4, <1>5, StepNames
    <3> QED
      BY <1>2, <3>1 DEF JobRec
  <2> HIDE DEF j
  <2>4. JobOK(j, file', next_rain_id)
    BY <1>1, <1>2, <1>5, <2>2, <2>3 DEF JobOK, Recorded
  <2>5. ASSUME NEW r \in RainIds
        PROVE  Books(j, file', taken', r) = Books(k, file, taken, r)
    <3>1. /\ HeldAt(j, r, {"record", "write"}) =
                 IF k.rain = r THEN claimed ELSE 0
          /\ HeldAt(j, r, {"forget", "clear"}) = 0
      BY <2>2, <2>3, HeldIs
    <3>2. /\ HeldAt(k, r, {"record", "write"}) = 0
          /\ HeldAt(k, r, {"forget", "clear"}) = 0
      BY <1>1, <1>2, HeldIs
    <3>3. /\ taken[r] \in Int
          /\ taken'[r] = taken[r] + (IF k.rain = r THEN claimed ELSE 0)
      BY <1>1, <1>2, <1>4, <1>5 DEF BookInv
    <3>4. (IF file[2] = r THEN file[1] ELSE 0) = 0 /\ file' = file
      BY <1>1, <1>2, NoFileIs
    <3> QED
      BY <1>4, <3>1, <3>2, <3>3, <3>4 DEF Books
  <2>6. taken' \in [RainIds -> Int]
    BY <1>1, <1>2, <1>4, <1>5 DEF BookInv
  <2>7. FileOK(file', next_rain_id) /\ fails' \in Nat
    BY <1>1 DEF BookInv
  <2> QED
    BY <1>3, <2>1, <2>4, <2>5, <2>6, <2>7, Keeps
<1>6. CASE ~(claimed > 0)
  BY <1>1, <1>3, <1>6, NextRainKeeps
<1> QED
  BY <1>5, <1>6

LEMMA BotStepKeeps ==
  ASSUME NEW p, Runs = {p}, BookInv, BotStep(p)
  PROVE  BookInv' /\ \A r \in RainIds : Astray(r)' = Astray(r)
<1>1. CASE StartPass(p) \/ ReadPending(p) \/ ListRains(p)
  BY <1>1, StartPassKeeps, ReadPendingKeeps, ListRainsKeeps
<1>2. CASE Forget(p) \/ Clear(p)
  BY <1>2, ClearKeeps
<1>3. CASE PutBack(p, "redeposit", "forget") \/ PutBack(p, "deposit", "clear")
  BY <1>3, PutBackKeeps
<1>4. CASE ReadRain(p) \/ Reread(p)
  BY <1>4, ReadRainKeeps
<1>5. CASE ResolveDraw(p) \/ AbandonDraw(p)
  BY <1>5, CloseKeeps
<1>6. CASE ReadTicket(p)
  BY <1>6, ReadTicketKeeps
<1>7. CASE ClaimPrize(p)
  BY <1>7, ClaimKeeps
<1>8. CASE Record(p)
  BY <1>8, RecordKeeps
<1>9. CASE Write(p)
  BY <1>9, WriteKeeps
<1>10. CASE Refused(p)
  BY <1>10, RefusedKeeps
<1> QED
  BY <1>1, <1>2, <1>3, <1>4, <1>5, <1>6, <1>7, <1>8, <1>9, <1>10, Zenon
     DEF BotStep

\* A pass that dies loses what it holds; what is on file stays there.
LEMMA FailKeeps ==
  ASSUME NEW p, Runs = {p}, BookInv, Fail(p)
  PROVE  /\ BookInv'
         /\ \A r \in RainIds :
              Astray(r)' # Astray(r) =>
                 /\ fails' = fails + 1
                 /\ AtSteps(r, {"record", "write", "forget", "clear"}) # {}
<1>1. job' = [job EXCEPT ![p] = Idle] /\ UNCHANGED <<vars, file, taken>>
      /\ fails' = fails + 1
  BY DEF Fail
<1>2. JobOK(Idle, file, next_rain_id) /\ job[p] \in JobRec
      /\ FileOK(file, next_rain_id)
  BY RunIs, IdleOK
<1>3. taken' \in [RainIds -> Int] /\ fails' \in Nat
  BY <1>1 DEF BookInv
<1>4. BookInv' /\ job'[p] = Idle
  BY <1>1, <1>2, <1>3, RunStep
<1>5. job[p].amount \in Nat /\ job'[p].amount \in Nat
  BY <1>2, <1>4, IdleOK DEF JobRec
<1>6. ASSUME NEW r \in RainIds,
             AtSteps(r, {"record", "write", "forget", "clear"}) = {}
      PROVE  Astray(r)' = Astray(r)
  <2>1. ~(/\ job[p].at \in {"record", "write", "forget", "clear"}
          /\ job[p].rain = r)
    BY <1>6 DEF AtSteps
  <2>2. /\ HeldAt(job[p], r, {"record", "write"}) = 0
        /\ HeldAt(job[p], r, {"forget", "clear"}) = 0
    BY <2>1 DEF HeldAt
  <2>3. /\ HeldAt(Idle, r, {"record", "write"}) = 0
        /\ HeldAt(Idle, r, {"forget", "clear"}) = 0
    BY IdleOK, HeldIs
  <2>4. Books(Idle, file', taken', r) = Books(job[p], file, taken, r)
    BY <1>1, <2>2, <2>3 DEF Books
  <2> QED
    BY <1>4, <1>5, <2>4, AstrayIs
<1> QED
  BY <1>1, <1>4, <1>6

\* The others move: the run, its file and its books are left alone.
LEMMA WorldKeeps ==
  ASSUME NEW p, Runs = {p}, BookInv, World \/ UNCHANGED allVars
  PROVE  BookInv' /\ \A r \in RainIds : Astray(r)' = Astray(r)
<1>1. HubNext \/ UNCHANGED vars
  BY WorldOnHub DEF allVars
<1>2. UNCHANGED <<job, file, taken, fails>>
  BY WorldOnHub DEF allVars, botVars
<1>3. job' = [job EXCEPT ![p] = job[p]]
  BY <1>2 DEF BookInv
<1>4. JobOK(job[p], file', next_rain_id) /\ FileOK(file', next_rain_id)
  BY <1>2, RunIs
<1>5. taken' \in [RainIds -> Int] /\ fails' \in Nat
  BY <1>2 DEF BookInv
<1>6. \A r \in RainIds : Books(job[p], file', taken', r)
                            = Books(job[p], file, taken, r)
  BY <1>2
<1> QED
  BY <1>1, <1>3, <1>4, <1>5, <1>6, Keeps

LEMMA BookInit ==
  ASSUME NEW p, Runs = {p}, BotInit
  PROVE  BookInv
<1>1. TypeOK
  BY TypeInit DEF BotInit
<1>2. next_rain_id = 0 /\ next_rain_id <= MaxRains
  BY InputAssumption DEF BotInit, Init
<1>3. file = NoFile /\ FileOK(file, next_rain_id)
  BY NoFileIs DEF BotInit
<1>4. taken \in [RainIds -> Int] /\ fails \in Nat
  BY DEF BotInit
<1>5. job = [q \in Runs |-> Idle]
  BY DEF BotInit
<1>6. job \in [Runs -> JobRec] /\ \A q \in Runs : JobOK(job[q], file, next_rain_id)
  BY <1>2, <1>5, IdleOK
<1> QED
  BY <1>1, <1>2, <1>3, <1>4, <1>6 DEF BookInv

-----------------------------------------------------------------------------
\* A bot of one run keeps its books for each rain: what it claims it deposits
\* again, into the same rain and once, whatever the hub's other callers do in
\* between and wherever its passes die, save between a claim and its record or
\* between a deposit and the clearing of its record (rain_bot.py:355-421).
THEOREM BooksAlwaysKept ==
  ASSUME NEW p, Runs = {p}
  PROVE  BotSpec => BooksKept
<1> DEFINE Kept ==
      \A r \in RainIds :
         Astray(r)' # Astray(r) =>
            /\ fails' = fails + 1
            /\ AtSteps(r, {"record", "write", "forget", "clear"}) # {}
<1>1. BotInit => BookInv
  BY BookInit
<1>2. BookInv /\ [BotNext]_allVars => BookInv' /\ Kept
  <2> SUFFICES ASSUME BookInv, [BotNext]_allVars PROVE BookInv' /\ Kept
    OBVIOUS
  <2>1. CASE World \/ UNCHANGED allVars
    BY <2>1, WorldKeeps
  <2>2. CASE BotStep(p)
    BY <2>2, BotStepKeeps
  <2>3. CASE Fail(p)
    BY <2>3, FailKeeps
  <2> QED
    BY <2>1, <2>2, <2>3 DEF BotNext
<1>3. BotInit /\ [][BotNext]_allVars => [][Kept]_allVars
  BY <1>1, <1>2, PTL
<1> QED
  BY <1>3 DEF BotSpec, BooksKept

-----------------------------------------------------------------------------
(* The readers of a rain's box *)

USE DEF SPLIT, ONE, WAVE

\* A quotient reaches w exactly when w times the divisor fits.
LEMMA QuotientAtLeast ==
  ASSUME NEW n \in Nat, NEW d \in Nat, d > 0, NEW w \in Nat, w * d <= n
  PROVE  n \div d >= w
OBVIOUS

LEMMA QuotientPositive ==
  ASSUME NEW n \in Nat, NEW d \in Nat, d > 0
  PROVE  (n \div d > 0) <=> (n >= d)
OBVIOUS

\* The terms of every rain were validated when they were set.
Termed == \A q \in DOMAIN rains : rains[q].drip > 0

\* What the readers rely on.
Readable == TypeOK /\ Started /\ Termed

\* What a rain is, until set_rain changes its drip and its interval.
SameTerms(rec, was) ==
    /\ rec.creator = was.creator
    /\ rec.gate_creator = was.gate_creator
    /\ rec.prize_asset = was.prize_asset
    /\ rec.mode = was.mode
    /\ rec.drip = was.drip
    /\ rec.interval_rounds = was.interval_rounds

TermsStay(q) == SameTerms(rains'[q], rains[q])

LEMMA FireTerms ==
  ASSUME NEW rec \in RainRec
  PROVE  SameTerms(TryFire(rec), rec)
<1>1. SameTerms(FireSplit(rec), rec)
  BY DEF FireSplit, RainRec, SameTerms
<1>2. SameTerms(FireWave(rec), rec)
  <2>1. SameTerms(WaveFalls(rec), rec)
    BY DEF WaveFalls, RainRec, SameTerms
  <2>2. SameTerms([rec EXCEPT !.pot = Recycled(rec), !.wave_unclaimed = 0,
                              !.last_share = 0], rec)
    BY DEF RainRec, SameTerms
  <2>3. SameTerms(rec, rec)
    BY DEF SameTerms
  <2> QED
    BY <2>1, <2>2, <2>3 DEF FireWave
<1>3. SameTerms(FireOne(rec), rec)
  <2>1. SameTerms(PrizeLocked(rec), rec)
    BY DEF PrizeLocked, RainRec, SameTerms
  <2> QED
    BY <2>1 DEF FireOne, SameTerms
<1> QED
  BY <1>1, <1>2, <1>3 DEF TryFire, SameTerms

LEMMA CalledTerms ==
  ASSUME TypeOK, NEW q \in DOMAIN rains,
         \/ \E a, mbr : Enter(a, q, mbr)
         \/ \E a : Gm(a, q) \/ Claim(a, q)
         \/ \E amount : Deposit(q, amount)
         \/ Resolve(q) \/ Abandon(q)
  PROVE  TermsStay(q)
<1>1. rains[q] \in RainRec
  BY RainFacts
<1>2. ASSUME NEW a, NEW mbr, Enter(a, q, mbr)
      PROVE  TermsStay(q)
  <2>1. rains'[q] = [rains[q] EXCEPT !.tickets = @ + 1,
            !.wave_count = IF SeatFree(rains[q]) THEN @ + 1 ELSE @]
    BY <1>2 DEF Enter
  <2> QED
    BY <1>1, <2>1 DEF RainRec, TermsStay, SameTerms
<1>3. ASSUME NEW a, Gm(a, q) \/ Claim(a, q)
      PROVE  TermsStay(q)
  <2> DEFINE rec == SettledRec(rains[q], tickets[<<q, a>>])
  <2>1. /\ rec \in RainRec /\ rec.creator = rains[q].creator
        /\ rec.gate_creator = rains[q].gate_creator
        /\ rec.prize_asset = rains[q].prize_asset /\ rec.mode = rains[q].mode
        /\ rec.drip = rains[q].drip
        /\ rec.interval_rounds = rains[q].interval_rounds
    BY <1>1 DEF SettledRec, RainRec
  <2> HIDE DEF rec
  <2>2. rains'[q] = rec \/ rains'[q] = [rec EXCEPT !.wave_count = @ + 1]
    BY <1>3 DEF Gm, Claim, rec
  <2> QED
    BY <2>1, <2>2 DEF RainRec, TermsStay, SameTerms
<1>4. ASSUME NEW amount, Deposit(q, amount)
      PROVE  TermsStay(q)
  <2>1. rains'[q] = [rains[q] EXCEPT !.pot = @ + amount]
    BY <1>4 DEF Deposit
  <2> QED
    BY <1>1, <2>1 DEF RainRec, TermsStay, SameTerms
<1>5. ASSUME Resolve(q)
      PROVE  TermsStay(q)
  <2>1. rains'[q] = [rains[q] EXCEPT !.prize_locked = 0, !.commit_round = 0]
    BY <1>5 DEF Resolve
  <2> QED
    BY <1>1, <2>1 DEF RainRec, TermsStay, SameTerms
<1>6. ASSUME Abandon(q)
      PROVE  TermsStay(q)
  <2>1. rains'[q] = [rains[q] EXCEPT !.pot = @ + rains[q].prize_locked,
                                     !.prize_locked = 0, !.commit_round = 0]
    BY <1>6 DEF Abandon
  <2> QED
    BY <1>1, <2>1 DEF RainRec, TermsStay, SameTerms
<1> QED
  BY <1>2, <1>3, <1>4, <1>5, <1>6

\* A call on a rain sets a valid drip or leaves it.
LEMMA CalledDrip ==
  ASSUME TypeOK, NEW q \in DOMAIN rains, Called(q), rains[q].drip > 0
  PROVE  rains'[q].drip > 0
<1>1. rains[q] \in RainRec
  BY RainFacts
<1>2. ASSUME NEW a, NEW drip, NEW interval, SetRain(a, q, drip, interval)
      PROVE  rains'[q].drip > 0
  <2>1. /\ rains'[q] = [rains[q] EXCEPT
                          !.drip = drip, !.interval_rounds = interval]
        /\ drip > 0
    BY <1>2 DEF SetRain, TermsValid
  <2> QED
    BY <1>1, <2>1 DEF RainRec
<1>3. TermsStay(q) => rains'[q].drip > 0
  BY DEF TermsStay, SameTerms
<1> QED
  BY <1>2, <1>3, CalledTerms DEF Called

LEMMA TermedStep ==
  ASSUME TypeOK, TypeOK', Termed, [Next]_vars
  PROVE  Termed'
<1> SUFFICES ASSUME NEW q \in DOMAIN rains'  PROVE rains'[q].drip > 0
  BY DEF Termed
<1>1. ASSUME q \in DOMAIN rains, Untouched(q) \/ Fired(q)
      PROVE  rains'[q].drip > 0
  BY <1>1, RainFacts, FireTerms DEF Termed, Untouched, Fired, SameTerms
<1>2. ASSUME q \in DOMAIN rains, Called(q)
      PROVE  rains'[q].drip > 0
  BY <1>2, CalledDrip DEF Termed
<1>3. ASSUME q \notin DOMAIN rains  PROVE rains'[q].drip > 0
  <2>1. DOMAIN rains' # DOMAIN rains
    BY <1>3
  <2>2. PICK a \in Accounts, gate \in Gates \cup {NoGate},
          prize \in Assets \cup {Algo}, drip \in Drips,
          interval \in Intervals, mode \in Modes, cap \in WaveCaps,
          mbr \in MbrPayments :
            CreateRain(a, gate, prize, drip, interval, mode, cap, mbr)
    BY <2>1, NextIdMoves DEF TypeOK
  <2>3. q = next_rain_id + 1
    BY <1>3, <2>2 DEF CreateRain, Put, TypeOK
  <2> QED
    BY <2>2, <2>3 DEF CreateRain, Put, TermsValid
<1> QED
  BY <1>1, <1>2, <1>3, StepShape DEF Fresh

LEMMA AlwaysReadable == Spec => []Readable
<1>1. Init => Started /\ Termed
  BY DEF Init, Started, Termed
<1>2. TypeOK /\ TypeOK' /\ Started /\ Termed /\ [Next]_vars
        => Started' /\ Termed'
  BY StartedStep, TermedStep
<1> QED
  BY <1>1, <1>2, TypeCorrect, PTL DEF Spec, Readable

\* The numbers of a rain's box, and of what the readers compute from them.
LEMMA ReaderFacts ==
  ASSUME NEW rec \in RainRec, rec.drip > 0
  PROVE  /\ rec.mode \in {SPLIT, ONE, WAVE} /\ rec.drip \in Nat \ {0}
         /\ rec.pot \in Nat /\ rec.tickets \in Nat /\ rec.wave_count \in Nat
         /\ rec.prize_locked \in Nat /\ rec.draw_id \in Nat
         /\ rec.wave_unclaimed \in Nat
         /\ Count(rec) = Sharers(rec) /\ Count(rec) \in Nat
         /\ Share(rec) \in Nat /\ Paid(rec) \in Nat /\ Paid(rec) <= rec.drip
         /\ Share(rec) > 0 <=> Paid(rec) > 0
         /\ Share(rec) > 0 => Count(rec) > 0
         /\ rec.mode # ONE => DropShare(rec) = Share(rec)
         /\ rec.mode # ONE => DropPaid(rec) = Paid(rec)
         /\ rec.mode = ONE /\ rec.tickets > 0 => DropPaid(rec) = rec.drip
         /\ PayablePot(rec) =
               IF rec.mode = WAVE THEN Recycled(rec) ELSE rec.pot
         /\ PayablePot(rec) \in Nat
<1>1. /\ rec.mode \in {SPLIT, ONE, WAVE} /\ rec.drip \in Nat \ {0}
      /\ rec.pot \in Nat /\ rec.tickets \in Nat /\ rec.wave_count \in Nat
      /\ rec.prize_locked \in Nat /\ rec.draw_id \in Nat
      /\ rec.wave_unclaimed \in Nat /\ rec.last_share \in Nat
  BY DEF RainRec
<1>2. Count(rec) = Sharers(rec) /\ Count(rec) \in Nat
  BY <1>1 DEF Count, Sharers
<1>3. /\ Share(rec) \in Nat /\ Paid(rec) \in Nat /\ Recycled(rec) \in Nat
      /\ Share(rec) > 0 => Count(rec) > 0
  BY <1>2, AmountsType
<1>4. Paid(rec) <= rec.drip
  <2>1. CASE Sharers(rec) = 0
    BY <1>1, <2>1 DEF Paid, Share
  <2>2. CASE Sharers(rec) # 0
    BY <1>1, <1>2, <2>2, Quotient DEF Paid, Share
  <2> QED
    BY <2>1, <2>2
<1>5. Share(rec) > 0 <=> Paid(rec) > 0
  <2>1. ASSUME NEW m \in Nat, NEW n \in Nat, m > 0 => n > 0
        PROVE  m > 0 <=> m * n > 0
    BY <2>1
  <2> QED
    BY <1>2, <1>3, <2>1 DEF Paid
<1>6. rec.mode # ONE => DropShare(rec) = Share(rec) /\ DropPaid(rec) = Paid(rec)
  BY <1>2 DEF DropShare, DropPaid, Share, Paid
<1>7. rec.mode = ONE /\ rec.tickets > 0 => DropPaid(rec) = rec.drip
  BY DEF DropPaid
<1>8. PayablePot(rec) = IF rec.mode = WAVE THEN Recycled(rec) ELSE rec.pot
  BY DEF PayablePot, Recycled
<1> QED
  BY <1>1, <1>2, <1>3, <1>4, <1>5, <1>6, <1>7, <1>8

\* A rain waits for a reason that money cannot cure, or for money.
LEMMA WaitsForMoney ==
  ASSUME NEW rec \in RainRec, rec.drip > 0
  PROVE  /\ Waiting(rec) <=> Blocked(rec) \/ PayablePot(rec) < DropPaid(rec)
         /\ ~Blocked(rec) => DropPaid(rec) \in Nat \ {0} /\ DropPaid(rec) <= rec.drip
<1>1. CASE rec.mode = ONE
  <2>1. /\ Waiting(rec) <=> \/ rec.prize_locked > 0 \/ rec.tickets = 0
                            \/ PayablePot(rec) < DropPaid(rec)
        /\ Blocked(rec) <=> rec.prize_locked > 0 \/ rec.tickets = 0
    BY <1>1, ReaderFacts DEF Waiting, Blocked, Count
  <2> QED
    BY <1>1, <2>1, ReaderFacts
<1>2. CASE rec.mode # ONE
  <2>1. /\ Waiting(rec) <=> \/ Count(rec) = 0 \/ Share(rec) = 0
                            \/ PayablePot(rec) < Paid(rec)
        /\ Blocked(rec) <=> Count(rec) = 0 \/ Share(rec) = 0
    BY <1>2, ReaderFacts DEF Waiting, Blocked, Count
  <2> QED
    BY <1>2, <2>1, ReaderFacts
<1> QED
  BY <1>1, <1>2

\* A rain fires exactly when it is due and waits for nothing.
LEMMA FiresExactly ==
  ASSUME NEW rec \in RainRec, rec.drip > 0, round \in Nat
  PROVE  Fires(rec) <=> Due(rec) /\ ~Waiting(rec)
<1>1. CASE ~Due(rec)
  BY <1>1 DEF Fires, TryFire
<1>2. CASE Due(rec) /\ rec.mode = SPLIT
  <2>1. TryFire(rec) = FireSplit(rec)
    BY <1>2 DEF TryFire
  <2>2. CASE Share(rec) > 0 /\ rec.pot >= Paid(rec)
    <3>1. FireSplit(rec).draw_id = rec.draw_id + 1
      BY <2>2 DEF FireSplit, RainRec
    <3> QED
      BY <1>2, <2>1, <2>2, <3>1, ReaderFacts DEF Fires, Waiting
  <2>3. CASE ~(Share(rec) > 0 /\ rec.pot >= Paid(rec))
    <3>1. FireSplit(rec) = rec
      BY <2>3 DEF FireSplit
    <3> QED
      BY <1>2, <2>1, <2>3, <3>1, ReaderFacts DEF Fires, Waiting
  <2> QED
    BY <2>2, <2>3
<1>3. CASE Due(rec) /\ rec.mode = WAVE
  <2>1. TryFire(rec) = FireWave(rec)
    BY <1>3 DEF TryFire
  <2>2. Count(rec) = rec.wave_count
    BY <1>3 DEF Count
  <2>3. CASE rec.wave_count = 0 /\ rec.wave_unclaimed > 0
    <3>1. FireWave(rec).draw_id = rec.draw_id
      BY <2>3 DEF FireWave, RainRec
    <3> QED
      BY <1>3, <2>1, <2>2, <2>3, <3>1 DEF Fires, Waiting
  <2>4. CASE /\ ~(rec.wave_count = 0 /\ rec.wave_unclaimed > 0)
             /\ Share(rec) > 0 /\ Recycled(rec) >= Paid(rec)
    <3>1. FireWave(rec).draw_id = rec.draw_id + 1
      BY <2>4 DEF FireWave, WaveFalls, RainRec
    <3> QED
      BY <1>3, <2>1, <2>4, <3>1, ReaderFacts DEF Fires, Waiting
  <2>5. CASE /\ ~(rec.wave_count = 0 /\ rec.wave_unclaimed > 0)
             /\ ~(Share(rec) > 0 /\ Recycled(rec) >= Paid(rec))
    <3>1. FireWave(rec) = rec
      BY <2>5 DEF FireWave
    <3> QED
      BY <1>3, <2>1, <2>5, <3>1, ReaderFacts DEF Fires, Waiting
  <2> QED
    BY <2>3, <2>4, <2>5
<1>4. CASE Due(rec) /\ rec.mode = ONE
  <2>1. TryFire(rec) = FireOne(rec)
    BY <1>4 DEF TryFire
  <2>2. CASE rec.prize_locked = 0 /\ rec.tickets > 0 /\ rec.pot >= rec.drip
    <3>1. FireOne(rec).draw_id = rec.draw_id + 1
      BY <2>2 DEF FireOne, PrizeLocked, RainRec
    <3> QED
      BY <1>4, <2>1, <2>2, <3>1, ReaderFacts DEF Fires, Waiting, Count
  <2>3. CASE ~(rec.prize_locked = 0 /\ rec.tickets > 0 /\ rec.pot >= rec.drip)
    <3>1. FireOne(rec) = rec
      BY <2>3 DEF FireOne
    <3> QED
      BY <1>4, <2>1, <2>3, <3>1, ReaderFacts DEF Fires, Waiting, Count
  <2> QED
    BY <2>2, <2>3
<1> QED
  BY <1>1, <1>2, <1>3, <1>4, ReaderFacts

\* Unless it is blocked, a rain has drops left exactly when it can pay one.
LEMMA DropsLeft ==
  ASSUME NEW rec \in RainRec, rec.drip > 0, ~Blocked(rec)
  PROVE  RainsRemaining(rec) = PayablePot(rec) \div DropPaid(rec)
<1>1. CASE rec.mode = ONE
  <2>1. rec.tickets > 0
    BY <1>1, ReaderFacts DEF Blocked
  <2> QED
    BY <1>1, <2>1, ReaderFacts DEF RainsRemaining, Count
<1>2. CASE rec.mode # ONE
  <2>1. Share(rec) > 0 /\ Count(rec) > 0
    BY <1>2, ReaderFacts DEF Blocked
  <2>2. ~(rec.mode = WAVE /\ rec.wave_count = 0)
    BY <2>1 DEF Count
  <2>3. rec.drip \div Count(rec) = Share(rec) /\ Paid(rec) = Share(rec) * Count(rec)
    BY <2>1, ReaderFacts DEF Share, Paid
  <2>4. DropPaid(rec) = Share(rec) * Count(rec) /\ rec.drip # 0
    BY <1>2, <2>3, ReaderFacts
  <2>5. Share(rec) # 0 /\ Count(rec) # 0
    BY <2>1, ReaderFacts
  <2> QED
    BY <1>2, <2>2, <2>3, <2>4, <2>5 DEF RainsRemaining
<1> QED
  BY <1>1, <1>2

\* For a rain as it is, every reader says what the contract does.
LEMMA RecordStanding ==
  ASSUME NEW rec \in RainRec, rec.drip > 0, rec.last_rain_round > 0,
         round \in Nat
  PROVE  /\ (Standing(rec) = "due") <=> Fires(rec)
         /\ Standing(rec) = "due" => RainsRemaining(rec) > 0
         /\ ~Blocked(rec) => (RainsRemaining(rec) > 0 <=> ~Waiting(rec))
<1>1. rec.last_rain_round \in Nat \ {0} /\ rec.interval_rounds \in Nat
  BY DEF RainRec
<1>2. RoundsUntilRain(rec) <= 0 <=> Due(rec)
  BY <1>1 DEF RoundsUntilRain, Due
<1>3. (Standing(rec) = "due") <=> ~Waiting(rec) /\ Due(rec)
  BY <1>2 DEF Standing
<1>4. ~Blocked(rec) => (RainsRemaining(rec) > 0 <=> ~Waiting(rec))
  BY DropsLeft, WaitsForMoney, ReaderFacts, QuotientPositive
<1> QED
  BY <1>3, <1>4, FiresExactly, WaitsForMoney

\* A rain reads `due` exactly when the next draw that visits it pays a drop,
\* and never beside a pot said to hold no drop, for any rain the hub can have
\* (js/src/rain.ts:452 and 536).
THEOREM StandingAlwaysTrue == Spec => []StandingTrue
<1>1. Readable => StandingTrue
  <2> SUFFICES ASSUME Readable, NEW r \in DOMAIN rains
               PROVE  LET rec == rains[r] IN
                      /\ (Standing(rec) = "due") <=> Fires(rec)
                      /\ Standing(rec) = "due" => RainsRemaining(rec) > 0
                      /\ ~Blocked(rec) =>
                            (RainsRemaining(rec) > 0 <=> ~Waiting(rec))
    BY DEF StandingTrue
  <2>1. /\ rains[r] \in RainRec /\ rains[r].drip > 0
        /\ rains[r].last_rain_round > 0 /\ round \in Nat
    BY RainFacts DEF Readable, Started, Termed
  <2> QED
    BY <2>1, RecordStanding
<1> QED
  BY <1>1, AlwaysReadable, PTL

\* What another pot changes, and what it does not.
LEMMA OtherPot ==
  ASSUME NEW rec \in RainRec, rec.drip > 0, NEW pot \in Nat
  PROVE  LET new == WithPot(rec, pot) IN
         /\ new \in RainRec /\ new.drip = rec.drip
         /\ Blocked(new) <=> Blocked(rec)
         /\ Due(new) <=> Due(rec)
         /\ DropPaid(new) = DropPaid(rec)
         /\ PayablePot(new) = PayablePot(rec) - rec.pot + pot
<1> DEFINE new == WithPot(rec, pot)
<1>1. /\ new \in RainRec /\ new.drip = rec.drip /\ new.mode = rec.mode
      /\ new.tickets = rec.tickets /\ new.wave_count = rec.wave_count
      /\ new.prize_locked = rec.prize_locked
      /\ new.last_share = rec.last_share /\ new.pot = pot
      /\ new.wave_unclaimed = rec.wave_unclaimed
      /\ new.last_rain_round = rec.last_rain_round
      /\ new.interval_rounds = rec.interval_rounds
  BY DEF WithPot, RainRec
<1> HIDE DEF new
<1>2. Sharers(new) = Sharers(rec) /\ Count(new) = Count(rec)
  BY <1>1 DEF Sharers, Count
<1>3. Share(new) = Share(rec)
  BY <1>1, <1>2 DEF Share
<1>4. Blocked(new) <=> Blocked(rec)
  BY <1>1, <1>3 DEF Blocked
<1>5. Due(new) <=> Due(rec)
  BY <1>1 DEF Due
<1>6. DropShare(new) = DropShare(rec)
  BY <1>1, <1>2 DEF DropShare
<1>7. DropPaid(new) = DropPaid(rec)
  BY <1>1, <1>2, <1>6 DEF DropPaid
<1>8. PayablePot(new) = PayablePot(rec) - rec.pot + pot
  <2>1. rec.last_share * rec.wave_unclaimed \in Nat /\ rec.pot \in Nat
    BY Product DEF RainRec
  <2> QED
    BY <1>1, <2>1 DEF PayablePot
<1> QED
  BY <1>1, <1>4, <1>5, <1>7, <1>8 DEF new

\* What is missing is what one drop costs, less what there is for it.
LEMMA ShortfallIs ==
  ASSUME NEW rec \in RainRec, rec.drip > 0, ~Blocked(rec)
  PROVE  /\ Shortfall(rec) = AtLeastZero(DropPaid(rec) - PayablePot(rec))
         /\ Shortfall(rec) \in Nat
<1>1. CASE rec.mode = ONE
  <2>1. rec.tickets > 0
    BY <1>1, ReaderFacts DEF Blocked
  <2> QED
    BY <1>1, <2>1, ReaderFacts DEF Shortfall, AtLeastZero
<1>2. CASE rec.mode # ONE
  BY <1>2, ReaderFacts, AmountsType DEF Shortfall, AtLeastZero
<1> QED
  BY <1>1, <1>2

\* With what main deposits, the pot holds the drops it was asked for.
LEMMA DepositLasts ==
  ASSUME NEW rec \in RainRec, rec.drip > 0, ~Blocked(rec), NEW waves \in Nat
  PROVE  LET deposit == SeedDeposit(rec, waves)
         IN RainsRemaining(WithPot(rec, rec.pot + deposit)) >= waves
<1> DEFINE deposit == SeedDeposit(rec, waves)
           cost    == DropPaid(rec)
           payable == PayablePot(rec)
           new     == WithPot(rec, rec.pot + deposit)
<1>1. /\ rec.pot \in Nat /\ rec.drip \in Nat \ {0} /\ payable \in Nat
      /\ cost \in Nat \ {0} /\ cost <= rec.drip
      /\ Shortfall(rec) \in Nat /\ rec.drip * waves \in Nat
  BY ReaderFacts, WaitsForMoney, ShortfallIs, Product
<1>2. deposit \in Nat /\ deposit >= rec.drip * waves
  BY <1>1 DEF SeedDeposit
<1> HIDE DEF deposit, cost, payable
<1>3. /\ new \in RainRec /\ new.drip > 0 /\ ~Blocked(new)
      /\ DropPaid(new) = cost /\ PayablePot(new) = payable + deposit
  BY <1>1, <1>2, OtherPot DEF cost, payable
<1>4. RainsRemaining(new) = (payable + deposit) \div cost
  BY <1>3, DropsLeft
<1>5. waves * cost <= payable + deposit
  <2>1. waves * cost <= rec.drip * waves
    <3>1. ASSUME NEW d \in Nat, NEW c \in Nat, c <= d, NEW w \in Nat
          PROVE  w * c <= d * w
      BY <3>1
    <3> QED
      BY <1>1, <3>1
  <2>2. waves * cost \in Nat
    BY <1>1, Product
  <2> QED
    BY <1>1, <1>2, <2>1, <2>2
<1>6. (payable + deposit) \div cost >= waves
  BY <1>1, <1>2, <1>5, QuotientAtLeast
<1> QED
  BY <1>4, <1>6 DEF deposit

\* Of a rain as it is, shortfall asks for what is missing and no unit more.
LEMMA RecordShortfall ==
  ASSUME NEW rec \in RainRec, rec.drip > 0, round \in Nat, Due(rec)
  PROVE  IF Blocked(rec)
         THEN ~Fires(WithPot(rec, Supply + rec.drip))
         ELSE /\ Fires(WithPot(rec, rec.pot + Shortfall(rec)))
              /\ Shortfall(rec) > 0 =>
                    ~Fires(WithPot(rec, rec.pot + Shortfall(rec) - 1))
<1>1. /\ rec.pot \in Nat /\ rec.drip \in Nat /\ PayablePot(rec) \in Nat
      /\ Supply \in Nat
  BY ReaderFacts, WordAssumption
<1>2. CASE Blocked(rec)
  <2> DEFINE new == WithPot(rec, Supply + rec.drip)
  <2>1. new \in RainRec /\ new.drip > 0 /\ Blocked(new)
    BY <1>1, <1>2, OtherPot
  <2>2. ~Fires(new)
    BY <2>1, FiresExactly, WaitsForMoney
  <2> QED
    BY <1>2, <2>2
<1>3. CASE ~Blocked(rec)
  <2> DEFINE need == Shortfall(rec)
             cost == DropPaid(rec)
  <2>1. /\ need = AtLeastZero(cost - PayablePot(rec)) /\ need \in Nat
        /\ cost \in Nat \ {0}
    BY <1>3, ShortfallIs, WaitsForMoney
  <2> HIDE DEF need, cost
  <2>2. ASSUME NEW pot \in Nat
        PROVE  Fires(WithPot(rec, pot)) <=>
                  PayablePot(rec) - rec.pot + pot >= cost
    <3>1. /\ WithPot(rec, pot) \in RainRec /\ WithPot(rec, pot).drip > 0
          /\ ~Blocked(WithPot(rec, pot)) /\ Due(WithPot(rec, pot))
          /\ DropPaid(WithPot(rec, pot)) = cost
          /\ PayablePot(WithPot(rec, pot)) = PayablePot(rec) - rec.pot + pot
      BY <1>3, OtherPot DEF cost
    <3>2. Fires(WithPot(rec, pot)) <=>
             ~(PayablePot(WithPot(rec, pot)) < DropPaid(WithPot(rec, pot)))
      BY <3>1, FiresExactly, WaitsForMoney
    <3> QED
      BY <1>1, <2>1, <3>1, <3>2
  <2>3. Fires(WithPot(rec, rec.pot + need))
    BY <1>1, <2>1, <2>2 DEF AtLeastZero
  <2>4. ASSUME need > 0  PROVE ~Fires(WithPot(rec, rec.pot + need - 1))
    <3>1. rec.pot + need - 1 \in Nat
      BY <1>1, <2>1, <2>4
    <3> QED
      BY <1>1, <2>1, <2>2, <2>4, <3>1 DEF AtLeastZero
  <2> QED
    BY <1>3, <2>3, <2>4 DEF need
<1> QED
  BY <1>2, <1>3

\* seed_wave_pot.py asks for exactly the money a due rain lacks: with it the
\* rain fires, with a unit less it does not, a rain it calls blocked fires with
\* no pot at all, and what is deposited lasts for the waves it was asked for,
\* whatever the rain's mode, drip and count (scripts/seed_wave_pot.py:57).
THEOREM ShortfallAlwaysExact == Spec => []ShortfallExact
<1>1. Readable => ShortfallExact
  <2> SUFFICES ASSUME Readable, NEW r \in DOMAIN rains, Due(rains[r])
               PROVE  LET rec  == rains[r]
                          need == Shortfall(rec)
                      IN IF Blocked(rec)
                         THEN ~Fires(WithPot(rec, Supply + rec.drip))
                         ELSE /\ Fires(WithPot(rec, rec.pot + need))
                              /\ need > 0 =>
                                   ~Fires(WithPot(rec, rec.pot + need - 1))
                              /\ \A waves \in WaveCounts :
                                   RainsRemaining(WithPot(rec,
                                     rec.pot + SeedDeposit(rec, waves))) >= waves
    BY DEF ShortfallExact
  <2>1. rains[r] \in RainRec /\ rains[r].drip > 0 /\ round \in Nat
    BY RainFacts DEF Readable, Termed
  <2>2. \A waves \in WaveCounts : waves \in Nat
    BY WavesAssumption
  <2> QED
    BY <2>1, <2>2, RecordShortfall, DepositLasts
<1> QED
  BY <1>1, AlwaysReadable, PTL
-----------------------------------------------------------------------------
(* The scripts *)

\* What a script and the world around it call, but for set_rain.
Deals ==
    \/ UNCHANGED vars \/ Tick \/ Draw
    \/ \E a \in Accounts, x \in Assets, h \in Holdings : Trade(a, x, h)
    \/ \E x \in Assets, mbr \in MbrPayments : OptInPrizeAsset(x, mbr)
    \/ \E a \in Accounts, gate \in Gates \cup {NoGate},
          prize \in Assets \cup {Algo}, drip \in Drips,
          interval \in Intervals, mode \in Modes, cap \in WaveCaps,
          mbr \in MbrPayments :
            CreateRain(a, gate, prize, drip, interval, mode, cap, mbr)
    \/ \E r \in DOMAIN rains :
            \/ \E a \in Accounts, mbr \in MbrPayments : Enter(a, r, mbr)
            \/ \E a \in Accounts : Claim(a, r)
            \/ \E amount \in Amounts : Deposit(r, amount)
            \/ Resolve(r) \/ Abandon(r)

LEMMA DealsStep ==
  ASSUME TypeOK, next_rain_id <= MaxRains, Deals
  PROVE  /\ [Next]_vars
         /\ \A q \in DOMAIN rains : q \in DOMAIN rains' /\ TermsStay(q)
<1>1. DOMAIN rains = 1 .. next_rain_id /\ DOMAIN rains \subseteq RainIds
  BY InputAssumption DEF TypeOK, RainIds
<1>2. [Next]_vars
  BY <1>1 DEF Deals, Next
<1>3. ASSUME NEW q \in DOMAIN rains
      PROVE  q \in DOMAIN rains' /\ TermsStay(q)
  <2>1. rains[q] \in RainRec /\ SameTerms(rains[q], rains[q])
    BY RainFacts DEF SameTerms
  <2>2. CASE q \in DOMAIN rains' /\ rains'[q] = rains[q]
    BY <2>1, <2>2 DEF TermsStay
  <2>3. CASE \/ UNCHANGED vars \/ Tick
             \/ \E a \in Accounts, x \in Assets, h \in Holdings : Trade(a, x, h)
             \/ \E x \in Assets, mbr \in MbrPayments : OptInPrizeAsset(x, mbr)
    BY <2>2, <2>3 DEF Tick, Trade, OptInPrizeAsset, vars, boxes
  <2>4. CASE Draw
    BY <2>1, <2>4, FireTerms DEF Draw, Drawn, TermsStay
  <2>5. CASE \E a \in Accounts, gate \in Gates \cup {NoGate},
               prize \in Assets \cup {Algo}, drip \in Drips,
               interval \in Intervals, mode \in Modes, cap \in WaveCaps,
               mbr \in MbrPayments :
                 CreateRain(a, gate, prize, drip, interval, mode, cap, mbr)
    <3>1. next_rain_id \in Nat /\ q # next_rain_id + 1
      BY <1>1 DEF TypeOK
    <3> QED
      BY <2>2, <2>5, <3>1 DEF CreateRain, Put
  <2>6. ASSUME NEW r \in DOMAIN rains,
               \/ \E a, mbr : Enter(a, r, mbr)
               \/ \E a : Gm(a, r) \/ Claim(a, r)
               \/ \E amount : Deposit(r, amount)
               \/ Resolve(r) \/ Abandon(r)
        PROVE  q \in DOMAIN rains' /\ TermsStay(q)
    <3>1. /\ DOMAIN rains' = DOMAIN rains
          /\ q # r => rains'[q] = rains[q]
      BY <2>6 DEF Enter, Gm, Claim, Deposit, Resolve, Abandon
    <3>2. CASE q = r
      BY <2>6, <3>1, <3>2, CalledTerms
    <3> QED
      BY <2>2, <3>1, <3>2
  <2> QED
    BY <2>3, <2>4, <2>5, <2>6 DEF Deals
<1> QED
  BY <1>2, <1>3

-----------------------------------------------------------------------------
(* The live proof and the interval it shortens *)

\* Where the daily rain's interval is short.
Shortened == {"draw_daily", "claim_daily", "restore"}

ProofFits(j) ==
    /\ {"at", "daily", "one", "asa", "prize", "fired", "until", "failing"}
            \subseteq DOMAIN j
    /\ j.daily \in {1, 2}

CadenceInv ==
    /\ TypeOK /\ next_rain_id \in 2 .. MaxRains
    /\ ProofFits(proof) /\ CadenceKept

\* A step past the shortening and before the restoring stays there, unless the
\* process dies.
Carries ==
    /\ ProofFits(proof') /\ left_short \subseteq left_short'
    /\ proof.at \in Shortened =>
          \/ proof'.at \in Shortened /\ proof'.daily = proof.daily
          \/ proof.daily \in left_short'

LEMMA ProofFitsInit == ProofFits(NoProof) /\ NoProof.at = "idle"
  BY DEF ProofFits, NoProof

LEMMA NextDailyFits ==
  ASSUME ProofFits(proof), NEW again, NEW after, NextDaily(again, after)
  PROVE  ProofFits(proof')
BY DEF NextDaily, ProofFits

LEMMA ProceedFits ==
  ASSUME ProofFits(proof), NEW step, Proceed(step)
  PROVE  ProofFits(proof') /\ proof'.at = step /\ proof'.daily = proof.daily
BY DEF Proceed, ProofFits

\* The requests that set everything up, up to the first draw.
LEMMA SettingUpDeals ==
  ASSUME TypeOK, ProofFits(proof), next_rain_id \in 2 .. MaxRains,
         \/ ProofBegins \/ LookAtPot \/ FillDaily \/ JoinDaily \/ CountRains
         \/ Mint \/ OptIn \/ OpenOne \/ OpenAsa
         \/ FillShort("fill_one", proof.one, "fill_asa")
         \/ FillShort("fill_asa", proof.asa, "join_one")
         \/ JoinShort("join_one", proof.one, ONE, "join_asa")
         \/ JoinShort("join_asa", proof.asa, SPLIT, "look_short")
  PROVE  Deals /\ Carries
<1>1. ASSUME ProofBegins \/ LookAtPot \/ CountRains
      PROVE  Deals /\ Carries
  <2>1. Deals
    BY <1>1 DEF ProofBegins, LookAtPot, CountRains, Deals
  <2>2. ProofFits(proof')
    <3>1. CASE CountRains
      BY <3>1 DEF CountRains, ProofFits
    <3> QED
      BY <1>1, <3>1, NextDailyFits, ProceedFits DEF ProofBegins, LookAtPot
  <2> QED
    BY <1>1, <2>1, <2>2 DEF ProofBegins, LookAtPot, CountRains, ProofAt,
       ProofQuiet, ledger, Carries, Shortened
<1>2. ASSUME NEW r, NEW mode, Joins(r, mode)
      PROVE  Deals
  <2>1. JoinMbr(mode) \in MbrPayments /\ Prover \in Accounts
    BY ProofAssumption, ProofOffersAssumption DEF JoinMbr
  <2> QED
    BY <1>2, <2>1 DEF Joins, Enter, Deals
<1>3. ASSUME FillDaily \/ JoinDaily
      PROVE  Deals /\ Carries
  <2>1. Deals
    BY <1>2, <1>3, ProofOffersAssumption DEF FillDaily, JoinDaily, Deposit, Deals
  <2>2. ProofFits(proof')
    BY <1>3, NextDailyFits DEF FillDaily, JoinDaily
  <2> QED
    BY <1>3, <2>1, <2>2 DEF FillDaily, JoinDaily, ProofAt, ProofQuiet, ledger,
       Carries, Shortened
<1>4. ASSUME Mint \/ OptIn
      PROVE  Deals /\ Carries
  <2>1. Deals
    BY <1>4, ProofAssumption, ProofOffersAssumption, AssetsAssumption
    DEF Mint, OptIn, OptInPrizeAsset, Deals, Holdings
  <2>2. ProofFits(proof')
    BY <1>4, ProceedFits DEF Mint, OptIn, ProofFits
  <2> QED
    BY <1>4, <2>1, <2>2 DEF Mint, OptIn, ProofAt, ProofQuiet, ledger, Carries,
       Shortened
<1>5. ASSUME OpenOne \/ OpenAsa
      PROVE  Deals /\ Carries
  <2>1. /\ Prover \in Accounts /\ Minter \in Gates /\ {SPLIT, ONE} \subseteq Modes
        /\ 0 \in WaveCaps /\ {DailyDrip, ShortDrip} \subseteq Drips
        /\ MinInterval \in Intervals /\ RainBoxMbr \in MbrPayments
    BY ProofAssumption, ProofOffersAssumption
  <2>2. OpenAsa => proof.prize \in Assets \cup {Algo}
    BY DEF OpenAsa, CreateRain, TypeOK
  <2>3. Deals
    <3>1. CASE OpenOne
      BY <2>1, <3>1, Zenon DEF OpenOne, Deals
    <3>2. CASE OpenAsa
      BY <2>1, <2>2, <3>2, Zenon DEF OpenAsa, Deals
    <3> QED
      BY <1>5, <3>1, <3>2
  <2>4. ProofFits(proof')
    BY <1>5 DEF OpenOne, OpenAsa, ProofFits
  <2> QED
    BY <1>5, <2>3, <2>4 DEF OpenOne, OpenAsa, ProofAt, ProofQuiet, ledger,
       Carries, Shortened
<1>6. ASSUME NEW step \in {"fill_one", "fill_asa"}, NEW r, NEW then,
             FillShort(step, r, then)
      PROVE  Deals /\ Carries
  <2>1. Deals
    BY <1>6, ProofOffersAssumption DEF FillShort, Deposit, Deals
  <2>2. ProofFits(proof')
    BY <1>6 DEF FillShort, ProofFits
  <2> QED
    BY <1>6, <2>1, <2>2 DEF FillShort, ProofAt, ProofQuiet, ledger, Carries,
       Shortened
<1>7. ASSUME NEW step \in {"join_one", "join_asa"}, NEW r, NEW mode, NEW then,
             JoinShort(step, r, mode, then)
      PROVE  Deals /\ Carries
  <2>1. Deals
    BY <1>2, <1>7 DEF JoinShort
  <2>2. ProofFits(proof')
    BY <1>7 DEF JoinShort, ProofFits
  <2> QED
    BY <1>7, <2>1, <2>2 DEF JoinShort, ProofAt, ProofQuiet, ledger, Carries,
       Shortened
<1> QED
  BY <1>1, <1>3, <1>4, <1>5, <1>6, <1>7

\* The looks at what has fallen, the draws, the claims and the closing.
LEMMA ProvingDeals ==
  ASSUME TypeOK, ProofFits(proof), next_rain_id \in 2 .. MaxRains,
         \/ LookAtShort \/ ProofDraw("draw_short", "asa_owed")
         \/ LookAtAsa \/ LookIfFired
         \/ ProofClaim("claim_asa", proof.asa, "look_one")
         \/ LookAtOne("look_one") \/ ProofDraw("draw_one", "look_again")
         \/ LookAtOne("look_again")
         \/ ProofResolve \/ LookAtPrize
         \/ ProofClaim("claim_one", proof.one, "daily")
         \/ LookAtDaily \/ ProofDraw("draw_daily", "claim_daily")
         \/ ClaimDaily \/ ProofPasses \/ ProofRefused \/ ProofDies
  PROVE  Deals /\ Carries
<1>1. ASSUME \/ LookAtShort \/ LookAtAsa \/ LookIfFired \/ LookAtPrize
             \/ LookAtDaily
      PROVE  Deals /\ Carries
  <2>1. Deals
    BY <1>1 DEF LookAtShort, LookAtAsa, LookIfFired, LookAtPrize, LookAtDaily, Deals
  <2>2. ProofFits(proof')
    BY <1>1, NextDailyFits, ProceedFits
    DEF LookAtShort, LookAtAsa, LookIfFired, LookAtPrize, LookAtDaily, AfterDaily
  <2> QED
    BY <1>1, <2>1, <2>2 DEF LookAtShort, LookAtAsa, LookIfFired, LookAtPrize,
       LookAtDaily, ProofAt, ProofQuiet, ledger, Carries, Shortened
<1>2. ASSUME NEW step \in {"look_one", "look_again"}, LookAtOne(step)
      PROVE  Deals /\ Carries
  <2>1. Deals
    BY <1>2 DEF LookAtOne, Deals
  <2>2. ProofFits(proof')
    BY <1>2 DEF LookAtOne, ProofFits
  <2> QED
    BY <1>2, <2>1, <2>2 DEF LookAtOne, ProofAt, ProofQuiet, ledger, Carries,
       Shortened
<1>3. ASSUME NEW step, NEW then, ProofDraw(step, then),
             step \in Shortened => then \in Shortened
      PROVE  Deals /\ Carries
  BY <1>3, ProceedFits DEF ProofDraw, ProofAt, Falls, Deals, Carries
<1>4. ASSUME NEW r, Pays(r)
      PROVE  Deals /\ left_short' = left_short
  <2>1. r \in DOMAIN rains /\ Claim(Prover, r) /\ Prover \in Accounts
    BY <1>4, ProofAssumption DEF Pays, Claim, TypeOK
  <2> QED
    BY <1>4, <2>1 DEF Pays, Deals
<1>5. ASSUME NEW step \in {"claim_asa", "claim_one"}, NEW r, NEW then,
             ProofClaim(step, r, then)
      PROVE  Deals /\ Carries
  BY <1>4, <1>5, ProceedFits DEF ProofClaim, ProofAt, Carries, Shortened
<1>6. CASE ClaimDaily
  <2>1. /\ ProofFits(proof') /\ proof'.at = "restore"
        /\ proof'.daily = proof.daily
    BY <1>6 DEF ClaimDaily, ProofFits
  <2> QED
    BY <1>4, <1>6, <2>1 DEF ClaimDaily, Carries, Shortened
<1>7. CASE ProofResolve
  <2>1. Deals
    BY <1>7 DEF ProofResolve, Resolve, DrawOpen, Deals
  <2>2. ProofFits(proof')
    BY <1>7 DEF ProofResolve, ProofFits
  <2> QED
    BY <1>7, <2>1, <2>2 DEF ProofResolve, ProofAt, Falls, Carries, Shortened
<1>8. CASE ProofPasses
  BY <1>8, ProofFitsInit DEF ProofPasses, ProofAt, Deals, Carries, Shortened
<1>9. CASE ProofRefused
  <2>1. UNCHANGED vars /\ left_short' = left_short
    BY <1>9 DEF ProofRefused, ProofQuiet, ledger
  <2>2. CASE ProofAt("claim_daily")
    <3>1. /\ ProofFits(proof') /\ proof'.at = "restore"
          /\ proof'.daily = proof.daily
      BY <1>9, <2>2 DEF ProofRefused, ProofFits
    <3> QED
      BY <2>1, <3>1 DEF Deals, Carries, Shortened
  <2>3. CASE ~ProofAt("claim_daily")
    <3>1. proof.at \notin Shortened
      BY <1>9, <2>3 DEF ProofRefused, ProofAt, Shortened
    <3>2. proof' = NoProof
      BY <1>9, <2>3 DEF ProofRefused
    <3> QED
      BY <2>1, <3>1, <3>2, ProofFitsInit DEF Deals, Carries
  <2> QED
    BY <2>2, <2>3
<1>10. CASE ProofDies
  BY <1>10, ProofFitsInit DEF ProofDies, Deals, Carries, Shortened
<1> QED
  BY <1>1, <1>2, <1>3, <1>5, <1>6, <1>7, <1>8, <1>9, <1>10 DEF Shortened

LEMMA ProofWorldDeals ==
  ASSUME TypeOK, ProofFits(proof), next_rain_id \in 2 .. MaxRains, ProofWorld
  PROVE  Deals /\ Carries
<1>1. Deals
  <2>1. \A r : DrawOpen(r) => r \in DOMAIN rains
    BY DEF DrawOpen
  <2>2. /\ Prover \in Accounts /\ {"empty", "some"} \subseteq Holdings
        /\ TicketMbr + IndexMbr \in MbrPayments
    BY ProofAssumption, ProofOffersAssumption DEF Holdings
  <2>3. \A a, r : Enter(a, r, TicketMbr + IndexMbr) \/ Claim(a, r) =>
            r \in DOMAIN rains
    BY DEF Enter, Claim, TypeOK
  <2>4. ASSUME NEW a \in Accounts, NEW r,
               Enter(a, r, TicketMbr + IndexMbr) \/ Claim(a, r)
        PROVE  Deals
    BY <2>2, <2>3, <2>4 DEF Deals
  <2> QED
    BY <2>1, <2>2, <2>4 DEF ProofWorld, Deals, Resolve, Abandon
<1> QED
  BY <1>1 DEF ProofWorld, Falls, Carries

\* What set_rain does to the two daily rains.
LEMMA SetsDaily ==
  ASSUME TypeOK, next_rain_id \in 2 .. MaxRains, NEW d \in {1, 2},
         NEW interval \in {MinInterval, DailyInterval},
         SetRain(Prover, d, DailyDrip, interval)
  PROVE  /\ [Next]_vars /\ next_rain_id' = next_rain_id
         /\ rains'[d].interval_rounds = interval
         /\ \A r \in {1, 2} \ {d} : rains'[r] = rains[r]
<1>1. MaxRains \in Nat /\ next_rain_id \in Nat
  BY InputAssumption DEF TypeOK
<1>2. d \in RainIds /\ Prover \in Accounts /\ DailyDrip \in Drips
      /\ interval \in Intervals
  BY <1>1, ProofAssumption, ProofOffersAssumption DEF RainIds
<1>3. [Next]_vars
  BY <1>2 DEF Next
<1>4. /\ DOMAIN rains = 1 .. next_rain_id /\ d \in DOMAIN rains
      /\ rains[d] \in RainRec /\ {1, 2} \subseteq DOMAIN rains
  BY <1>1 DEF TypeOK
<1>5. /\ rains' = [rains EXCEPT ![d] = [rains[d] EXCEPT
               !.drip = DailyDrip, !.interval_rounds = interval]]
      /\ next_rain_id' = next_rain_id
  BY DEF SetRain, hub
<1>6. [rains[d] EXCEPT !.drip = DailyDrip,
                       !.interval_rounds = interval].interval_rounds = interval
  BY <1>4 DEF RainRec
<1> QED
  BY <1>3, <1>4, <1>5, <1>6

LEMMA CadenceStep ==
  CadenceInv /\ [ProofNext]_<<vars, proofVars>> => CadenceInv'
<1> SUFFICES ASSUME CadenceInv, [ProofNext]_<<vars, proofVars>>
             PROVE  CadenceInv'
  OBVIOUS
<1> USE DEF CadenceInv
<1>1. MaxRains \in Nat /\ next_rain_id \in Nat
      /\ {1, 2} \subseteq DOMAIN rains
  BY InputAssumption DEF TypeOK
<1>2. ASSUME Deals, Carries
      PROVE  CadenceInv'
  <2>1. /\ [Next]_vars
        /\ \A q \in DOMAIN rains : q \in DOMAIN rains' /\ TermsStay(q)
    BY <1>1, <1>2, DealsStep
  <2>2. TypeOK' /\ next_rain_id' \in 2 .. MaxRains
    BY <1>1, <2>1, TypeStep, HubGrows DEF HubNext
  <2>3. CadenceKept'
    <3> SUFFICES ASSUME NEW r \in {1, 2} \ left_short',
                        rains'[r].interval_rounds # DailyInterval
                 PROVE  proof'.at \in Shortened /\ proof'.daily = r
      BY DEF CadenceKept, Shortened
    <3>1. rains[r].interval_rounds # DailyInterval
      BY <1>1, <2>1 DEF TermsStay, SameTerms
    <3>2. r \notin left_short
      BY <1>2 DEF Carries
    <3>3. proof.at \in Shortened /\ proof.daily = r
      BY <3>1, <3>2 DEF CadenceKept, Shortened
    <3> QED
      BY <1>2, <3>3 DEF Carries
  <2> QED
    BY <1>2, <2>2, <2>3 DEF Carries
<1>3. CASE Shorten
  <2>1. proof.daily \in {1, 2} /\ SetRain(Prover, proof.daily, DailyDrip, MinInterval)
    BY <1>3 DEF Shorten, ProofFits
  <2>2. /\ [Next]_vars /\ next_rain_id' = next_rain_id
        /\ \A r \in {1, 2} \ {proof.daily} : rains'[r] = rains[r]
    BY <2>1, SetsDaily
  <2>3. /\ ProofFits(proof') /\ proof'.at = "draw_daily"
        /\ proof'.daily = proof.daily /\ left_short' = left_short
    BY <1>3, ProceedFits DEF Shorten, ProofQuiet, ledger
  <2>4. proof.at \notin Shortened
    BY <1>3 DEF Shorten, ProofAt, Shortened
  <2>5. CadenceKept'
    BY <2>2, <2>3, <2>4 DEF CadenceKept, Shortened
  <2> QED
    BY <2>2, <2>3, <2>5, TypeStep
<1>4. CASE Restore
  <2>1. proof.daily \in {1, 2}
        /\ SetRain(Prover, proof.daily, DailyDrip, DailyInterval)
    BY <1>4 DEF Restore, ProofFits
  <2>2. /\ [Next]_vars /\ next_rain_id' = next_rain_id
        /\ rains'[proof.daily].interval_rounds = DailyInterval
        /\ \A r \in {1, 2} \ {proof.daily} : rains'[r] = rains[r]
    BY <2>1, SetsDaily
  <2>3. ProofFits(proof') /\ left_short' = left_short \ {proof.daily}
    BY <1>4, ProofFitsInit, NextDailyFits DEF Restore, AfterDaily
  <2>4. proof.at = "restore"
    BY <1>4 DEF Restore, ProofAt
  <2>5. ASSUME NEW r \in {1, 2} \ left_short'
        PROVE  rains'[r].interval_rounds = DailyInterval
    <3>1. CASE r = proof.daily
      BY <2>2, <3>1
    <3>2. CASE r # proof.daily
      BY <2>2, <2>3, <3>2 DEF CadenceKept
    <3> QED
      BY <3>1, <3>2
  <2>6. CadenceKept'
    BY <2>5 DEF CadenceKept
  <2> QED
    BY <2>2, <2>3, <2>6, TypeStep
<1>5. CASE UNCHANGED <<vars, proofVars>>
  <2>1. UNCHANGED <<vars, proof, left_short, rains, next_rain_id>>
    BY <1>5 DEF proofVars, ledger, vars, boxes, hub
  <2>2. TypeOK'
    BY <2>1, TypeStep
  <2>3. CadenceKept'
    BY <2>1 DEF CadenceKept
  <2> QED
    BY <2>1, <2>2, <2>3
<1> QED
  BY <1>2, <1>3, <1>4, <1>5, SettingUpDeals, ProvingDeals, ProofWorldDeals
  DEF ProofNext, ProofStep

\* The live proof leaves each daily rain its daily interval, wherever it fails
\* and whatever the keeper and everybody else call in between, unless the
\* process itself dies between shortening and restoring
\* (rain_testnet_live_proof.py:231).
THEOREM CadenceAlwaysKept == ProofSpec => []CadenceKept
<1>1. ProofFound /\ ProofInit => CadenceInv
  BY ProofFitsInit DEF ProofFound, ProofInit, CadenceInv, CadenceKept
<1> QED
  BY <1>1, CadenceStep, PTL DEF ProofSpec, CadenceInv

-----------------------------------------------------------------------------
(* The live proof and what it says when it passes                          *)
(*                                                                         *)
(* A rain whose drop has fallen, and is not held back as a locked prize,   *)
(* is on the ledger: it paid the prover, owes it, or fell elsewhere.       *)
(* Every step keeps that (LedgerStep), whoever takes it; what a run has    *)
(* seen fallen at each of its steps (Seen) then carries it to the end.     *)

RainedOn == {r \in DOMAIN rains : Rained(r)}
FiredOn  == {r \in DOMAIN rains : rains[r].draw_id > 0}

LedgerInv ==
    /\ SeatsInv /\ Termed /\ next_rain_id \in 2 .. MaxRains
    /\ \A r \in DOMAIN rains :
            /\ LockFollowsDrop(rains[r])
            /\ Fallen(r) => Rained(r)
    /\ \A r \in {1, 2} : rains[r].mode # ONE

DailySteps == {"daily", "shorten"} \cup Shortened
AfterAsa   == {"look_one", "draw_one", "look_again", "resolve", "one_owed",
               "claim_one", "passes"} \cup DailySteps
ShortSteps == {"open_asa", "fill_one", "fill_asa", "join_one", "join_asa",
               "look_short", "draw_short", "asa_owed", "claim_asa",
               "asa_fired"} \cup AfterAsa

\* What a run knows at each step, where the rains of D are there, those of F
\* have fired and those of R have rained.
Seen(j, D, R, F) ==
    /\ ProofFits(j)
    /\ j.at \in ShortSteps =>
          j.one \in D /\ (j.at # "open_asa" => j.asa \in D)
    /\ j.at = "claim_asa" => j.asa \in R
    /\ j.at \in AfterAsa => j.asa \in R \cup F
    /\ j.at = "one_owed" /\ j.fired => j.one \in R
    /\ j.at \in {"claim_one", "passes"} \cup DailySteps => j.one \in R
    /\ j.at \in DailySteps /\ j.daily = 2 => 1 \in R
    /\ j.at \in {"look", "fill", "join"} \cup DailySteps \/ j.daily = 1
    /\ j.at = "restore" /\ ~j.failing => j.daily \in R
    /\ j.at = "passes" => {1, 2} \subseteq R

PassedRight(R, F) ==
    \A p \in passed : p[2] \in R \/ (p[1] = "asa" /\ p[2] \in F)

PassInv ==
    /\ LedgerInv
    /\ Seen(proof, DOMAIN rains, RainedOn, FiredOn)
    /\ PassedRight(RainedOn, FiredOn)

\* How a rain's mode, its number of drops and its locked prize may move.
Moves(rec, new) ==
    /\ new.mode = rec.mode
    /\ new.draw_id >= rec.draw_id
    /\ LockFollowsDrop(rec) => LockFollowsDrop(new)
    /\ rec.mode = ONE /\ rec.draw_id = 0 /\ new.draw_id > 0
          => new.prize_locked > 0

LEMMA FireMoves ==
  ASSUME NEW rec \in RainRec, rec.drip > 0
  PROVE  Moves(rec, TryFire(rec))
<1>1. /\ rec.draw_id \in Nat /\ rec.prize_locked \in Nat /\ rec.drip \in Nat
      /\ rec.mode \in {SPLIT, ONE, WAVE}
  BY DEF RainRec
<1> DEFINE Same(new) == /\ new.mode = rec.mode
                        /\ new.draw_id \in {rec.draw_id, rec.draw_id + 1}
                        /\ new.prize_locked = rec.prize_locked
<1>2. ASSUME NEW new, Same(new), rec.mode # ONE \/ new.draw_id = rec.draw_id
      PROVE  Moves(rec, new)
  BY <1>1, <1>2 DEF Moves, LockFollowsDrop
<1>3. Same(rec)
  BY <1>1
<1>4. Same(FireSplit(rec))
  BY <1>3 DEF FireSplit, RainRec
<1>5. Same(FireWave(rec))
  <2>1. Same(WaveFalls(rec))
    BY DEF WaveFalls, RainRec
  <2>2. Same([rec EXCEPT !.pot = Recycled(rec), !.wave_unclaimed = 0,
                         !.last_share = 0])
    BY <1>1 DEF RainRec
  <2> QED
    BY <1>3, <2>1, <2>2 DEF FireWave
<1>6. rec.mode = ONE => Moves(rec, FireOne(rec))
  <2>1. PrizeLocked(rec).mode = rec.mode /\ PrizeLocked(rec).prize_locked = rec.drip
        /\ PrizeLocked(rec).draw_id = rec.draw_id + 1
    BY DEF PrizeLocked, RainRec
  <2>2. rec.mode = ONE => Moves(rec, PrizeLocked(rec))
    BY <1>1, <2>1 DEF Moves, LockFollowsDrop
  <2> QED
    BY <1>2, <1>3, <2>2 DEF FireOne
<1> HIDE DEF Same
<1> QED
  BY <1>1, <1>2, <1>3, <1>4, <1>5, <1>6 DEF TryFire

\* A locked prize stays locked under every call but the two that close a draw.
LEMMA LockStays ==
  ASSUME TypeOK, NEW q \in DOMAIN rains,
         \/ \E a, drip, interval : SetRain(a, q, drip, interval)
         \/ \E a \in Accounts, mbr \in MbrPayments : Enter(a, q, mbr)
         \/ \E a \in Accounts : Gm(a, q) \/ Claim(a, q)
         \/ \E amount : Deposit(q, amount)
  PROVE  rains'[q].prize_locked = rains[q].prize_locked
<1>1. rains[q] \in RainRec
  BY RainFacts
<1>2. ASSUME NEW a, NEW drip, NEW interval, SetRain(a, q, drip, interval)
      PROVE  rains'[q].prize_locked = rains[q].prize_locked
  <2>1. rains'[q] = [rains[q] EXCEPT !.drip = drip, !.interval_rounds = interval]
    BY <1>2 DEF SetRain
  <2> QED
    BY <1>1, <2>1 DEF RainRec
<1>3. ASSUME NEW amount, Deposit(q, amount)
      PROVE  rains'[q].prize_locked = rains[q].prize_locked
  <2>1. rains'[q] = [rains[q] EXCEPT !.pot = @ + amount]
    BY <1>3 DEF Deposit
  <2> QED
    BY <1>1, <2>1 DEF RainRec
<1> QED
  BY <1>2, <1>3, EnterOwes, GmOwes, ClaimPays

LEMMA CalledMoves ==
  ASSUME TypeOK, NEW q \in DOMAIN rains, Called(q)
  PROVE  Moves(rains[q], rains'[q])
<1>1. rains[q] \in RainRec /\ rains[q].draw_id \in Nat
      /\ rains[q].prize_locked \in Nat
  BY RainFacts DEF RainRec
<1>2. rains'[q].draw_id = rains[q].draw_id
  BY CallsDropNothing
<1>3. rains'[q].mode = rains[q].mode
  <2>1. ASSUME NEW a, NEW drip, NEW interval, SetRain(a, q, drip, interval)
        PROVE  rains'[q].mode = rains[q].mode
    <3>1. rains'[q] = [rains[q] EXCEPT
                          !.drip = drip, !.interval_rounds = interval]
      BY <2>1 DEF SetRain
    <3> QED
      BY <1>1, <3>1 DEF RainRec
  <2> QED
    BY <2>1, CalledTerms DEF Called, TermsStay, SameTerms
<1>4. Resolve(q) \/ Abandon(q) => rains'[q].prize_locked = 0
  <2>1. CASE Resolve(q)
    <3>1. rains'[q] = [rains[q] EXCEPT !.prize_locked = 0, !.commit_round = 0]
      BY <2>1 DEF Resolve
    <3> QED
      BY <1>1, <3>1 DEF RainRec
  <2>2. CASE Abandon(q)
    <3>1. rains'[q] = [rains[q] EXCEPT !.pot = @ + rains[q].prize_locked,
                                       !.prize_locked = 0, !.commit_round = 0]
      BY <2>2 DEF Abandon
    <3> QED
      BY <1>1, <3>1 DEF RainRec
  <2> QED
    BY <2>1, <2>2
<1>5. rains'[q].prize_locked \in {0, rains[q].prize_locked}
  BY <1>4, LockStays DEF Called
<1> QED
  BY <1>1, <1>2, <1>3, <1>5 DEF Moves, LockFollowsDrop

LEMMA StepMoves ==
  ASSUME TypeOK, Termed, [Next]_vars, NEW q \in DOMAIN rains,
         q \in DOMAIN rains'
  PROVE  Moves(rains[q], rains'[q])
<1>1. rains[q] \in RainRec /\ rains[q].drip > 0 /\ rains[q].draw_id \in Nat
      /\ rains[q].prize_locked \in Nat
  BY RainFacts DEF Termed, RainRec
<1>2. Moves(rains[q], rains[q])
  BY <1>1 DEF Moves
<1> QED
  BY <1>1, <1>2, StepShape, FireMoves, CalledMoves DEF Untouched, Fired, Fresh

\* A new rain has not fired, and has nothing locked.
LEMMA NewRain ==
  ASSUME TypeOK, TypeOK', [Next]_vars,
         NEW q \in DOMAIN rains', q \notin DOMAIN rains
  PROVE  rains'[q].draw_id = 0 /\ rains'[q].prize_locked = 0
<1>1. DOMAIN rains' # DOMAIN rains
  OBVIOUS
<1>2. PICK a \in Accounts, gate \in Gates \cup {NoGate},
        prize \in Assets \cup {Algo}, drip \in Drips,
        interval \in Intervals, mode \in Modes, cap \in WaveCaps,
        mbr \in MbrPayments :
          CreateRain(a, gate, prize, drip, interval, mode, cap, mbr)
  BY <1>1, NextIdMoves DEF TypeOK
<1>3. q = next_rain_id + 1
  BY <1>2 DEF CreateRain, Put, TypeOK
<1> QED
  BY <1>2, <1>3 DEF CreateRain, Put

\* What a step writes in the ledger of a rain that it takes something from the
\* prover of, or whose drop it lets fall on others.
Ledgered ==
    /\ paid \subseteq paid' /\ forgone \subseteq forgone'
    /\ \A q \in DOMAIN rains :
          /\ Owed(q)' < Owed(q) => q \in paid' \cup forgone'
          /\ /\ Owed(q)' = Owed(q)
             /\ \/ /\ rains[q].mode # ONE
                   /\ rains'[q].draw_id # rains[q].draw_id
                \/ rains[q].prize_locked > 0 /\ rains'[q].prize_locked = 0
             => q \in forgone'

LEMMA OwedNat == SeatsInv => \A q \in DOMAIN rains : Owed(q) \in Nat
<1> SUFFICES ASSUME SeatsInv, NEW q \in DOMAIN rains  PROVE Owed(q) \in Nat
  OBVIOUS
<1>1. Allocations(q) \in [Accounts -> Nat]
  BY AllocationsType DEF SeatsInv, TicketsInStep
<1> QED
  BY <1>1, ProofAssumption DEF Allocations, Owed

LEMMA OwedNatNext == (SeatsInv => \A q \in DOMAIN rains : Owed(q) \in Nat)'
BY OwedNat, PTL

LEMMA LedgerStep ==
  ASSUME LedgerInv, [Next]_vars, Ledgered, next_rain_id' <= MaxRains
  PROVE  /\ LedgerInv' /\ DOMAIN rains \subseteq DOMAIN rains'
         /\ RainedOn \subseteq RainedOn' /\ FiredOn \subseteq FiredOn'
<1>1. TypeOK /\ TypeOK' /\ SeatsInv'
  BY TypeStep, SeatsStep DEF LedgerInv, SeatsInv
<1>2. DOMAIN rains \subseteq DOMAIN rains' /\ Termed'
  BY <1>1, RainsStay, TermedStep DEF LedgerInv
<1>3. /\ \A q \in DOMAIN rains  : Owed(q) \in Nat
      /\ \A q \in DOMAIN rains' : Owed(q)' \in Nat
  BY <1>1, OwedNat, OwedNatNext DEF LedgerInv
<1>4. ASSUME NEW q \in DOMAIN rains
      PROVE  /\ Moves(rains[q], rains'[q])
             /\ LockFollowsDrop(rains[q]) /\ LockFollowsDrop(rains'[q])
             /\ rains[q].draw_id \in Nat /\ rains'[q].draw_id \in Nat
             /\ rains[q].prize_locked \in Nat /\ rains'[q].prize_locked \in Nat
  <2>1. Moves(rains[q], rains'[q]) /\ LockFollowsDrop(rains[q])
    BY <1>1, <1>2, StepMoves DEF LedgerInv
  <2>2. rains[q] \in RainRec /\ rains'[q] \in RainRec
    BY <1>1, <1>2 DEF TypeOK
  <2> QED
    BY <2>1, <2>2 DEF Moves, RainRec
<1>5. ASSUME NEW q \in DOMAIN rains, Rained(q)
      PROVE  Rained(q)'
  <2>1. q \in paid' \cup forgone' \/ Owed(q)' >= Owed(q)
    BY <1>2, <1>3 DEF Ledgered
  <2> QED
    BY <1>2, <1>3, <1>5, <2>1 DEF Rained, Ledgered
<1>6. ASSUME NEW q \in DOMAIN rains, Fallen(q)', ~Fallen(q)
      PROVE  Rained(q)'
  <2>1. Owed(q)' < Owed(q) => Rained(q)'
    BY DEF Ledgered, Rained
  <2>2. Owed(q)' > Owed(q) => Rained(q)'
    BY <1>2, <1>3 DEF Rained
  <2>3. CASE rains[q].draw_id = 0
    <3>1. rains[q].mode # ONE /\ rains'[q].draw_id # rains[q].draw_id
      BY <1>4, <1>6, <2>3 DEF Fallen, Moves
    <3>2. Owed(q)' = Owed(q) => Rained(q)'
      BY <3>1 DEF Ledgered, Rained
    <3> QED
      BY <1>2, <1>3, <2>1, <2>2, <3>2
  <2>4. CASE rains[q].draw_id # 0
    <3>1. rains[q].prize_locked > 0 /\ rains'[q].prize_locked = 0
      BY <1>4, <1>6, <2>4 DEF Fallen
    <3>2. Owed(q)' = Owed(q) => Rained(q)'
      BY <3>1 DEF Ledgered, Rained
    <3> QED
      BY <1>2, <1>3, <2>1, <2>2, <3>2
  <2> QED
    BY <2>3, <2>4
<1>7. ASSUME NEW q \in DOMAIN rains'
      PROVE  LockFollowsDrop(rains'[q]) /\ (Fallen(q)' => Rained(q)')
  <2>1. CASE q \in DOMAIN rains
    BY <1>4, <1>5, <1>6, <2>1 DEF LedgerInv
  <2>2. CASE q \notin DOMAIN rains
    BY <1>1, <2>2, NewRain DEF LockFollowsDrop, Fallen
  <2> QED
    BY <2>1, <2>2
<1>8. {1, 2} \subseteq DOMAIN rains /\ next_rain_id' \in 2 .. MaxRains
  BY <1>1, NextIdMoves, InputAssumption DEF LedgerInv, TypeOK
<1>9. \A r \in {1, 2} : rains'[r].mode # ONE
  BY <1>4, <1>8 DEF Moves, LedgerInv
<1>10. LedgerInv'
  BY <1>1, <1>2, <1>7, <1>8, <1>9 DEF LedgerInv
<1>11. RainedOn \subseteq RainedOn'
  BY <1>2, <1>5 DEF RainedOn
<1>12. FiredOn \subseteq FiredOn'
  BY <1>2, <1>4 DEF FiredOn, Moves
<1> QED
  BY <1>2, <1>10, <1>11, <1>12

\* A call on one rain leaves what another owes, and its box.
LEMMA OtherRain ==
  ASSUME TypeOK, NEW r, NEW q \in DOMAIN rains, q # r,
         \/ \E a, mbr : Enter(a, r, mbr)
         \/ \E a : Claim(a, r)
         \/ \E amount : Deposit(r, amount)
         \/ \E a, drip, interval : SetRain(a, r, drip, interval)
  PROVE  rains'[q] = rains[q] /\ Owed(q)' = Owed(q)
<1>1. rains'[q] = rains[q]
  BY DEF Enter, Claim, Deposit, SetRain, TypeOK
<1>2. TicketsSame(q)
  <2>1. ASSUME NEW a, NEW mbr, Enter(a, r, mbr)  PROVE TicketsSame(q)
    BY <2>1 DEF Enter, Put, TicketsSame
  <2>2. ASSUME NEW a, Claim(a, r)  PROVE TicketsSame(q)
    BY <2>2 DEF Claim, TicketsSame
  <2>3. ASSUME UNCHANGED tickets  PROVE TicketsSame(q)
    BY <2>3 DEF TicketsSame
  <2> QED
    BY <2>1, <2>2, <2>3 DEF Deposit, SetRain
<1>3. Allocations(q)' = Allocations(q)
  BY <1>1, <1>2, AllocationsKept
<1>4. \A a \in Accounts : AllocationOf(q, a)' = AllocationOf(q, a)
  BY <1>3 DEF Allocations
<1> QED
  BY <1>1, <1>4, ProofAssumption DEF Owed

LEMMA FallsLedgered == ASSUME Falls  PROVE Ledgered
BY DEF Falls, GoneElsewhere, Ledgered, Owed

LEMMA StillLedgered ==
  ASSUME UNCHANGED vars, UNCHANGED <<paid, forgone>>, SeatsInv
  PROVE  Ledgered
<1>1. UNCHANGED <<rains, tickets>>
  BY DEF vars, boxes
<1>2. \A q \in DOMAIN rains : Owed(q)' = Owed(q) /\ Owed(q) \in Nat
  BY <1>1, OwedNat DEF Owed, AllocationOf, Allocation, Unsettled
<1> QED
  BY <1>1, <1>2 DEF Ledgered

\* The calls of a run that take nothing from it and let nothing fall.
QuietCall(r) ==
    \/ \E mbr \in MbrPayments : Enter(Prover, r, mbr)
    \/ \E amount \in Amounts : Deposit(r, amount)
    \/ \E drip \in Drips, interval \in Intervals :
          SetRain(Prover, r, drip, interval)

LEMMA QuietLedgered ==
  ASSUME SeatsInv, UNCHANGED <<paid, forgone>>,
         \/ \E a, x, h : Trade(a, x, h)
         \/ \E x, mbr : OptInPrizeAsset(x, mbr)
         \/ \E a, gate, prize, drip, interval, mode, cap, mbr :
               CreateRain(a, gate, prize, drip, interval, mode, cap, mbr)
         \/ \E r \in DOMAIN rains : QuietCall(r)
  PROVE  Ledgered
<1> SUFFICES ASSUME NEW q \in DOMAIN rains
             PROVE  /\ Owed(q)' = Owed(q)
                    /\ rains'[q].draw_id = rains[q].draw_id
                    /\ rains'[q].prize_locked = rains[q].prize_locked
  BY OwedNat DEF Ledgered
<1>1. TypeOK /\ Prover \in Accounts
  BY ProofAssumption DEF SeatsInv
<1>2. CASE \/ \E a, x, h : Trade(a, x, h)
           \/ \E x, mbr : OptInPrizeAsset(x, mbr)
           \/ \E a, gate, prize, drip, interval, mode, cap, mbr :
                CreateRain(a, gate, prize, drip, interval, mode, cap, mbr)
  <2>1. q # next_rain_id + 1
    BY <1>1 DEF TypeOK
  <2>2. rains'[q] = rains[q] /\ tickets' = tickets
    BY <1>2, <2>1 DEF Trade, OptInPrizeAsset, CreateRain, Put, boxes
  <2> QED
    BY <2>2 DEF Owed, AllocationOf, Allocation, Unsettled
<1>3. ASSUME NEW r \in DOMAIN rains, QuietCall(r), r # q
      PROVE  rains'[q] = rains[q] /\ Owed(q)' = Owed(q)
  BY <1>1, <1>3, OtherRain DEF QuietCall
<1>4. CASE QuietCall(q)
  <2>1. Called(q)
    BY <1>1, <1>4 DEF QuietCall, Called
  <2>2. SameOwed(q)
    BY <1>1, <1>4, EnterOwes, PotCallsOwe DEF QuietCall, SameOwed
  <2>3. rains'[q].prize_locked = rains[q].prize_locked
    BY <1>1, <1>4, LockStays DEF QuietCall
  <2> QED
    BY <1>1, <2>1, <2>2, <2>3, CallsDropNothing DEF SameOwed, Owed
<1> QED
  BY <1>2, <1>3, <1>4

LEMMA PaysLedgered ==
  ASSUME SeatsInv, NEW r, Pays(r)
  PROVE  Ledgered /\ (Owed(r) > 0 => r \in paid')
<1>1. TypeOK /\ Prover \in Accounts /\ r \in DOMAIN rains /\ Claim(Prover, r)
      /\ paid \subseteq paid' /\ forgone' = forgone
  BY ProofAssumption DEF SeatsInv, Pays, Claim, TypeOK
<1>2. ASSUME NEW q \in DOMAIN rains, q # r
      PROVE  rains'[q] = rains[q] /\ Owed(q)' = Owed(q) /\ Owed(q) \in Nat
  BY <1>1, <1>2, OtherRain, OwedNat
<1>3. /\ rains'[r].draw_id = rains[r].draw_id
      /\ rains'[r].prize_locked = rains[r].prize_locked
  BY <1>1, CallsDropNothing, ClaimPays DEF Called
<1>4. Owed(r)' = 0 /\ Owed(r) \in Nat
  BY <1>1, ClaimPays, OwedNat DEF Owed
<1>5. Owed(r) > 0 => r \in paid'
  BY DEF Pays
<1> QED
  BY <1>1, <1>2, <1>3, <1>4, <1>5 DEF Ledgered

LEMMA SeenMore ==
  ASSUME NEW j, NEW D, NEW R, NEW F, NEW D2, NEW R2, NEW F2,
         D \subseteq D2, R \subseteq R2, F \subseteq F2, Seen(j, D, R, F)
  PROVE  Seen(j, D2, R2, F2)
BY DEF Seen

LEMMA SeenAtFirst ==
  ASSUME NEW D, NEW R, NEW F
  PROVE  Seen(NoProof, D, R, F)
<1>1. NoProof.at = "idle" /\ NoProof.daily = 1 /\ ProofFits(NoProof)
  BY DEF NoProof, ProofFits
<1> QED
  BY <1>1 DEF Seen, ShortSteps, AfterAsa, DailySteps, Shortened

\* What it is to have seen a rain's drop.
LEMMA SeenFallen ==
  ASSUME LedgerInv, NEW r \in DOMAIN rains
  PROVE  /\ Owed(r) > 0 => r \in RainedOn
         /\ rains[r].draw_id > 0 => r \in FiredOn
         /\ rains[r].draw_id > 0 /\ ~(rains[r].prize_locked > 0) => r \in RainedOn
<1>1. rains[r].prize_locked \in Nat
  BY RainFacts DEF LedgerInv, SeatsInv
<1> QED
  BY <1>1 DEF LedgerInv, RainedOn, FiredOn, Rained, Fallen

\* Setting up: all a run has to know is which rains its short ones are.
LEMMA SettingUpSees ==
  ASSUME LedgerInv, Seen(proof, DOMAIN rains, RainedOn, FiredOn), TypeOK',
         DOMAIN rains \subseteq DOMAIN rains', RainedOn \subseteq RainedOn',
         FiredOn \subseteq FiredOn',
         \/ ProofBegins \/ LookAtPot \/ FillDaily \/ JoinDaily \/ CountRains
         \/ Mint \/ OptIn \/ OpenOne \/ OpenAsa
         \/ FillShort("fill_one", proof.one, "fill_asa")
         \/ FillShort("fill_asa", proof.asa, "join_one")
         \/ JoinShort("join_one", proof.one, ONE, "join_asa")
         \/ JoinShort("join_asa", proof.asa, SPLIT, "look_short")
  PROVE  Seen(proof', DOMAIN rains', RainedOn', FiredOn')
<1> DEFINE D2 == DOMAIN rains'
           R2 == RainedOn'
           F2 == FiredOn'
<1>1. Seen(proof, D2, R2, F2)
  BY SeenMore
<1>2. TypeOK /\ next_rain_id \in Nat /\ DOMAIN rains = 1 .. next_rain_id
      /\ DOMAIN rains' = 1 .. next_rain_id'
  BY DEF LedgerInv, SeatsInv, TypeOK
<1> HIDE DEF D2, R2, F2
<1> SUFFICES Seen(proof', D2, R2, F2)
  BY DEF D2, R2, F2
<1> USE DEF Seen, ProofFits, ShortSteps, AfterAsa, DailySteps, Shortened, ProofAt
<1>3. CASE ProofBegins
  BY <1>1, <1>3 DEF ProofBegins, Proceed
<1>4. CASE LookAtPot
  <2>1. /\ ProofFits(proof')
        /\ \/ proof'.at \in {"look", "fill"}
           \/ proof'.at = "join" /\ proof'.daily = 1
    BY <1>1, <1>4 DEF LookAtPot, Proceed, NextDaily
  <2> QED
    BY <2>1
<1>5. CASE FillDaily \/ JoinDaily
  <2>1. /\ ProofFits(proof')
        /\ \/ proof'.at \in {"look", "join"}
           \/ proof'.at = "count" /\ proof'.daily = 1
    BY <1>1, <1>5 DEF FillDaily, JoinDaily, NextDaily
  <2> QED
    BY <2>1
<1>6. CASE CountRains
  <2>1. CASE next_rain_id >= 4
    <3>1. 3 \in D2 /\ 4 \in D2
      BY <1>2, <2>1 DEF D2
    <3>2. /\ ProofFits(proof') /\ proof'.daily = 1 /\ proof'.at = "join_one"
          /\ proof'.one = 3 /\ proof'.asa = 4
      BY <1>1, <1>6, <2>1 DEF CountRains
    <3> QED
      BY <3>1, <3>2
  <2>2. CASE ~(next_rain_id >= 4)
    <3>1. ProofFits(proof') /\ proof'.daily = 1 /\ proof'.at = "mint"
      BY <1>1, <1>6, <2>2 DEF CountRains
    <3> QED
      BY <3>1
  <2> QED
    BY <2>1, <2>2
<1>7. CASE Mint \/ OptIn
  BY <1>1, <1>7 DEF Mint, OptIn, Proceed
<1>8. CASE OpenOne \/ OpenAsa
  <2>1. next_rain_id' \in D2
    BY <1>2, <1>8 DEF OpenOne, OpenAsa, CreateRain, D2
  <2>2. /\ ProofFits(proof') /\ proof'.daily = 1 /\ proof'.one \in D2
        /\ \/ proof'.at = "open_asa"
           \/ proof'.at = "fill_one" /\ proof'.asa \in D2
    BY <1>1, <1>8, <2>1 DEF OpenOne, OpenAsa
  <2> QED
    BY <2>2
<1>9. ASSUME NEW r, FillShort("fill_one", r, "fill_asa")
                      \/ FillShort("fill_asa", r, "join_one")
      PROVE  Seen(proof', D2, R2, F2)
  BY <1>1, <1>9 DEF FillShort
<1>10. ASSUME NEW r, JoinShort("join_one", r, ONE, "join_asa")
                       \/ JoinShort("join_asa", r, SPLIT, "look_short")
       PROVE  Seen(proof', D2, R2, F2)
  BY <1>1, <1>10 DEF JoinShort
<1> QED
  BY <1>3, <1>4, <1>5, <1>6, <1>7, <1>8, <1>9, <1>10

\* The short rains: nothing is taken to have rained that has not been seen to.
LEMMA ShortRainsSeen ==
  ASSUME LedgerInv, LedgerInv', Seen(proof, DOMAIN rains, RainedOn, FiredOn),
         DOMAIN rains \subseteq DOMAIN rains', RainedOn \subseteq RainedOn',
         FiredOn \subseteq FiredOn',
         \/ LookAtShort \/ ProofDraw("draw_short", "asa_owed")
         \/ LookAtAsa \/ LookIfFired
         \/ ProofClaim("claim_asa", proof.asa, "look_one")
         \/ LookAtOne("look_one") \/ ProofDraw("draw_one", "look_again")
         \/ LookAtOne("look_again") \/ ProofResolve \/ LookAtPrize
         \/ ProofClaim("claim_one", proof.one, "daily")
  PROVE  Seen(proof', DOMAIN rains', RainedOn', FiredOn')
<1> DEFINE D2 == DOMAIN rains'
           R2 == RainedOn'
           F2 == FiredOn'
<1>1. Seen(proof, D2, R2, F2)
  BY SeenMore
<1>2. ASSUME NEW r \in DOMAIN rains
      PROVE  /\ r \in D2
             /\ Owed(r) > 0 => r \in R2
             /\ ~(rains[r].draw_id = 0) => r \in F2
             /\ rains[r].draw_id > 0 /\ ~(rains[r].prize_locked > 0) => r \in R2
  <2>1. rains[r].draw_id \in Nat
    BY RainFacts DEF LedgerInv, SeatsInv, RainRec
  <2> QED
    BY <2>1, SeenFallen
<1> HIDE DEF D2, R2, F2
<1> SUFFICES Seen(proof', D2, R2, F2)
  BY DEF D2, R2, F2
<1> USE DEF Seen, ProofFits, ShortSteps, AfterAsa, DailySteps, Shortened, ProofAt
<1>3. ASSUME proof.at \in {"look_short", "asa_owed", "asa_fired", "look_one",
                           "look_again", "one_owed"}
      PROVE  proof.one \in DOMAIN rains /\ proof.asa \in DOMAIN rains
  BY <1>3
<1>4. CASE LookAtShort \/ ProofDraw("draw_short", "asa_owed")
  <2>1. /\ ProofFits(proof') /\ proof'.at \in {"draw_short", "asa_owed"}
        /\ proof'.daily = 1 /\ proof'.one = proof.one /\ proof'.asa = proof.asa
        /\ proof.one \in D2 /\ proof.asa \in D2
    BY <1>1, <1>4 DEF LookAtShort, ProofDraw, Proceed
  <2> QED
    BY <2>1
<1>5. CASE LookAtAsa \/ LookIfFired
  <2>1. /\ ProofFits(proof') /\ proof'.daily = 1
        /\ proof'.one = proof.one /\ proof'.asa = proof.asa
        /\ proof.one \in D2 /\ proof.asa \in D2
        /\ \/ proof'.at \in {"asa_fired", "fails"}
           \/ proof'.at = "claim_asa" /\ Owed(proof.asa) > 0
           \/ proof'.at = "look_one" /\ ~(rains[proof.asa].draw_id = 0)
    BY <1>1, <1>5 DEF LookAtAsa, LookIfFired, Proceed
  <2>2. proof.asa \in DOMAIN rains
    BY <1>3, <1>5 DEF LookAtAsa, LookIfFired
  <2> QED
    BY <1>2, <2>1, <2>2
<1>6. CASE ProofClaim("claim_asa", proof.asa, "look_one")
  BY <1>1, <1>6 DEF ProofClaim, Proceed
<1>7. ASSUME NEW step \in {"look_one", "look_again"}, LookAtOne(step)
      PROVE  Seen(proof', D2, R2, F2)
  <2>1. /\ ProofFits(proof') /\ proof'.daily = 1
        /\ proof'.one = proof.one /\ proof'.asa = proof.asa
        /\ proof.one \in D2 /\ proof.asa \in R2 \cup F2 /\ proof.asa \in D2
        /\ proof'.fired <=> rains[proof.one].draw_id > 0
        /\ \/ proof'.at \in {"resolve", "draw_one"}
           \/ proof'.at = "one_owed" /\ ~(rains[proof.one].prize_locked > 0)
    BY <1>1, <1>7 DEF LookAtOne
  <2>2. proof.one \in DOMAIN rains
    BY <1>3, <1>7 DEF LookAtOne
  <2> QED
    BY <1>2, <2>1, <2>2
<1>8. CASE ProofDraw("draw_one", "look_again")
  BY <1>1, <1>8 DEF ProofDraw, Proceed
<1>9. CASE ProofResolve
  <2>1. proof.one \in R2
    <3>1. /\ DrawOpen(proof.one) /\ proof.one \in DOMAIN rains
          /\ rains[proof.one].prize_locked > 0
          /\ rains' = [rains EXCEPT ![proof.one] = [rains[proof.one] EXCEPT
                 !.prize_locked = 0, !.commit_round = 0]]
      BY <1>9 DEF ProofResolve, Resolve, DrawOpen
    <3>2. rains[proof.one] \in RainRec /\ rains[proof.one].draw_id > 0
      BY <3>1, RainFacts DEF LedgerInv, SeatsInv, LockFollowsDrop
    <3>3. rains'[proof.one].draw_id > 0 /\ rains'[proof.one].prize_locked = 0
          /\ proof.one \in DOMAIN rains'
      BY <3>1, <3>2 DEF RainRec
    <3>4. \A r \in DOMAIN rains' :
              rains'[r].draw_id > 0 /\ rains'[r].prize_locked = 0 => r \in RainedOn'
      BY DEF LedgerInv, Fallen, RainedOn
    <3> QED
      BY <3>3, <3>4 DEF R2
  <2>2. /\ ProofFits(proof') /\ proof'.daily = 1 /\ proof'.at = "one_owed"
        /\ proof'.one = proof.one /\ proof'.asa = proof.asa
        /\ proof.one \in D2 /\ proof.asa \in R2 \cup F2 /\ proof.asa \in D2
    BY <1>1, <1>9 DEF ProofResolve
  <2> QED
    BY <2>1, <2>2
<1>10. CASE LookAtPrize
  <2>1. /\ ProofFits(proof') /\ proof'.daily = 1
        /\ proof'.one = proof.one /\ proof'.asa = proof.asa
        /\ proof.one \in D2 /\ proof.asa \in R2 \cup F2 /\ proof.asa \in D2
        /\ \/ proof'.at = "fails"
           \/ proof'.at = "claim_one" /\ Owed(proof.one) > 0
           \/ proof'.at = "daily" /\ proof.one \in R2
    BY <1>1, <1>10 DEF LookAtPrize, Proceed
  <2>2. proof.one \in DOMAIN rains
    BY <1>3, <1>10 DEF LookAtPrize
  <2> QED
    BY <1>2, <2>1, <2>2
<1>11. CASE ProofClaim("claim_one", proof.one, "daily")
  BY <1>1, <1>11 DEF ProofClaim, Proceed
<1> QED
  BY <1>4, <1>5, <1>6, <1>7, <1>8, <1>9, <1>10, <1>11

\* The daily rains, one after the other.
LEMMA DailyRainsSeen ==
  ASSUME LedgerInv, LedgerInv', Seen(proof, DOMAIN rains, RainedOn, FiredOn),
         DOMAIN rains \subseteq DOMAIN rains', RainedOn \subseteq RainedOn',
         FiredOn \subseteq FiredOn',
         \/ LookAtDaily \/ Shorten \/ ProofDraw("draw_daily", "claim_daily")
         \/ ClaimDaily \/ Restore \/ ProofPasses \/ ProofRefused \/ ProofDies
  PROVE  Seen(proof', DOMAIN rains', RainedOn', FiredOn')
<1> DEFINE D2 == DOMAIN rains'
           R2 == RainedOn'
           F2 == FiredOn'
<1>1. Seen(proof, D2, R2, F2) /\ Seen(NoProof, D2, R2, F2)
  BY SeenMore, SeenAtFirst
<1>2. proof.daily \in DOMAIN rains /\ proof.daily \in {1, 2} /\ TypeOK
  <2>1. proof.daily \in {1, 2}
    BY DEF Seen, ProofFits
  <2>2. TypeOK /\ next_rain_id \in 2 .. MaxRains
    BY DEF LedgerInv, SeatsInv
  <2>3. {1, 2} \subseteq DOMAIN rains
    BY <2>2, InputAssumption DEF TypeOK
  <2> QED
    BY <2>1, <2>2, <2>3
<1>3. ASSUME rains[proof.daily].draw_id > 0  PROVE proof.daily \in R2
  <2>1. rains[proof.daily].mode # ONE /\ LockFollowsDrop(rains[proof.daily])
    BY <1>2 DEF LedgerInv
  <2>2. ~(rains[proof.daily].prize_locked > 0)
    BY <2>1 DEF LockFollowsDrop
  <2> QED
    BY <1>2, <1>3, <2>2, SeenFallen
<1>4. ASSUME ClaimDaily, Owed(proof.daily) > 0  PROVE proof.daily \in R2
  <2>1. proof.daily \in paid'
    BY <1>4 DEF ClaimDaily, Pays
  <2> QED
    BY <1>2, <2>1 DEF RainedOn, Rained
<1> HIDE DEF D2, R2, F2
<1> SUFFICES Seen(proof', D2, R2, F2)
  BY DEF D2, R2, F2
<1>5. ASSUME proof.at \in DailySteps, proof.daily \in R2, AfterDaily
      PROVE  Seen(proof', D2, R2, F2)
  <2>1. /\ ProofFits(proof')
        /\ proof'.one = proof.one /\ proof'.asa = proof.asa
        /\ \/ /\ proof'.at = "daily" /\ proof'.daily = 2 /\ proof.daily = 1
           \/ /\ proof'.at = "passes" /\ proof'.daily = 1 /\ proof.daily = 2
    BY <1>1, <1>5 DEF AfterDaily, NextDaily, Seen, ProofFits
  <2> QED
    BY <1>1, <1>5, <2>1
    DEF Seen, ShortSteps, AfterAsa, DailySteps, Shortened
<1>6. ASSUME proof.at \in DailySteps, ProofFits(proof'),
             proof'.daily = proof.daily, proof'.one = proof.one,
             proof'.asa = proof.asa,
             \/ proof'.at \in {"shorten", "draw_daily", "claim_daily"}
             \/ /\ proof'.at = "restore"
                /\ ~proof'.failing => proof.daily \in R2
      PROVE  Seen(proof', D2, R2, F2)
  BY <1>1, <1>6 DEF Seen, ShortSteps, AfterAsa, DailySteps, Shortened
<1> USE DEF ProofAt
<1>7. CASE LookAtDaily
  <2>1. CASE AfterDaily /\ rains[proof.daily].draw_id > 0
    BY <1>3, <1>5, <1>7, <2>1 DEF LookAtDaily, DailySteps
  <2>2. CASE Proceed("shorten")
    BY <1>1, <1>6, <1>7, <2>2
    DEF LookAtDaily, DailySteps, Proceed, Seen, ProofFits
  <2> QED
    BY <1>7, <2>1, <2>2 DEF LookAtDaily
<1>8. CASE Shorten \/ ProofDraw("draw_daily", "claim_daily")
  BY <1>1, <1>6, <1>8
  DEF Shorten, ProofDraw, DailySteps, Shortened, Proceed, Seen, ProofFits
<1>9. CASE ClaimDaily
  <2>1. /\ proof.at \in DailySteps /\ ProofFits(proof')
        /\ proof'.daily = proof.daily /\ proof'.one = proof.one
        /\ proof'.asa = proof.asa /\ proof'.at = "restore"
        /\ proof'.failing <=> Owed(proof.daily) = 0
    BY <1>1, <1>9 DEF ClaimDaily, DailySteps, Shortened, Seen, ProofFits
  <2>2. Owed(proof.daily) \in Nat
    BY <1>2, OwedNat DEF LedgerInv
  <2>3. ~proof'.failing => proof.daily \in R2
    BY <1>4, <1>9, <2>1, <2>2
  <2> QED
    BY <1>6, <2>1, <2>3
<1>10. CASE Restore
  <2>1. CASE proof.failing
    BY <1>1, <1>10, <2>1 DEF Restore
  <2>2. CASE ~proof.failing
    BY <1>1, <1>5, <1>10, <2>2 DEF Restore, DailySteps, Shortened, Seen
  <2> QED
    BY <2>1, <2>2
<1>11. CASE ProofPasses \/ ProofDies
  BY <1>1, <1>11 DEF ProofPasses, ProofDies
<1>12. CASE ProofRefused
  <2>1. CASE proof.at = "claim_daily"
    <3>1. /\ ProofFits(proof') /\ proof'.daily = proof.daily
          /\ proof'.one = proof.one /\ proof'.asa = proof.asa
          /\ proof'.at = "restore" /\ proof'.failing = TRUE
      BY <1>1, <1>12, <2>1 DEF ProofRefused, Seen, ProofFits
    <3> QED
      BY <1>6, <2>1, <3>1 DEF DailySteps, Shortened
  <2>2. CASE proof.at # "claim_daily"
    BY <1>1, <1>12, <2>2 DEF ProofRefused
  <2> QED
    BY <2>1, <2>2
<1> QED
  BY <1>7, <1>8, <1>9, <1>10, <1>11, <1>12

\* Every step of a run, and everybody else's, writes the ledger.
LEMMA ProofLedgered ==
  ASSUME LedgerInv, ProofNext
  PROVE  Ledgered
<1> USE DEF LedgerInv
<1>1. Prover \in Accounts
  BY ProofAssumption
<1>2. ASSUME ProofQuiet  PROVE UNCHANGED <<paid, forgone>>
  BY <1>2 DEF ProofQuiet, ledger
<1>3. ASSUME NEW r, QuietCall(r), UNCHANGED <<paid, forgone>>
      PROVE  Ledgered
  <2>1. r \in DOMAIN rains
    BY <1>3 DEF QuietCall, Enter, Deposit, SetRain
  <2> QED
    BY <1>3, <2>1, QuietLedgered
<1>4. ASSUME \/ ProofBegins \/ LookAtPot \/ CountRains \/ LookAtShort
             \/ LookAtAsa \/ LookIfFired \/ LookAtPrize \/ LookAtDaily
             \/ LookAtOne("look_one") \/ LookAtOne("look_again")
             \/ ProofRefused
      PROVE  Ledgered
  <2>1. UNCHANGED vars /\ ProofQuiet
    BY <1>4 DEF ProofBegins, LookAtPot, CountRains, LookAtShort, LookAtAsa,
       LookIfFired, LookAtPrize, LookAtDaily, LookAtOne, ProofRefused
  <2> QED
    BY <1>2, <2>1, StillLedgered
<1>5. ASSUME ProofPasses \/ ProofDies  PROVE Ledgered
  BY <1>5, StillLedgered DEF ProofPasses, ProofDies
<1>6. ASSUME NEW r, NEW mode, Joins(r, mode), ProofQuiet
      PROVE  Ledgered
  <2>1. CASE UNCHANGED vars
    BY <1>2, <1>6, <2>1, StillLedgered
  <2>2. CASE Enter(Prover, r, JoinMbr(mode))
    <3>1. JoinMbr(mode) \in MbrPayments
      BY ProofOffersAssumption DEF JoinMbr
    <3> QED
      BY <1>2, <1>3, <1>6, <2>2, <3>1 DEF QuietCall
  <2> QED
    BY <1>6, <2>1, <2>2 DEF Joins
<1>7. ASSUME NEW r, Deposit(r, Fill), ProofQuiet
      PROVE  Ledgered
  BY <1>2, <1>3, <1>7, ProofOffersAssumption DEF QuietCall
<1>8. ASSUME FillDaily \/ JoinDaily  PROVE Ledgered
  BY <1>6, <1>7, <1>8 DEF FillDaily, JoinDaily
<1>9. ASSUME NEW step, NEW r, NEW mode, NEW then,
             FillShort(step, r, then) \/ JoinShort(step, r, mode, then)
      PROVE  Ledgered
  BY <1>6, <1>7, <1>9 DEF FillShort, JoinShort
<1>10. ASSUME Mint \/ OptIn \/ OpenOne \/ OpenAsa  PROVE Ledgered
  <2>1. UNCHANGED <<paid, forgone>>
    BY <1>2, <1>10 DEF Mint, OptIn, OpenOne, OpenAsa
  <2>2. \/ \E a, x, h : Trade(a, x, h)
        \/ \E x, mbr : OptInPrizeAsset(x, mbr)
        \/ \E a, gate, prize, drip, interval, mode, cap, mbr :
              CreateRain(a, gate, prize, drip, interval, mode, cap, mbr)
    BY <1>10, Zenon DEF Mint, OptIn, OpenOne, OpenAsa
  <2> QED
    BY <2>1, <2>2, QuietLedgered
<1>11. ASSUME NEW step, NEW then, ProofDraw(step, then)  PROVE Ledgered
  BY <1>11, FallsLedgered DEF ProofDraw
<1>12. ASSUME ProofResolve \/ ProofWorld  PROVE Ledgered
  BY <1>12, FallsLedgered DEF ProofResolve, ProofWorld
<1>13. ASSUME NEW step, NEW r, NEW then, ProofClaim(step, r, then)
       PROVE  Ledgered
  BY <1>13, PaysLedgered DEF ProofClaim
<1>14. ASSUME ClaimDaily  PROVE Ledgered
  BY <1>14, PaysLedgered DEF ClaimDaily
<1>15. ASSUME Shorten \/ Restore  PROVE Ledgered
  <2>1. {MinInterval, DailyInterval} \subseteq Intervals /\ DailyDrip \in Drips
    BY ProofOffersAssumption
  <2>2. QuietCall(proof.daily)
    BY <1>15, <2>1 DEF Shorten, Restore, QuietCall
  <2>3. UNCHANGED <<paid, forgone>>
    BY <1>2, <1>15 DEF Shorten, Restore
  <2> QED
    BY <1>3, <2>2, <2>3
<1> HIDE DEF LedgerInv
<1> QED
  BY <1>4, <1>5, <1>8, <1>9, <1>10, <1>11, <1>12, <1>13, <1>14, <1>15
  DEF ProofNext, ProofStep

\* A step of the live proof and its world is one of the hub's.
LEMMA ProofDeals ==
  ASSUME TypeOK, ProofFits(proof), next_rain_id \in 2 .. MaxRains, ProofNext
  PROVE  [Next]_vars /\ next_rain_id' <= MaxRains
<1>1. MaxRains \in Nat /\ next_rain_id \in Nat
  BY InputAssumption DEF TypeOK
<1>2. CASE Deals
  BY <1>1, <1>2, DealsStep, HubGrows DEF HubNext
<1>3. CASE Shorten \/ Restore
  BY <1>1, <1>3, SetsDaily DEF Shorten, Restore, ProofFits
<1> QED
  BY <1>2, <1>3, SettingUpDeals, ProvingDeals, ProofWorldDeals
  DEF ProofNext, ProofStep

LEMMA PassStep ==
  PassInv /\ [ProofNext]_<<vars, proofVars>> => PassInv'
<1> SUFFICES ASSUME PassInv, [ProofNext]_<<vars, proofVars>>
             PROVE  PassInv'
  OBVIOUS
<1>1. CASE UNCHANGED <<vars, proofVars>>
  <2>1. UNCHANGED <<round, rains, tickets, indexes, next_rain_id, held, holding,
                    hub, proof, paid, forgone, passed>>
    BY <1>1 DEF vars, boxes, hub, proofVars, ledger
  <2>2. UNCHANGED vars
    BY <1>1
  <2>3. LedgerInv /\ Ledgered
    BY <2>1, <2>2, StillLedgered DEF PassInv, LedgerInv
  <2>4. next_rain_id' <= MaxRains
    BY <2>1, <2>3, InputAssumption DEF LedgerInv
  <2>5. /\ LedgerInv' /\ DOMAIN rains \subseteq DOMAIN rains'
        /\ RainedOn \subseteq RainedOn' /\ FiredOn \subseteq FiredOn'
    BY <2>2, <2>3, <2>4, LedgerStep
  <2>6. Seen(proof, DOMAIN rains', RainedOn', FiredOn')
    BY <2>5, SeenMore DEF PassInv
  <2>7. \A p \in passed' : p[2] \in RainedOn' \/ (p[1] = "asa" /\ p[2] \in FiredOn')
    BY <2>1, <2>5 DEF PassInv, PassedRight
  <2> QED
    BY <2>1, <2>5, <2>6, <2>7 DEF PassInv, PassedRight
<1>2. CASE ProofNext
  <2>1. ProofFits(proof) /\ TypeOK /\ next_rain_id \in 2 .. MaxRains /\ LedgerInv
    BY DEF PassInv, LedgerInv, SeatsInv, Seen
  <2>2. [Next]_vars /\ next_rain_id' <= MaxRains /\ Ledgered
    BY <1>2, <2>1, ProofDeals, ProofLedgered
  <2>3. /\ LedgerInv' /\ DOMAIN rains \subseteq DOMAIN rains'
        /\ RainedOn \subseteq RainedOn' /\ FiredOn \subseteq FiredOn'
    BY <2>1, <2>2, LedgerStep
  <2>4. TypeOK'
    BY <2>3 DEF LedgerInv, SeatsInv
  <2>5. Seen(proof, DOMAIN rains, RainedOn, FiredOn)
    BY DEF PassInv
  <2>6. Seen(proof, DOMAIN rains, RainedOn, FiredOn)'
    <3>1. CASE ProofWorld
      <4>1. Seen(proof, DOMAIN rains', RainedOn', FiredOn')
        BY <2>3, <2>5, SeenMore
      <4> QED
        BY <3>1, <4>1 DEF ProofWorld
    <3>2. CASE ProofStep
      BY <2>1, <2>3, <2>4, <2>5, <3>2, SettingUpSees, ShortRainsSeen,
         DailyRainsSeen
      DEF ProofStep
    <3> QED
      BY <1>2, <3>1, <3>2 DEF ProofNext
  <2>7. PassedRight(RainedOn, FiredOn)'
    <3>1. \A p \in passed : p[2] \in RainedOn' \/ (p[1] = "asa" /\ p[2] \in FiredOn')
      BY <2>3 DEF PassInv, PassedRight
    <3>2. CASE ProofPasses
      <4>1. proof.at = "passes"
        BY <3>2 DEF ProofPasses, ProofAt
      <4>2. /\ 1 \in RainedOn /\ 2 \in RainedOn /\ proof.one \in RainedOn
            /\ proof.asa \in RainedOn \cup FiredOn
        BY <2>5, <4>1 DEF Seen, AfterAsa
      <4>3. passed' = passed \cup {<<"daily", 1>>, <<"daily", 2>>,
                            <<"one", proof.one>>, <<"asa", proof.asa>>}
        BY <3>2 DEF ProofPasses
      <4>4. \A p \in passed' : p[2] \in RainedOn' \/ (p[1] = "asa" /\ p[2] \in FiredOn')
        BY <2>3, <3>1, <4>2, <4>3
      <4> QED
        BY <4>4 DEF PassedRight
    <3>3. CASE passed' = passed
      BY <3>1, <3>3 DEF PassedRight
    <3>4. ProofPasses \/ passed' = passed
      BY <1>2
      DEF ProofNext, ProofStep, ProofBegins, LookAtPot, FillDaily, JoinDaily,
          CountRains, Mint, OptIn, OpenOne, OpenAsa, FillShort, JoinShort,
          LookAtShort, ProofDraw, LookAtAsa, LookIfFired, ProofClaim, LookAtOne,
          ProofResolve, LookAtPrize, LookAtDaily, Shorten, ClaimDaily, Restore,
          ProofRefused, ProofDies, ProofWorld, Pays, Falls, ProofQuiet, ledger
    <3> QED
      BY <3>2, <3>3, <3>4
  <2> QED
    BY <2>3, <2>6, <2>7 DEF PassInv
<1> QED
  BY <1>1, <1>2

\* A proof that passes has seen a drop fall on each of the four rains it is
\* about, whoever opened them, whatever fell or was taken back in between, and
\* however many runs died before it: but for the one it takes for the asset's,
\* whose drop may be locked and fall on nobody yet
\* (rain_testnet_live_proof.py:380).
THEOREM PassedAlwaysRained == ProofSpec => []PassedIfRained
<1>1. ProofFound /\ ProofInit => PassInv
  <2> SUFFICES ASSUME ProofFound, ProofInit  PROVE PassInv
    OBVIOUS
  <2>1. LedgerInv
    BY DEF ProofFound, ProofInit, LedgerInv, SeatsInv, Termed, Rained
  <2> QED
    BY <2>1, SeenAtFirst DEF ProofInit, PassInv, PassedRight
<1>2. PassInv => PassedIfRained
  <2> SUFFICES ASSUME PassInv, NEW p \in passed
               PROVE  Rained(p[2]) \/ (p[1] = "asa" /\ DrawOpen(p[2]))
    BY DEF PassedIfRained
  <2>1. p[2] \in RainedOn \/ (p[1] = "asa" /\ p[2] \in FiredOn)
    BY DEF PassInv, PassedRight
  <2>2. CASE p[2] \in RainedOn
    BY <2>2 DEF RainedOn
  <2>3. CASE p[1] = "asa" /\ p[2] \in FiredOn
    <3>1. p[2] \in DOMAIN rains /\ rains[p[2]].draw_id > 0 /\ LedgerInv
      BY <2>3 DEF FiredOn, PassInv
    <3>2. LockFollowsDrop(rains[p[2]]) /\ rains[p[2]].prize_locked \in Nat
      BY <3>1, RainFacts DEF LedgerInv, SeatsInv
    <3> QED
      BY <2>3, <3>1, <3>2 DEF LedgerInv, Fallen, LockFollowsDrop, DrawOpen
  <2> QED
    BY <2>1, <2>2, <2>3
<1> QED
  BY <1>1, <1>2, PassStep, PTL DEF ProofSpec

-----------------------------------------------------------------------------
(* The one-draw script and the keys of its players                         *)
(*                                                                         *)
(* From their writing to their deletion the file holds the keys the run    *)
(* holds; the claims go through with every player before the first account *)
(* is closed, and whatever an account is owed after that fell to it since. *)

Closing == {"owed", "claim", "close", "unlink"}
Looping == {"fund", "enter", "baseline", "after", "owed", "claim", "close"}
NotYetWritten == {"idle", "load", "truncate", "write"}

PlayFits(j) ==
    /\ {"at", "words", "count", "todo", "left", "late"} \subseteq DOMAIN j
    /\ j.words \in Seq(Accounts) /\ j.todo \in Seq(Accounts)
    /\ j.left \subseteq Accounts
    /\ j.count \in Nat
    /\ j.at \in Looping => j.todo # <<>>
    /\ j.at \notin {"idle", "load"} => j.count \in 1 .. Len(j.words)

\* What is true of a run, the file and the accounts that hold money.
KeysFit(j, kept, money) ==
    /\ j.at = "truncate" => ToSet(kept) \subseteq ToSet(j.words)
    /\ j.at = "write" => kept = <<>>
    /\ j.at \notin NotYetWritten => kept = j.words
    /\ j.at \notin Closing => j.left = {}
    /\ j.at \in {"owed", "claim"} =>
          ToSet(Players(j)) \subseteq j.left \cup ToSet(j.todo)
    /\ j.at \in {"close", "unlink"} => ToSet(Players(j)) \subseteq j.left
    /\ j.at = "close" => ToSet(Players(j)) \cap money \subseteq ToSet(j.todo)
    /\ j.at = "unlink" => ToSet(Players(j)) \cap money = {}

OwedNow(who) == AllocationOf(Lottery, who)

OwedLate == \A who \in play.left : OwedNow(who) > 0 => who \in play.late

HubKeeps ==
    /\ SeatsInv /\ next_rain_id \in Lottery .. MaxRains
    /\ rains[Lottery].mode = ONE

KeysKeep ==
    /\ keyfile \in Seq(Accounts) /\ made \in Nat
    /\ PlayFits(play) /\ (play.at = "load" => play.count \in Counts)
    /\ KeysFit(play, keyfile, funded)

KeyInv == HubKeeps /\ KeysKeep /\ OwedLate

LEMMA TailSet ==
  ASSUME NEW S, NEW s \in Seq(S), s # <<>>
  PROVE  /\ Head(s) \in S /\ Tail(s) \in Seq(S)
         /\ ToSet(s) \subseteq {Head(s)} \cup ToSet(Tail(s))
         /\ Len(s) = 1 <=> Tail(s) = <<>>
<1>1. /\ Head(s) \in S /\ Tail(s) \in Seq(S) /\ Len(Tail(s)) = Len(s) - 1
      /\ \A i \in 1 .. Len(Tail(s)) : Tail(s)[i] = s[i + 1]
  BY HeadTailProperties
<1>2. /\ Len(s) \in Nat \ {0} /\ DOMAIN s = 1 .. Len(s)
      /\ DOMAIN Tail(s) = 1 .. Len(Tail(s))
  BY <1>1, LenProperties, EmptySeq
<1>3. Head(s) = s[1]
  BY DEF Head
<1>4. ASSUME NEW i \in DOMAIN s  PROVE s[i] \in {Head(s)} \cup ToSet(Tail(s))
  <2>1. CASE i = 1
    BY <1>3, <2>1
  <2>2. CASE i # 1
    <3>1. i - 1 \in 1 .. Len(Tail(s)) /\ s[i] = Tail(s)[i - 1]
      BY <1>1, <1>2, <1>4, <2>2
    <3> QED
      BY <1>2, <3>1 DEF ToSet
  <2> QED
    BY <2>1, <2>2
<1>5. Len(s) = 1 <=> Tail(s) = <<>>
  <2>1. Tail(s) = <<>> => Len(Tail(s)) = 0
    BY EmptySeq
  <2>2. Tail(s) # <<>> => Len(Tail(s)) \in Nat \ {0}
    BY <1>1, EmptySeq
  <2> QED
    BY <1>1, <1>2, <2>1, <2>2
<1> QED
  BY <1>1, <1>4, <1>5 DEF ToSet

LEMMA PlayersAre ==
  ASSUME NEW j, j.words \in Seq(Accounts), j.count \in 1 .. Len(j.words)
  PROVE  /\ Players(j) \in Seq(Accounts) /\ Players(j) # <<>>
         /\ Everyone(j) \in Seq(Accounts) /\ Everyone(j) # <<>>
         /\ ToSet(Players(j)) \subseteq ToSet(Everyone(j))
<1>1. Len(j.words) \in Nat /\ \A i \in 1 .. j.count : j.words[i] \in Accounts
  BY LenProperties, ElementOfSeq
<1>2. Players(j) \in Seq(Accounts) /\ Len(Players(j)) = j.count
  BY <1>1, SubSeqProperties DEF Players
<1>3. Players(j) # <<>>
  BY <1>1, <1>2, EmptySeq
<1>4. <<Funder>> \in Seq(Accounts) /\ Len(<<Funder>>) = 1
  BY PlayersAssumption
<1> DEFINE p == Players(j)
           e == <<Funder>> \o p
<1> HIDE DEF p
<1>5. /\ e \in Seq(Accounts) /\ Len(e) = 1 + Len(p)
      /\ \A i \in 1 .. 1 + Len(p) : e[i] = IF i <= 1 THEN <<Funder>>[i] ELSE p[i - 1]
  BY <1>2, <1>4, ConcatProperties DEF p
<1>6. Len(p) \in Nat /\ DOMAIN p = 1 .. Len(p) /\ DOMAIN e = 1 .. Len(e)
  BY <1>2, <1>5, LenProperties DEF p
<1>7. e # <<>>
  BY <1>5, <1>6, EmptySeq
<1>8. ASSUME NEW i \in DOMAIN p  PROVE p[i] = e[i + 1] /\ i + 1 \in DOMAIN e
  BY <1>5, <1>6
<1>9. ToSet(p) \subseteq ToSet(e)
  BY <1>8 DEF ToSet
<1> QED
  BY <1>2, <1>3, <1>5, <1>7, <1>9 DEF p, Everyone

Middle == {"fund", "enter", "deposit", "baseline", "cycle", "draw", "fired",
           "resolve", "after", "check"} \cup Verdicts

LEMMA NoPlayFits ==
  ASSUME NEW kept, NEW money
  PROVE  PlayFits(NoPlay) /\ KeysFit(NoPlay, kept, money)
         /\ NoPlay.at = "idle" /\ NoPlay.left = {}
<1>1. <<>> \in Seq(Accounts)
  BY EmptySeq
<1>2. /\ NoPlay.at = "idle" /\ NoPlay.words = <<>> /\ NoPlay.todo = <<>>
      /\ NoPlay.left = {} /\ NoPlay.count = 0
      /\ {"at", "words", "count", "todo", "left", "late"} \subseteq DOMAIN NoPlay
  BY DEF NoPlay
<1> QED
  BY <1>1, <1>2 DEF PlayFits, KeysFit, Looping, NotYetWritten, Closing

\* A step from the first funding to the last check that leaves the keys alone.
LEMMA MiddleFits ==
  ASSUME NEW j, NEW k, NEW kept, NEW m, NEW money,
         PlayFits(j), KeysFit(j, kept, m), j.at \in Middle, k.at \in Middle,
         {"at", "words", "count", "todo", "left", "late"} \subseteq DOMAIN k,
         k.words = j.words, k.count = j.count, k.left = j.left,
         k.todo \in Seq(Accounts), k.at \in Looping => k.todo # <<>>
  PROVE  PlayFits(k) /\ KeysFit(k, kept, money) /\ k.left = {}
BY DEF PlayFits, KeysFit, Middle, Looping, NotYetWritten, Closing, Verdicts

LEMMA ToClaimsFits ==
  ASSUME NEW j, NEW kept, NEW money,
         PlayFits(j), KeysFit(j, kept, money), j.at \in Middle
  PROVE  PlayFits(ToClaims(j)) /\ KeysFit(ToClaims(j), kept, money)
         /\ ToClaims(j).left = {} /\ ToClaims(j).at = "owed"
<1> DEFINE k == ToClaims(j)
<1>1. /\ k.at = "owed" /\ k.words = j.words /\ k.count = j.count
      /\ k.left = j.left /\ k.todo = Everyone(j)
      /\ {"at", "words", "count", "todo", "left", "late"} \subseteq DOMAIN k
  BY DEF ToClaims, PlayFits
<1>2. j.words \in Seq(Accounts) /\ j.count \in 1 .. Len(j.words)
      /\ j.count \in Nat /\ j.left = {} /\ kept = j.words
  BY DEF PlayFits, KeysFit, Middle, NotYetWritten, Closing, Verdicts
<1>3. /\ Everyone(j) \in Seq(Accounts) /\ Everyone(j) # <<>>
      /\ ToSet(Players(j)) \subseteq ToSet(Everyone(j))
  BY <1>2, PlayersAre
<1>4. Players(k) = Players(j)
  BY <1>1 DEF Players
<1> HIDE DEF k
<1>5. PlayFits(k) /\ KeysFit(k, kept, money)
  BY <1>1, <1>2, <1>3, <1>4 DEF PlayFits, KeysFit, NotYetWritten, Closing
<1> QED
  BY <1>1, <1>2, <1>5 DEF k

\* Claim by claim, and then account by account.
LEMMA NextClaimFits ==
  ASSUME NEW j, NEW kept, NEW money, NEW who, who = Head(j.todo),
         PlayFits(j), KeysFit(j, kept, money), j.at \in {"owed", "claim"}
  PROVE  LET k == NextClaim(Leaves(j, who)) IN
         /\ PlayFits(k) /\ KeysFit(k, kept, money) /\ k.at # "load"
         /\ k.left = j.left \cup {who} /\ k.late = j.late /\ who \in Accounts
<1> DEFINE l == Leaves(j, who)
           k == NextClaim(l)
<1>1. /\ j.words \in Seq(Accounts) /\ j.todo \in Seq(Accounts) /\ j.todo # <<>>
      /\ j.count \in Nat /\ j.count \in 1 .. Len(j.words)
      /\ j.left \subseteq Accounts /\ kept = j.words
      /\ ToSet(Players(j)) \subseteq j.left \cup ToSet(j.todo)
  BY DEF PlayFits, KeysFit, Looping, NotYetWritten
<1>2. /\ who \in Accounts /\ Tail(j.todo) \in Seq(Accounts)
      /\ ToSet(j.todo) \subseteq {who} \cup ToSet(Tail(j.todo))
  BY <1>1, TailSet
<1>3. /\ l.at = j.at /\ l.words = j.words /\ l.count = j.count
      /\ l.left = j.left \cup {who} /\ l.late = j.late /\ l.todo = j.todo
      /\ {"at", "words", "count", "todo", "left", "late"} \subseteq DOMAIN l
  BY DEF Leaves, PlayFits
<1>4. Players(l) = Players(j) /\ Players(j) \in Seq(Accounts) /\ Players(j) # <<>>
  BY <1>1, <1>3, PlayersAre DEF Players
<1>5. ToSet(<<>>) = {}
  BY DEF ToSet
<1> HIDE DEF l
<1>6. /\ k.words = j.words /\ k.count = j.count
      /\ k.left = j.left \cup {who} /\ k.late = j.late
      /\ {"at", "words", "count", "todo", "left", "late"} \subseteq DOMAIN k
      /\ IF Tail(j.todo) = <<>>
         THEN k.at = "close" /\ k.todo = Players(j)
         ELSE k.at = "owed" /\ k.todo = Tail(j.todo)
  BY <1>3, <1>4 DEF NextClaim
<1> HIDE DEF k
<1>7. Players(k) = Players(j)
  BY <1>6 DEF Players
<1>8. PlayFits(k)
  BY <1>1, <1>2, <1>4, <1>6 DEF PlayFits, Looping
<1>9. KeysFit(k, kept, money)
  BY <1>1, <1>2, <1>5, <1>6, <1>7 DEF KeysFit, NotYetWritten, Closing
<1> QED
  BY <1>2, <1>6, <1>8, <1>9 DEF k, l

LEMMA KeyTyped ==
  ASSUME HubKeeps
  PROVE  /\ Lottery \in DOMAIN rains
         /\ \A who \in Accounts : OwedNow(who) \in Nat
<1>1. Lottery \in DOMAIN rains /\ TypeOK /\ InStep(Lottery)
  <2>1. DOMAIN rains = 1 .. next_rain_id /\ next_rain_id \in Nat
    BY DEF HubKeeps, SeatsInv, TypeOK
  <2>2. Lottery \in DOMAIN rains
    BY <2>1, PlayersAssumption, InputAssumption DEF HubKeeps
  <2> QED
    BY <2>2 DEF HubKeeps, SeatsInv, TicketsInStep
<1>2. Allocations(Lottery) \in [Accounts -> Nat]
  BY <1>1, AllocationsType
<1> QED
  BY <1>1, <1>2 DEF Allocations, OwedNow

LEMMA KeyTypedNext ==
  (HubKeeps => /\ Lottery \in DOMAIN rains
               /\ \A who \in Accounts : OwedNow(who) \in Nat)'
<1>1. HubKeeps => /\ Lottery \in DOMAIN rains
                  /\ \A who \in Accounts : OwedNow(who) \in Nat
  BY KeyTyped
<1> QED
  BY <1>1, PTL

\* What the script and the others call are calls like anybody's.
LEMMA OneDrawDeals ==
  ASSUME KeyInv, OneDrawNext
  PROVE  Deals
<1>1. Lottery \in DOMAIN rains
  BY KeyTyped DEF KeyInv
<1>2. CASE EnterPlayer
  <2>1. play.todo \in Seq(Accounts) /\ play.todo # <<>>
    BY <1>2 DEF EnterPlayer, PlayAt, KeyInv, KeysKeep, PlayFits, Looping
  <2>2. Head(play.todo) \in Accounts
    BY <2>1, TailSet
  <2> QED
    BY <1>1, <1>2, <2>2, PlayersOfferAssumption DEF EnterPlayer, Deals
<1>3. CASE ClaimOwed
  <2>1. play.todo \in Seq(Accounts) /\ play.todo # <<>>
    BY <1>3 DEF ClaimOwed, PlayAt, KeyInv, KeysKeep, PlayFits, Looping
  <2>2. Head(play.todo) \in Accounts
    BY <2>1, TailSet
  <2> QED
    BY <1>1, <1>3, <2>2 DEF ClaimOwed, Deals
<1>4. CASE FillPot \/ DrawLottery \/ ResolveLottery
  BY <1>1, <1>4 DEF FillPot, DrawLottery, ResolveLottery, Deals
<1>5. CASE Else
  BY <1>1, <1>5 DEF Else, Others, Deals
<1>6. CASE HubQuiet
  BY <1>6 DEF HubQuiet, Deals
<1> QED
  BY <1>2, <1>3, <1>4, <1>5, <1>6 DEF OneDrawNext, Script, Begin, Load, Truncate,
     WriteKeys, Fund, Ask, ReadTerms, ReadFired, Check, AskOwed, Close, Unlink,
     PlayRefused, Dies

LEMMA KeyHub ==
  ASSUME HubKeeps, Deals
  PROVE  HubKeeps'
<1>1. TypeOK /\ next_rain_id <= MaxRains /\ next_rain_id \in Nat /\ MaxRains \in Nat
  BY InputAssumption DEF HubKeeps, SeatsInv, TypeOK
<1>2. Lottery \in DOMAIN rains /\ Lottery \in Nat
  BY KeyTyped, PlayersAssumption
<1>3. [Next]_vars /\ TermsStay(Lottery)
  BY <1>1, <1>2, DealsStep
<1>4. SeatsInv'
  BY <1>1, <1>3, TypeStep, SeatsStep DEF HubKeeps
<1>5. next_rain_id' \in Lottery .. MaxRains
  BY <1>1, <1>2, <1>3, HubGrows DEF HubNext, HubKeeps
<1>6. rains'[Lottery].mode = ONE
  BY <1>3 DEF TermsStay, SameTerms, HubKeeps
<1> QED
  BY <1>4, <1>5, <1>6 DEF HubKeeps

LEMMA QuietOwes ==
  ASSUME UNCHANGED vars
  PROVE  \A who : OwedNow(who)' = OwedNow(who)
BY DEF OwedNow, AllocationOf, vars, boxes

-----------------------------------------------------------------------------
(* The steps of a run *)

\* What a step leaves behind, but for what the hub owes.
Kept == KeysKeep' /\ play'.left = {}

LEMMA ReadingKeeps ==
  ASSUME KeyInv, Begin \/ Load
  PROVE  Kept
<1>1. /\ PlayFits(play) /\ keyfile \in Seq(Accounts) /\ made \in Nat
      /\ keyfile' = keyfile
  BY DEF KeyInv, KeysKeep, Begin, Load, FilesQuiet
<1>2. CASE Begin
  <2>1. PICK count \in Counts :
            play' = [NoPlay EXCEPT !.at = "load", !.count = count]
    BY <1>2 DEF Begin, Become
  <2>2. /\ play'.at = "load" /\ play'.count = count /\ play'.left = {}
        /\ play'.words = <<>> /\ play'.todo = <<>>
        /\ {"at", "words", "count", "todo", "left", "late"} \subseteq DOMAIN play'
        /\ made' = made /\ <<>> \in Seq(Accounts)
    BY <1>2, <2>1, EmptySeq DEF NoPlay, Begin, FilesQuiet
  <2>3. count \in Nat
    BY PlayersAssumption
  <2> QED
    BY <1>1, <2>2, <2>3 DEF Kept, KeysKeep, PlayFits, KeysFit, Looping, NotYetWritten, Closing
<1>3. CASE Load
  <2> DEFINE more == IF play.count > Len(keyfile) THEN play.count - Len(keyfile) ELSE 0
             new  == SubSeq(KeyOrder, made + 1, made + more)
             now  == keyfile \o new
  <2>1. /\ play' = [play EXCEPT !.at = "truncate", !.words = now]
        /\ made + more <= Len(KeyOrder) /\ made' = made + more
        /\ play.at = "load"
    BY <1>3 DEF Load, Become, PlayAt
  <2>2. play.count \in 1 .. Len(KeyOrder) /\ Len(KeyOrder) \in Nat
        /\ Len(keyfile) \in Nat /\ play.left = {}
    BY <1>1, <2>1, PlayersAssumption, LenProperties
    DEF KeyInv, KeysKeep, KeysFit, Closing
  <2>3. more \in Nat /\ made' \in Nat /\ Len(keyfile) + more >= play.count
    BY <1>1, <2>1, <2>2
  <2> HIDE DEF more
  <2>4. new \in Seq(Accounts) /\ Len(new) = more
    <3>1. \A i \in made + 1 .. made + more : KeyOrder[i] \in Accounts
      BY <1>1, <2>1, <2>2, <2>3, PlayersAssumption, ElementOfSeq
    <3> DEFINE m == made + 1
               n == made + more
    <3>2. m \in Int /\ n \in Int /\ (m <= n <=> more > 0)
          /\ n - m + 1 = more
      BY <1>1, <2>3
    <3> HIDE DEF m, n
    <3>3. /\ SubSeq(KeyOrder, m, n) \in Seq(Accounts)
          /\ Len(SubSeq(KeyOrder, m, n)) = IF m <= n THEN n - m + 1 ELSE 0
      BY <3>1, <3>2, SubSeqProperties DEF m, n
    <3> QED
      BY <2>3, <3>2, <3>3 DEF m, n
  <2> HIDE DEF new
  <2>5. /\ now \in Seq(Accounts) /\ Len(now) = Len(keyfile) + more
        /\ \A i \in 1 .. Len(keyfile) + more :
              now[i] = IF i <= Len(keyfile) THEN keyfile[i]
                       ELSE new[i - Len(keyfile)]
    BY <1>1, <2>4, ConcatProperties
  <2>6. ToSet(keyfile) \subseteq ToSet(now)
    <3>1. DOMAIN keyfile = 1 .. Len(keyfile) /\ DOMAIN now = 1 .. Len(now)
      BY <1>1, <2>5, LenProperties
    <3>2. \A i \in DOMAIN keyfile : i \in DOMAIN now /\ now[i] = keyfile[i]
      BY <2>2, <2>3, <2>5, <3>1
    <3> QED
      BY <3>2 DEF ToSet
  <2> HIDE DEF now
  <2>7. /\ play'.at = "truncate" /\ play'.words = now
        /\ play'.count = play.count /\ play'.todo = play.todo
        /\ play'.left = {}
        /\ {"at", "words", "count", "todo", "left", "late"} \subseteq DOMAIN play'
    BY <1>1, <2>1, <2>2 DEF PlayFits
  <2>8. play.count \in 1 .. Len(now)
    BY <2>2, <2>3, <2>5
  <2> QED
    BY <1>1, <2>2, <2>3, <2>5, <2>6, <2>7, <2>8
    DEF Kept, KeysKeep, PlayFits, KeysFit, Looping, NotYetWritten, Closing
<1> QED
  BY <1>2, <1>3

LEMMA WritingKeeps ==
  ASSUME KeyInv, Truncate \/ WriteKeys
  PROVE  Kept
<1>1. /\ PlayFits(play) /\ made' = made /\ made \in Nat /\ play.left = {}
      /\ play.count \in 1 .. Len(play.words)
      /\ <<>> \in Seq(Accounts) /\ ToSet(<<>>) = {}
  BY EmptySeq DEF KeyInv, KeysKeep, PlayFits, KeysFit, Truncate, WriteKeys,
     PlayAt, Closing, ToSet
<1>2. CASE Truncate
  <2>1. /\ play'.at = "write" /\ play'.words = play.words
        /\ play'.count = play.count /\ play'.todo = play.todo
        /\ play'.left = {} /\ keyfile' = <<>>
        /\ {"at", "words", "count", "todo", "left", "late"} \subseteq DOMAIN play'
    BY <1>1, <1>2 DEF Truncate, Become, PlayFits
  <2> QED
    BY <1>1, <2>1
    DEF Kept, KeysKeep, PlayFits, KeysFit, Looping, NotYetWritten, Closing
<1>3. CASE WriteKeys
  <2>1. /\ play'.at = "fund" /\ play'.words = play.words
        /\ play'.count = play.count /\ play'.todo = Players(play)
        /\ play'.left = {} /\ keyfile' = play.words
        /\ {"at", "words", "count", "todo", "left", "late"} \subseteq DOMAIN play'
    BY <1>1, <1>3 DEF WriteKeys, Become, PlayFits
  <2>2. Players(play) \in Seq(Accounts) /\ Players(play) # <<>>
    BY <1>1, PlayersAre DEF PlayFits
  <2> QED
    BY <1>1, <2>1, <2>2
    DEF Kept, KeysKeep, PlayFits, KeysFit, Looping, NotYetWritten, Closing
<1> QED
  BY <1>2, <1>3

LEMMA MiddleKeeps ==
  ASSUME KeyInv,
         \/ Fund \/ EnterPlayer \/ FillPot \/ Ask \/ ReadTerms \/ DrawLottery
         \/ ReadFired \/ ResolveLottery \/ Check
  PROVE  Kept
<1> DEFINE Fields == {"at", "words", "count", "todo", "left", "late"}
<1>1. /\ PlayFits(play) /\ keyfile \in Seq(Accounts) /\ made \in Nat
      /\ KeysFit(play, keyfile, funded) /\ play.todo \in Seq(Accounts)
      /\ Fields \subseteq DOMAIN play
  BY DEF KeyInv, KeysKeep, PlayFits
<1>2. keyfile' = keyfile /\ made' = made /\ play.at \in Middle
  BY DEF Fund, EnterPlayer, FillPot, Ask, ReadTerms, DrawLottery, ReadFired,
     ResolveLottery, Check, FilesQuiet, PlayAt, Middle
<1>3. ASSUME play'.at \in Middle, Fields \subseteq DOMAIN play',
             play'.words = play.words, play'.count = play.count,
             play'.left = play.left, play'.todo \in Seq(Accounts),
             play'.at \in Looping => play'.todo # <<>>
      PROVE  Kept
  <2>1. PlayFits(play') /\ KeysFit(play', keyfile, funded') /\ play'.left = {}
    BY <1>1, <1>2, <1>3, MiddleFits
  <2> QED
    BY <1>1, <1>2, <1>3, <2>1 DEF Kept, KeysKeep, Middle, Verdicts
<1>4. ASSUME play' = ToClaims(play), funded' = funded
      PROVE  Kept
  <2>1. PlayFits(play') /\ KeysFit(play', keyfile, funded') /\ play'.left = {}
        /\ play'.at = "owed"
    BY <1>1, <1>2, <1>4, ToClaimsFits
  <2> QED
    BY <1>1, <1>2, <2>1 DEF Kept, KeysKeep
<1>5. play.count \in 1 .. Len(play.words) /\ play.words \in Seq(Accounts)
  BY <1>1, <1>2 DEF PlayFits, Middle, Verdicts
<1>6. Everyone(play) \in Seq(Accounts) /\ Everyone(play) # <<>>
  BY <1>5, PlayersAre
<1>7. play.at \in Looping => /\ play.todo # <<>> /\ Tail(play.todo) \in Seq(Accounts)
                             /\ Len(play.todo) = 1 <=> Tail(play.todo) = <<>>
  <2> SUFFICES ASSUME play.at \in Looping
               PROVE  /\ play.todo # <<>> /\ Tail(play.todo) \in Seq(Accounts)
                      /\ Len(play.todo) = 1 <=> Tail(play.todo) = <<>>
    OBVIOUS
  <2>1. play.todo # <<>>
    BY <1>1 DEF PlayFits
  <2> QED
    BY <1>1, <2>1, TailSet
<1>8. CASE Fund
  BY <1>1, <1>3, <1>7, <1>8 DEF Fund, PlayAt, Become, Middle, Looping
<1>9. CASE EnterPlayer
  BY <1>1, <1>3, <1>7, <1>9 DEF EnterPlayer, NextPlayer, PlayAt, Become, Middle,
     Looping
<1>10. CASE FillPot
  BY <1>1, <1>3, <1>6, <1>10 DEF FillPot, Become, Middle
<1>11. CASE Ask
  <2>1. /\ play'.at \in {"cycle", "baseline", "check", "after"}
        /\ Fields \subseteq DOMAIN play'
        /\ play'.words = play.words /\ play'.count = play.count
        /\ play'.left = play.left /\ play'.todo = Tail(play.todo)
        /\ play'.at \in Looping => Len(play.todo) # 1
    BY <1>1, <1>11 DEF Ask, Become, Looping
  <2>2. play.at \in Looping
    BY <1>11 DEF Ask, PlayAt, Looping
  <2> QED
    BY <1>3, <1>7, <2>1, <2>2 DEF Middle
<1>12. CASE ReadTerms
  BY <1>1, <1>3, <1>4, <1>12 DEF ReadTerms, Become, Middle, Looping, FilesQuiet
<1>13. CASE DrawLottery
  BY <1>1, <1>3, <1>13 DEF DrawLottery, Become, Middle, Looping
<1>14. CASE ReadFired
  BY <1>1, <1>3, <1>14 DEF ReadFired, Become, Middle, Looping, Verdicts
<1>15. CASE ResolveLottery
  <2>1. /\ play'.at \in {"after", "wrong_index"} /\ Fields \subseteq DOMAIN play'
        /\ play'.words = play.words /\ play'.count = play.count
        /\ play'.left = play.left
        /\ IF play'.at = "after" THEN play'.todo = Everyone(play)
                                 ELSE play'.todo = play.todo
    BY <1>1, <1>15 DEF ResolveLottery, Become
  <2> QED
    BY <1>1, <1>3, <1>6, <2>1 DEF Middle, Verdicts, Looping
<1>16. CASE Check
  BY <1>1, <1>3, <1>4, <1>16 DEF Check, Become, Middle, Looping, Verdicts,
     FilesQuiet
<1> QED
  BY <1>8, <1>9, <1>10, <1>11, <1>12, <1>13, <1>14, <1>15, <1>16

LEMMA ClaimsKeep ==
  ASSUME KeyInv, AskOwed \/ ClaimOwed
  PROVE  KeysKeep' /\ OwedLate'
<1> PICK who : who = Head(play.todo)
  OBVIOUS
<1> DEFINE k == NextClaim(Leaves(play, who))
<1>1. /\ PlayFits(play) /\ keyfile \in Seq(Accounts) /\ made \in Nat
      /\ KeysFit(play, keyfile, funded) /\ OwedLate /\ HubKeeps
      /\ keyfile' = keyfile /\ made' = made /\ funded' = funded
      /\ play.at \in {"owed", "claim"}
  BY DEF KeyInv, KeysKeep, AskOwed, ClaimOwed, FilesQuiet, PlayAt
<1>2. /\ PlayFits(k) /\ KeysFit(k, keyfile, funded) /\ k.at # "load"
      /\ k.left = play.left \cup {who} /\ k.late = play.late /\ who \in Accounts
  BY <1>1, NextClaimFits
<1>3. play.left \subseteq Accounts
  BY <1>1 DEF PlayFits
<1> HIDE DEF k
<1>4. ASSUME play' = k, OwedNow(who)' = 0,
             \A a \in Accounts : OwedNow(a)' = OwedNow(a) \/ OwedNow(a)' = 0
      PROVE  KeysKeep' /\ OwedLate'
  <2>1. KeysKeep'
    BY <1>1, <1>2, <1>4 DEF KeysKeep
  <2>2. ASSUME NEW a \in play'.left, OwedNow(a)' > 0
        PROVE  a \in play'.late
    BY <1>1, <1>2, <1>3, <1>4, <2>2 DEF OwedLate
  <2> QED
    BY <2>1, <2>2 DEF OwedLate
<1>5. CASE AskOwed
  <2>1. \A a : OwedNow(a)' = OwedNow(a)
    BY <1>5, QuietOwes DEF AskOwed, HubQuiet
  <2>2. CASE OwedNow(who) = 0
    <3>1. play' = k
      BY <1>5, <2>2 DEF AskOwed, Become, OwedNow, k
    <3> QED
      BY <1>4, <2>1, <2>2, <3>1
  <2>3. CASE OwedNow(who) # 0
    <3>1. /\ play'.at = "claim" /\ play'.words = play.words
          /\ play'.count = play.count /\ play'.left = play.left
          /\ play'.todo = play.todo /\ play'.late = play.late
          /\ {"at", "words", "count", "todo", "left", "late"} \subseteq DOMAIN play'
          /\ play.at = "owed"
      BY <1>1, <1>5, <2>3 DEF AskOwed, Become, OwedNow, PlayFits, PlayAt
    <3>2. Players(play') = Players(play)
      BY <3>1 DEF Players
    <3>3. KeysKeep'
      BY <1>1, <3>1, <3>2
      DEF KeysKeep, PlayFits, KeysFit, Looping, NotYetWritten, Closing
    <3>4. OwedLate'
      BY <1>1, <2>1, <3>1 DEF OwedLate
    <3> QED
      BY <3>3, <3>4
  <2> QED
    BY <2>2, <2>3
<1>6. CASE ClaimOwed
  <2>1. play' = k /\ Claim(who, Lottery)
    BY <1>6 DEF ClaimOwed, Become, k
  <2>2. TypeOK /\ Lottery \in DOMAIN rains
    BY <1>1, KeyTyped DEF HubKeeps, SeatsInv
  <2>3. \A b \in Accounts : OwedNow(b)' = IF b = who THEN 0 ELSE OwedNow(b)
    BY <1>2, <2>1, <2>2, ClaimPays DEF OwedNow
  <2> QED
    BY <1>2, <1>4, <2>1, <2>3
<1> QED
  BY <1>5, <1>6

LEMMA ClosingKeeps ==
  ASSUME KeyInv, Close
  PROVE  KeysKeep' /\ OwedLate'
<1> DEFINE who == Head(play.todo)
<1>1. /\ PlayFits(play) /\ keyfile \in Seq(Accounts) /\ made \in Nat
      /\ KeysFit(play, keyfile, funded) /\ OwedLate
      /\ keyfile' = keyfile /\ made' = made /\ funded' = funded \ {who}
      /\ play.at = "close"
  BY DEF KeyInv, KeysKeep, Close, PlayAt
<1>2. play.todo \in Seq(Accounts) /\ play.todo # <<>>
  BY <1>1 DEF PlayFits, Looping
<1>3. /\ Tail(play.todo) \in Seq(Accounts)
      /\ ToSet(play.todo) \subseteq {who} \cup ToSet(Tail(play.todo))
      /\ Len(play.todo) = 1 <=> Tail(play.todo) = <<>>
  BY <1>2, TailSet
<1>4. /\ play'.at = (IF Len(play.todo) = 1 THEN "unlink" ELSE "close")
      /\ play'.words = play.words /\ play'.count = play.count
      /\ play'.left = play.left /\ play'.late = play.late
      /\ play'.todo = Tail(play.todo)
      /\ {"at", "words", "count", "todo", "left", "late"} \subseteq DOMAIN play'
  BY <1>1 DEF Close, Become, PlayFits
<1>5. Players(play') = Players(play) /\ ToSet(<<>>) = {}
  BY <1>4 DEF Players, ToSet
<1> HIDE DEF who
<1>6. PlayFits(play')
  BY <1>1, <1>3, <1>4 DEF PlayFits, Looping
<1>7. KeysFit(play', keyfile, funded')
  BY <1>1, <1>3, <1>4, <1>5 DEF KeysFit, NotYetWritten, Closing
<1>8. KeysKeep'
  BY <1>1, <1>4, <1>6, <1>7 DEF KeysKeep
<1>9. OwedLate'
  <2>1. \A a : OwedNow(a)' = OwedNow(a)
    BY QuietOwes DEF Close, HubQuiet
  <2> QED
    BY <1>1, <1>4, <2>1 DEF OwedLate
<1> QED
  BY <1>8, <1>9

LEMMA EndingKeeps ==
  ASSUME KeyInv, Unlink \/ PlayRefused \/ Dies
  PROVE  Kept
<1>1. /\ play' = NoPlay /\ made' = made /\ <<>> \in Seq(Accounts)
      /\ keyfile' = keyfile \/ keyfile' = <<>>
  BY EmptySeq DEF Unlink, PlayRefused, Dies, Become, FilesQuiet
<1>2. keyfile' \in Seq(Accounts) /\ made' \in Nat
  BY <1>1 DEF KeyInv, KeysKeep
<1>3. /\ PlayFits(play') /\ KeysFit(play', keyfile', funded')
      /\ play'.at = "idle" /\ play'.left = {}
  BY <1>1, NoPlayFits
<1> QED
  BY <1>2, <1>3 DEF Kept, KeysKeep

LEMMA ElseKeeps ==
  ASSUME KeyInv, HubKeeps', Else
  PROVE  KeysKeep' /\ OwedLate'
<1>1. /\ PlayFits(play) /\ keyfile \in Seq(Accounts) /\ made \in Nat
      /\ KeysFit(play, keyfile, funded) /\ OwedLate /\ HubKeeps
      /\ play.left \subseteq Accounts
      /\ keyfile' = keyfile /\ made' = made /\ funded' = funded
  BY DEF KeyInv, KeysKeep, PlayFits, Else, FilesQuiet
<1>2. /\ play'.at = play.at /\ play'.words = play.words
      /\ play'.count = play.count /\ play'.todo = play.todo
      /\ play'.left = play.left
      /\ play'.late = play.late \cup (play.left \cap Credited)
      /\ {"at", "words", "count", "todo", "left", "late"} \subseteq DOMAIN play'
  BY <1>1 DEF Else, Become, PlayFits
<1>3. Players(play') = Players(play)
  BY <1>2 DEF Players
<1>4. KeysKeep'
  <2>1. PlayFits(play')
    BY <1>1, <1>2 DEF PlayFits
  <2>2. KeysFit(play', keyfile, funded)
    BY <1>1, <1>2, <1>3 DEF KeysFit
  <2> QED
    BY <1>1, <1>2, <2>1, <2>2 DEF KeyInv, KeysKeep
<1>5. OwedLate'
  <2> SUFFICES ASSUME NEW a \in play'.left, OwedNow(a)' > 0
               PROVE  a \in play'.late
    BY DEF OwedLate
  <2>1. a \in play.left /\ a \in Accounts
    BY <1>1, <1>2
  <2>2. OwedNow(a) \in Nat /\ OwedNow(a)' \in Nat
    BY <1>1, <2>1, KeyTyped, KeyTypedNext
  <2>3. CASE OwedNow(a)' > OwedNow(a)
    BY <1>2, <2>1, <2>3 DEF Credited, OwedNow
  <2>4. CASE OwedNow(a) > 0
    BY <1>1, <1>2, <2>1, <2>4 DEF OwedLate
  <2> QED
    BY <2>2, <2>3, <2>4
<1> QED
  BY <1>4, <1>5

LEMMA KeyStep ==
  ASSUME KeyInv, [OneDrawNext]_oneDrawVars
  PROVE  KeyInv'
<1>1. CASE OneDrawNext
  <2>1. HubKeeps'
    BY <1>1, OneDrawDeals, KeyHub DEF KeyInv
  <2>2. CASE Kept
    BY <2>1, <2>2 DEF Kept, KeyInv, OwedLate
  <2>3. CASE KeysKeep' /\ OwedLate'
    BY <2>1, <2>3 DEF KeyInv
  <2> QED
    BY <1>1, <2>1, <2>2, <2>3, ReadingKeeps, WritingKeeps, MiddleKeeps,
       ClaimsKeep, ClosingKeeps, EndingKeeps, ElseKeeps DEF OneDrawNext, Script
<1>2. CASE UNCHANGED oneDrawVars
  <2>1. UNCHANGED <<vars, playerVars>>
    BY <1>2 DEF oneDrawVars
  <2>2. HubKeeps'
    <3>1. UNCHANGED vars
      BY <2>1
    <3> QED
      BY <3>1, KeyHub DEF Deals, KeyInv
  <2>3. KeysKeep' /\ OwedLate'
    <3>1. \A a : OwedNow(a)' = OwedNow(a)
      BY <2>1, QuietOwes
    <3> QED
      BY <2>1, <3>1 DEF KeyInv, KeysKeep, OwedLate, playerVars
  <2> QED
    BY <2>2, <2>3 DEF KeyInv
<1> QED
  BY <1>1, <1>2

\* For whatever players, hub and callers: a key that goes off the file by the
\* script's own end belongs to a closed account that the hub owes nothing but
\* what fell to it after its claim (rain_one_draw.py:137).
THEOREM KeysAlwaysOutlive == OneDrawSpec => KeysOutliveMoney
<1> DEFINE Fetched ==
             \A k \in ToSet(keyfile) \ ToSet(keyfile') :
               \/ PlayAt("truncate") /\ k \in ToSet(play.words)
               \/ PlayAt("unlink") /\ k \notin ToSet(Players(play))
               \/ /\ k \notin funded
                  /\ AllocationOf(Lottery, k) > 0 => k \in play.late
<1>1. OneDrawFound /\ OneDrawInit => KeyInv
  <2> SUFFICES ASSUME OneDrawFound, OneDrawInit  PROVE KeyInv
    OBVIOUS
  <2>1. HubKeeps
    BY DEF OneDrawFound, HubKeeps, SeatsInv
  <2>2. <<>> \in Seq(Accounts)
    BY EmptySeq
  <2>3. KeysKeep /\ play.left = {}
    BY <2>2, NoPlayFits DEF OneDrawInit, KeysKeep
  <2> QED
    BY <2>1, <2>3 DEF KeyInv, OwedLate
<1>2. ASSUME KeyInv, OneDrawNext
      PROVE  Fetched
  <2>1. KeysFit(play, keyfile, funded) /\ OwedLate
    BY <1>2 DEF KeyInv, KeysKeep
  <2>2. CASE keyfile' = keyfile
    BY <2>2
  <2>3. CASE Truncate
    BY <2>1, <2>3 DEF Truncate, PlayAt, KeysFit
  <2>4. CASE WriteKeys
    BY <2>1, <2>4 DEF WriteKeys, PlayAt, KeysFit, ToSet
  <2>5. CASE Unlink
    <3>1. /\ play.at = "unlink" /\ ToSet(Players(play)) \cap funded = {}
          /\ ToSet(Players(play)) \subseteq play.left
      BY <2>1, <2>5 DEF Unlink, PlayAt, KeysFit
    <3> QED
      BY <2>1, <3>1 DEF PlayAt, OwedLate, OwedNow
  <2> QED
    BY <1>2, <2>2, <2>3, <2>4, <2>5 DEF OneDrawNext, Script, Begin, Load, Fund,
       EnterPlayer, FillPot, Ask, ReadTerms, DrawLottery, ReadFired,
       ResolveLottery, Check, AskOwed, ClaimOwed, Close, PlayRefused, Dies,
       Else, FilesQuiet
<1>3. KeyInv /\ [OneDrawNext]_oneDrawVars => KeyInv'
  BY KeyStep
<1> HIDE DEF Fetched
<1>4. KeyInv /\ [OneDrawNext]_oneDrawVars => [Fetched]_oneDrawVars
  BY <1>2
<1> QED
  BY <1>1, <1>3, <1>4, PTL DEF OneDrawSpec, KeysOutliveMoney, Fetched

-----------------------------------------------------------------------------
(* The demonstrations                                                      *)
(*                                                                         *)
(* As long as nobody meddles, the rain is at every step what the script    *)
(* counts on: its terms, its pot, what has fallen, and who holds a ticket  *)
(* without debt.                                                           *)

\* A remainder is the only one of its size.
LEMMA ModUnique ==
  ASSUME NEW n \in Nat \ {0}, NEW k \in Int, NEW b \in 0 .. n - 1
  PROVE  (k * n + b) % n = b
<1> DEFINE m == k * n + b
           q == m \div n
           s == m % n
<1>1. m \in Int /\ q \in Int /\ s \in 0 .. n - 1 /\ m = n * q + s
  OBVIOUS
<1>2. n * (k - q) = s - b
  BY <1>1
<1>3. CASE k - q >= 1
  <2>1. n * (k - q) >= n
    BY <1>1, <1>3
  <2> QED
    BY <1>1, <1>2, <2>1
<1>4. CASE k - q <= -1
  <2>1. n * (k - q) <= -n
    BY <1>1, <1>4
  <2> QED
    BY <1>1, <1>2, <2>1
<1>5. CASE k = q
  BY <1>1, <1>2, <1>5
<1> QED
  BY <1>1, <1>3, <1>4, <1>5

\* Whatever a walk around a circle starts from, it gets everywhere.
LEMMA ModReaches ==
  ASSUME NEW n \in Nat \ {0}, NEW c \in Nat, NEW b \in 0 .. n - 1
  PROVE  \E d \in 0 .. n - 1 : (c + d) % n = b
<1> DEFINE q == c \div n
           s == c % n
<1>1. q \in Nat /\ s \in 0 .. n - 1 /\ c = n * q + s
  OBVIOUS
<1> HIDE DEF q, s
<1>2. CASE b >= s
  <2>1. b - s \in 0 .. n - 1 /\ c + (b - s) = q * n + b
    BY <1>1, <1>2
  <2>2. (q * n + b) % n = b
    BY <1>1, ModUnique
  <2> QED
    BY <2>1, <2>2
<1>3. CASE b < s
  <2>1. b - s + n \in 0 .. n - 1
    BY <1>1, <1>3
  <2>2. c + (b - s + n) = (q + 1) * n + b
    BY <1>1
  <2>3. ((q + 1) * n + b) % n = b
    BY <1>1, ModUnique
  <2> QED
    BY <2>1, <2>2, <2>3
<1> QED
  BY <1>1, <1>2, <1>3
\* One draw visits every rain of a hub that has no more than it scans.
LEMMA VisitsAll ==
  ASSUME TypeOK, next_rain_id <= DrawScan, NEW r \in DOMAIN rains
  PROVE  r \in Visited
<1>1. /\ next_rain_id \in Nat \ {0} /\ cursor \in Nat /\ DrawScan \in Nat
      /\ r \in 1 .. next_rain_id
  BY ScanAssumption DEF TypeOK
<1>2. r - 1 \in 0 .. next_rain_id - 1
  BY <1>1
<1>3. PICK d \in 0 .. next_rain_id - 1 : (cursor + d) % next_rain_id = r - 1
  BY <1>1, <1>2, ModReaches
<1>4. d \in 0 .. DrawScan - 1 /\ ((cursor + d) % next_rain_id) + 1 = r
  BY <1>1, <1>3
<1> QED
  BY <1>4 DEF Visited

Beginning == {"idle", "bootstrap", "opt_in", "open", "enter", "impostor"}
Unpaying  == {"enter", "impostor", "deposit", "until", "draw"}
Paying    == {"owed", "claim"}
Opened    == Unpaying \cup Paying \cup {"check"}

ListOf(kind) == IF kind = "community" THEN <<Holder>> ELSE Guests

DemoFits(j) ==
    /\ {"kind", "at", "rain", "todo", "until", "alone"} \subseteq DOMAIN j
    /\ j.todo \in Seq(Accounts) /\ IsInjective(j.todo)
    /\ j.at \in {"enter"} \cup Paying => j.todo # <<>>

\* Who has a ticket in a rain and no debt on it.
Debtless(r) == {a \in Holders(r) : tickets[<<r, a>>].credit = 0}

\* What each of so many gets of the drop, and what then is in the pot.
Split(n)    == DemoDrip \div n
LeftOver(n) == DemoPot - Split(n) * n

\* What the script counts on: the terms, the tickets and the pot, and when it
\* is due, for a list of n.
DemoTerms(j, rec) ==
    /\ rec.mode = SPLIT /\ rec.drip = DemoDrip
    /\ rec.interval_rounds = DemoInterval
    /\ j.kind = "community" => rec.gate_creator = CreatorOf[Nft]
    /\ j.at = "impostor" => j.kind = "community"

DemoTickets(j, rec, debtless, n) ==
    /\ j.at = "enter" =>
          /\ rec.tickets = n - Len(j.todo)
          /\ ToSet(ListOf(j.kind)) \subseteq debtless \cup ToSet(j.todo)
    /\ j.at \in {"impostor", "deposit", "until", "draw"} => rec.tickets = n
    /\ j.at \in {"impostor", "deposit", "until", "draw", "check"} =>
          ToSet(ListOf(j.kind)) \subseteq debtless
    /\ j.at \in Paying => ToSet(j.todo) \subseteq debtless

DemoHolds(j, rec, n) ==
    /\ j.at \in Unpaying => rec.cumulative = 0
    /\ j.at \in {"check"} \cup Paying => rec.cumulative = Split(n)
    /\ j.at \in {"enter", "impostor", "deposit"} => rec.pot = 0
    /\ j.at \in {"until", "draw"} => rec.pot = DemoPot
    /\ j.at = "check" => rec.pot = LeftOver(n)

DemoDue(j, rec, now) ==
    /\ rec.last_rain_round <= now
    /\ j.at = "draw" => /\ j.until \in Int
                        /\ rec.last_rain_round + DemoInterval <= j.until + 1

DemoFine(j, rec, debtless, now) ==
    /\ DemoTerms(j, rec) /\ DemoTickets(j, rec, debtless, Len(ListOf(j.kind)))
    /\ DemoHolds(j, rec, Len(ListOf(j.kind))) /\ DemoDue(j, rec, now)

DemoCalm == demo.alone /\ next_rain_id <= DrawScan

DemoRight ==
    /\ ~DemoAt("failed")
    /\ demo.at \in Opened =>
          /\ demo.rain \in DOMAIN rains
          /\ DemoFine(demo, rains[demo.rain], Debtless(demo.rain), round)

DemoInv ==
    /\ TypeOK /\ next_rain_id <= MaxRains /\ DemoFits(demo)
    /\ demo.at \in Beginning =>
          \A x \in Assets \ {Fake} : holding[x][Outsider] # "some"
    /\ DemoCalm => DemoRight

LEMMA DemoLists ==
  ASSUME NEW kind
  PROVE  /\ ListOf(kind) \in Seq(Accounts) /\ IsInjective(ListOf(kind))
         /\ ListOf(kind) # <<>> /\ Len(ListOf(kind)) \in 1 .. Len(Guests)
         /\ Holder \in Accounts /\ Outsider \in Accounts /\ Holder # Outsider
<1>1. /\ Guests \in Seq(Accounts \ {HubCreator}) /\ IsInjective(Guests)
      /\ Len(Guests) >= 2
  BY DemoAssumption
<1>2. Len(Guests) \in Nat /\ DOMAIN Guests = 1 .. Len(Guests)
  BY <1>1, LenProperties
<1>3. \A i \in 1 .. Len(Guests) : Guests[i] \in Accounts
  BY <1>1, ElementOfSeq
<1>4. Guests \in Seq(Accounts)
  <2>1. Guests \in [1 .. Len(Guests) -> Accounts]
    BY <1>1, <1>2, <1>3, LenProperties
  <2> QED
    BY <1>2, <2>1, SeqDef
<1>5. Holder \in Accounts /\ Outsider \in Accounts /\ Holder # Outsider
  BY <1>1, <1>2, <1>3 DEF Holder, Outsider, IsInjective
<1>6. /\ <<Holder>> \in Seq(Accounts) /\ Len(<<Holder>>) = 1 /\ <<Holder>> # <<>>
      /\ IsInjective(<<Holder>>)
  BY <1>5 DEF IsInjective
<1>7. Guests # <<>>
  BY <1>1, EmptySeq
<1> QED
  BY <1>1, <1>2, <1>4, <1>5, <1>6, <1>7 DEF ListOf

LEMMA EntrantsAre == Entrants = ListOf(demo.kind)
BY DEF Entrants, ListOf, Community

\* What is left of a list after its first is a list too, without the first.
LEMMA TailInjective ==
  ASSUME NEW S, NEW s \in Seq(S), s # <<>>, IsInjective(s)
  PROVE  IsInjective(Tail(s)) /\ ToSet(Tail(s)) \subseteq ToSet(s) \ {Head(s)}
<1>1. /\ Tail(s) \in Seq(S) /\ Len(Tail(s)) = Len(s) - 1 /\ Len(s) \in Nat \ {0}
      /\ \A i \in 1 .. Len(Tail(s)) : Tail(s)[i] = s[i + 1]
  BY HeadTailProperties, LenProperties, EmptySeq
<1>2. DOMAIN s = 1 .. Len(s) /\ DOMAIN Tail(s) = 1 .. Len(Tail(s))
  BY <1>1, LenProperties
<1>3. Head(s) = s[1]
  BY DEF Head
<1>4. IsInjective(Tail(s))
  <2> SUFFICES ASSUME NEW i \in DOMAIN Tail(s), NEW j \in DOMAIN Tail(s),
                      Tail(s)[i] = Tail(s)[j]
               PROVE  i = j
    BY DEF IsInjective
  <2>1. /\ i + 1 \in DOMAIN s /\ j + 1 \in DOMAIN s /\ s[i + 1] = s[j + 1]
        /\ i \in Int /\ j \in Int
    BY <1>1, <1>2
  <2>2. i + 1 = j + 1
    BY <2>1 DEF IsInjective
  <2> QED
    BY <2>1, <2>2
<1>5. ASSUME NEW i \in DOMAIN Tail(s)
      PROVE  Tail(s)[i] \in ToSet(s) \ {Head(s)}
  <2>1. i + 1 \in DOMAIN s /\ 1 \in DOMAIN s /\ i + 1 # 1
        /\ Tail(s)[i] = s[i + 1]
    BY <1>1, <1>2
  <2>2. s[i + 1] # s[1]
    BY <2>1 DEF IsInjective
  <2> QED
    BY <1>3, <2>1, <2>2 DEF ToSet
<1> QED
  BY <1>4, <1>5 DEF ToSet

\* A demonstration calls the hub as anybody may.
LEMMA DemoDeals ==
  ASSUME DemoInv, DemoNext
  PROVE  Deals \/ DemoBootstraps \/ \E kind \in {"rain", "community"} : DemoBegins(kind)
<1>1. \A a, r, mbr : Enter(a, r, mbr) => r \in DOMAIN rains
  BY DEF Enter
<1>2. \A a, r : Claim(a, r) => r \in DOMAIN rains
  BY DEF Claim, DemoInv, TypeOK
<1>3. \A r, amount : Deposit(r, amount) => r \in DOMAIN rains
  BY DEF Deposit
<1>4. /\ {AssetOptInMbr, RainBoxMbr, TicketMbr} \subseteq MbrPayments
      /\ Outsider \in Accounts /\ HubCreator \in Accounts /\ Prize \in Assets
      /\ SPLIT \in Modes /\ 0 \in WaveCaps /\ DemoDrip \in Drips
      /\ DemoInterval \in Intervals /\ DemoPot \in Amounts
      /\ CreatorOf[Nft] \in Gates
  BY DemoOffersAssumption, DemoAssumption, DemoLists, AssetsAssumption
<1>5. CASE DemoEnters \/ DemoClaims
  <2>1. demo.todo \in Seq(Accounts) /\ demo.todo # <<>>
    BY <1>5 DEF DemoEnters, DemoClaims, DemoAt, DemoInv, DemoFits, Paying
  <2>2. Head(demo.todo) \in Accounts
    BY <2>1, TailSet
  <2>3. CASE DemoEnters
    BY <1>1, <1>4, <2>2, <2>3 DEF DemoEnters, Deals
  <2>4. CASE DemoClaims
    BY <1>2, <2>2, <2>4 DEF DemoClaims, Deals
  <2> QED
    BY <1>5, <2>3, <2>4
<1>6. CASE DemoOptsIn
  BY <1>4, <1>6 DEF DemoOptsIn, Deals
<1>7. CASE DemoOpens
  <2>1. PICK gate \in Gates \cup {NoGate}, prize \in Assets \cup {Algo} :
           CreateRain(HubCreator, gate, prize, DemoDrip, DemoInterval, SPLIT, 0,
                      RainBoxMbr)
    BY <1>4, <1>7 DEF DemoOpens
  <2> QED
    BY <1>4, <2>1 DEF Deals
<1>8. CASE ImpostorTries
  BY <1>1, <1>4, <1>8 DEF ImpostorTries, Deals
<1>9. CASE DemoDeposits
  BY <1>3, <1>4, <1>9 DEF DemoDeposits, Deals
<1>10. CASE DemoSetsDue \/ DemoDraws \/ DemoChecks \/ DemoAsks
  BY <1>10 DEF DemoSetsDue, DemoDraws, DemoChecks, DemoAsks, Deals
<1>11. CASE DemoWorld
  BY <1>1, <1>3, <1>4, <1>11 DEF DemoWorld, Deals
<1> QED
  BY <1>5, <1>6, <1>7, <1>8, <1>9, <1>10, <1>11 DEF DemoNext, DemoStep

LEMMA DemoType ==
  ASSUME DemoInv, DemoNext
  PROVE  /\ TypeOK' /\ next_rain_id' <= MaxRains
         /\ next_rain_id <= next_rain_id'
<1>1. TypeOK /\ next_rain_id <= MaxRains
  BY DEF DemoInv
<1>2. CASE Deals
  <2>1. [Next]_vars
    BY <1>1, <1>2, DealsStep
  <2> QED
    BY <1>1, <2>1, TypeStep, HubGrows DEF HubNext
<1>3. CASE DemoBootstraps
  <2>1. Bootstrap(HubCreator, AppBaseMbr) /\ AppBaseMbr \in MbrPayments
    BY <1>3, DemoOffersAssumption DEF DemoBootstraps
  <2>2. TypeOK'
    BY <1>1, <2>1, TypeSetUp
  <2> QED
    BY <1>1, <2>1, <2>2 DEF Bootstrap, TypeOK
<1>4. ASSUME NEW kind, DemoBegins(kind)
      PROVE  /\ TypeOK' /\ next_rain_id' <= MaxRains
             /\ next_rain_id <= next_rain_id'
  <2>1. /\ Nft \in Assets /\ Prize \in Assets /\ Fake \in Assets
        /\ Holder \in Accounts /\ Outsider \in Accounts
    BY DemoAssumption, DemoLists, AssetsAssumption
  <2>2. holding' \in [Assets -> [Accounts -> Holdings]]
    BY <1>1, <1>4, <2>1 DEF DemoBegins, TypeOK, Holdings
  <2>3. UNCHANGED <<round, boxes, hub, held>>
    BY <1>4 DEF DemoBegins
  <2> QED
    BY <1>1, <2>2, <2>3 DEF TypeOK, boxes, hub
<1> QED
  BY <1>2, <1>3, <1>4, DemoDeals

\* Up to the impostor's try the outsider has no asset but its own.
LEMMA OutsiderKept ==
  ASSUME DemoInv, DemoNext, demo'.at \in Beginning
  PROVE  \A x \in Assets \ {Fake} : holding'[x][Outsider] # "some"
<1>1. /\ DemoFits(demo) /\ holding \in [Assets -> [Accounts -> Holdings]]
      /\ demo.at \in Beginning =>
            \A x \in Assets \ {Fake} : holding[x][Outsider] # "some"
  BY DEF DemoInv, TypeOK
<1>2. ASSUME NEW kind, DemoBegins(kind)
      PROVE  \A x \in Assets \ {Fake} : holding'[x][Outsider] # "some"
  <2>1. /\ Nft \in Assets /\ Prize \in Assets /\ Fake \in Assets
        /\ Holder \in Accounts /\ Outsider \in Accounts /\ Holder # Outsider
    BY DemoAssumption, DemoLists, AssetsAssumption
  <2>2. \A x \in Assets \ {Fake} : holding[x][Outsider] # "some"
    BY <1>1, <1>2 DEF DemoBegins, DemoAt, Beginning
  <2> QED
    BY <1>1, <1>2, <2>1, <2>2 DEF DemoBegins
<1>3. ASSUME holding' = holding, demo.at \in Beginning
      PROVE  \A x \in Assets \ {Fake} : holding'[x][Outsider] # "some"
  BY <1>1, <1>3
<1>4. CASE DemoBootstraps
  BY <1>3, <1>4 DEF DemoBootstraps, Bootstrap, DemoAt, Beginning
<1>5. CASE DemoOptsIn
  BY <1>3, <1>5 DEF DemoOptsIn, OptInPrizeAsset, DemoAt, Beginning
<1>6. CASE DemoOpens
  BY <1>3, <1>6 DEF DemoOpens, CreateRain, DemoAt, Beginning
<1>7. CASE DemoEnters \/ ImpostorTries
  BY <1>3, <1>7 DEF DemoEnters, ImpostorTries, Enter, DemoAt, Beginning, vars
<1>8. demo'.at \notin Beginning \/ ~(DemoDeposits \/ DemoSetsDue \/ DemoDraws
                                     \/ DemoChecks \/ DemoAsks \/ DemoClaims)
  BY <1>1 DEF DemoDeposits, DemoSetsDue, DemoDraws, DemoChecks, DemoAsks,
     DemoClaims, DemoGoes, DemoFits, Beginning
<1>9. CASE DemoWorld
  <2>1. demo'.at = demo.at
    BY <1>1, <1>9 DEF DemoWorld, DemoFits
  <2>2. holding' = holding
    BY <1>9 DEF DemoWorld, Tick, CreateRain, Enter, Deposit, Draw
  <2> QED
    BY <1>3, <2>1, <2>2
<1> QED
  BY <1>2, <1>4, <1>5, <1>6, <1>7, <1>8, <1>9 DEF DemoNext, DemoStep

LEMMA DemoFitsKept ==
  ASSUME DemoInv, DemoNext
  PROVE  DemoFits(demo')
<1> DEFINE Fields == {"kind", "at", "rain", "todo", "until", "alone"}
<1>1. /\ DemoFits(demo) /\ Fields \subseteq DOMAIN demo
      /\ demo.todo \in Seq(Accounts) /\ IsInjective(demo.todo)
  BY DEF DemoInv, DemoFits
<1>2. ASSUME Fields \subseteq DOMAIN demo', demo'.todo = demo.todo,
             demo'.at \in {"enter"} \cup Paying =>
                 demo'.at = demo.at \/ demo.at \in Paying
      PROVE  DemoFits(demo')
  BY <1>1, <1>2 DEF DemoFits
<1>3. ASSUME NEW kind, DemoBegins(kind)
      PROVE  DemoFits(demo')
  <2>1. /\ demo'.at = "bootstrap" /\ demo'.todo = <<>>
        /\ Fields \subseteq DOMAIN demo'
    BY <1>3 DEF DemoBegins, NoDemo
  <2>2. <<>> \in Seq(Accounts) /\ IsInjective(<<>>)
    BY EmptySeq DEF IsInjective
  <2> QED
    BY <2>1, <2>2 DEF DemoFits, Paying
<1>4. Entrants \in Seq(Accounts) /\ IsInjective(Entrants) /\ Entrants # <<>>
  BY EntrantsAre, DemoLists
<1>5. ASSUME Fields \subseteq DOMAIN demo', demo'.todo = Entrants
      PROVE  DemoFits(demo')
  BY <1>4, <1>5 DEF DemoFits
<1>6. ASSUME DemoEnters \/ DemoClaims
      PROVE  DemoFits(demo')
  <2>1. demo.todo # <<>>
    BY <1>1, <1>6 DEF DemoEnters, DemoClaims, DemoAt, DemoFits, Paying
  <2>2. /\ Tail(demo.todo) \in Seq(Accounts) /\ IsInjective(Tail(demo.todo))
        /\ Len(demo.todo) = 1 <=> Tail(demo.todo) = <<>>
        /\ Len(demo.todo) \in Nat \ {0}
    BY <1>1, <2>1, TailSet, TailInjective, LenProperties, EmptySeq
  <2>3. /\ Fields \subseteq DOMAIN demo' /\ demo'.todo = Tail(demo.todo)
        /\ demo'.at \in {"enter"} \cup Paying => Len(demo.todo) > 1
    BY <1>1, <1>6 DEF DemoEnters, DemoClaims, Paying
  <2> QED
    BY <2>2, <2>3 DEF DemoFits
<1>7. CASE DemoChecks
  <2>1. \/ Fields \subseteq DOMAIN demo' /\ demo'.todo = Entrants
        \/ /\ Fields \subseteq DOMAIN demo' /\ demo'.todo = demo.todo
           /\ demo'.at = "failed"
    BY <1>1, <1>7 DEF DemoChecks
  <2> QED
    BY <1>2, <1>5, <2>1 DEF Paying
<1>8. CASE DemoOpens
  BY <1>1, <1>5, <1>8 DEF DemoOpens
<1>9. CASE DemoBootstraps \/ DemoOptsIn \/ ImpostorTries \/ DemoDeposits
           \/ DemoSetsDue \/ DemoDraws
  BY <1>1, <1>2, <1>9 DEF DemoBootstraps, DemoOptsIn, ImpostorTries,
     DemoDeposits, DemoSetsDue, DemoDraws, DemoGoes, Paying
<1>10. CASE DemoAsks
  BY <1>1, <1>2, <1>10 DEF DemoAsks, DemoGoes, DemoAt, Paying
<1>11. CASE DemoWorld
  <2>1. /\ demo'.at = demo.at /\ demo'.todo = demo.todo
        /\ Fields \subseteq DOMAIN demo'
    BY <1>1, <1>11 DEF DemoWorld
  <2> QED
    BY <1>2, <2>1
<1> QED
  BY <1>3, <1>6, <1>7, <1>8, <1>9, <1>10, <1>11 DEF DemoNext, DemoStep

\* Nobody meddled before a step after which nobody has.
LEMMA StillCalm ==
  ASSUME DemoInv, DemoNext, DemoCalm'
  PROVE  \/ DemoCalm /\ DemoRight /\ demo'.kind = demo.kind
         \/ \E kind \in {"rain", "community"} : DemoBegins(kind)
<1>1. /\ DemoFits(demo) /\ next_rain_id \in Nat /\ next_rain_id' \in Nat
      /\ DrawScan \in Nat /\ next_rain_id <= next_rain_id'
  BY DemoType, ScanAssumption DEF DemoInv, TypeOK
<1>2. CASE \E kind \in {"rain", "community"} : DemoBegins(kind)
  BY <1>2
<1>3. CASE DemoBootstraps \/ DemoOptsIn \/ DemoOpens \/ DemoEnters \/ ImpostorTries
           \/ DemoDeposits \/ DemoSetsDue \/ DemoDraws \/ DemoChecks
           \/ DemoAsks \/ DemoClaims
  <2>1. demo'.alone = demo.alone /\ demo'.kind = demo.kind
    BY <1>1, <1>3 DEF DemoFits, DemoBootstraps, DemoOptsIn, DemoOpens,
       DemoEnters, ImpostorTries, DemoDeposits, DemoSetsDue, DemoDraws,
       DemoChecks, DemoAsks, DemoClaims, DemoGoes
  <2> QED
    BY <1>1, <2>1 DEF DemoCalm, DemoInv
<1>4. CASE DemoWorld
  <2>1. demo'.alone => demo' = demo
    BY <1>1, <1>4 DEF DemoFits, DemoWorld
  <2> QED
    BY <1>1, <2>1 DEF DemoCalm, DemoInv
<1> QED
  BY <1>2, <1>3, <1>4 DEF DemoNext, DemoStep

\* The opening of the rain.
LEMMA OpensRight ==
  ASSUME DemoInv, DemoOpens
  PROVE  DemoRight'
<1> DEFINE r == next_rain_id + 1
<1>1. /\ TypeOK /\ DemoFits(demo) /\ next_rain_id \in Nat
      /\ DOMAIN rains = 1 .. next_rain_id /\ round \in Nat
  BY DEF DemoInv, TypeOK
<1>2. /\ demo'.at = "enter" /\ demo'.rain = r /\ demo'.kind = demo.kind
      /\ demo'.todo = ListOf(demo.kind)
  BY <1>1, EntrantsAre DEF DemoOpens, CreateRain, DemoFits
<1>3. /\ r \in DOMAIN rains' /\ rains'[r].mode = SPLIT
      /\ rains'[r].drip = DemoDrip /\ rains'[r].interval_rounds = DemoInterval
      /\ rains'[r].last_rain_round = round /\ rains'[r].cumulative = 0
      /\ rains'[r].pot = 0 /\ rains'[r].tickets = 0 /\ round' = round
      /\ demo.kind = "community" => rains'[r].gate_creator = CreatorOf[Nft]
  <2> DEFINE gate  == IF Community THEN CreatorOf[Nft] ELSE NoGate
             prize == IF Community THEN Prize ELSE Algo
  <2>1. CreateRain(HubCreator, gate, prize, DemoDrip, DemoInterval, SPLIT, 0,
                   RainBoxMbr)
    BY DEF DemoOpens
  <2>2. demo.kind = "community" => gate = CreatorOf[Nft]
    BY DEF Community
  <2> HIDE DEF gate, prize
  <2>3. rains'[r].gate_creator = gate
    BY <1>1, <2>1 DEF CreateRain, Put
  <2> QED
    BY <1>1, <2>1, <2>2, <2>3 DEF CreateRain, Put
<1>4. Len(ListOf(demo.kind)) \in Nat
  BY DemoLists, LenProperties
<1> HIDE DEF r
<1>5. DemoFine(demo', rains'[demo'.rain], Debtless(demo.rain)', round')
  BY <1>1, <1>2, <1>3, <1>4 DEF DemoFine, DemoTerms, DemoTickets, DemoHolds,
     DemoDue, Unpaying, Paying
<1> QED
  BY <1>2, <1>3, <1>5 DEF DemoRight, DemoAt

\* While the rain is open and nobody meddles.
DemoOpen == DemoInv /\ DemoCalm /\ DemoRight /\ demo.at \in Opened

LEMMA OpenFacts ==
  ASSUME DemoOpen
  PROVE  /\ TypeOK /\ DemoFits(demo) /\ demo.rain \in DOMAIN rains
         /\ rains[demo.rain] \in RainRec /\ round \in Nat
         /\ DemoFine(demo, rains[demo.rain], Debtless(demo.rain), round)
         /\ ToSet(ListOf(demo.kind)) \subseteq Accounts
         /\ Len(ListOf(demo.kind)) \in 1 .. Len(Guests) /\ Len(Guests) \in Nat
         /\ DemoDrip \in Nat /\ DemoPot \in Nat /\ DemoInterval \in Nat
         /\ DemoDrip >= Len(Guests) /\ DemoPot >= DemoDrip
<1>1. /\ TypeOK /\ DemoFits(demo) /\ demo.rain \in DOMAIN rains
      /\ DemoFine(demo, rains[demo.rain], Debtless(demo.rain), round)
  BY DEF DemoOpen, DemoInv, DemoRight
<1>2. /\ ListOf(demo.kind) \in Seq(Accounts) /\ Len(Guests) \in Nat
      /\ Len(ListOf(demo.kind)) \in 1 .. Len(Guests)
  BY DemoLists, DemoAssumption, LenProperties
<1>3. ToSet(ListOf(demo.kind)) \subseteq Accounts
  BY <1>2, ElementOfSeq, LenProperties DEF ToSet
<1>4. /\ DemoDrip \in Nat /\ DemoPot \in Nat /\ DemoInterval \in Nat
      /\ DemoDrip >= Len(Guests) /\ DemoPot >= DemoDrip
  BY DemoAssumption, DemoOffersAssumption, InputAssumption, WordAssumption
<1> QED
  BY <1>1, <1>2, <1>3, <1>4, RainFacts

\* Blocks pass, and others open rains of their own.
LEMMA AroundRight ==
  ASSUME DemoOpen, demo' = demo,
         Tick \/ UNCHANGED vars \/
         \E a, gate, prize, drip, interval, mode, cap, mbr :
             CreateRain(a, gate, prize, drip, interval, mode, cap, mbr)
  PROVE  DemoRight'
<1>1. /\ TypeOK /\ demo.rain \in DOMAIN rains
      /\ DemoFine(demo, rains[demo.rain], Debtless(demo.rain), round)
      /\ round \in Nat /\ rains[demo.rain] \in RainRec
  BY OpenFacts
<1>2. /\ demo.rain \in DOMAIN rains' /\ rains'[demo.rain] = rains[demo.rain]
      /\ tickets' = tickets /\ round' \in Nat /\ round <= round'
  <2>1. CASE Tick \/ UNCHANGED vars
    BY <1>1, <2>1 DEF Tick, vars, boxes
  <2>2. CASE \E a, gate, prize, drip, interval, mode, cap, mbr :
                CreateRain(a, gate, prize, drip, interval, mode, cap, mbr)
    <3>1. demo.rain # next_rain_id + 1
      BY <1>1 DEF TypeOK
    <3> QED
      BY <1>1, <2>2, <3>1 DEF CreateRain, Put
  <2> QED
    BY <2>1, <2>2
<1>3. Debtless(demo.rain)' = Debtless(demo.rain)
  BY <1>2 DEF Debtless, Holders
<1>4. rains[demo.rain].last_rain_round \in Nat
  BY <1>1 DEF RainRec
<1>5. DemoFine(demo, rains[demo.rain], Debtless(demo.rain), round')
  BY <1>1, <1>2, <1>4 DEF DemoFine, DemoDue
<1> QED
  BY <1>2, <1>3, <1>5 DEF DemoRight, DemoOpen, DemoAt

LEMMA EntersRight ==
  ASSUME DemoOpen, DemoEnters
  PROVE  DemoRight'
<1>a. PICK r, a, n, all, rec :
        /\ r = demo.rain /\ a = Head(demo.todo) /\ all = ListOf(demo.kind)
        /\ n = Len(all) /\ rec = rains[r]
  OBVIOUS
<1>1. /\ TypeOK /\ DemoFits(demo) /\ r \in DOMAIN rains /\ rec \in RainRec
      /\ DemoFine(demo, rec, Debtless(r), round) /\ n \in Nat
      /\ ToSet(all) \subseteq Accounts /\ demo.at = "enter"
      /\ demo.todo \in Seq(Accounts) /\ demo.todo # <<>>
  BY <1>a, OpenFacts DEF DemoEnters, DemoAt, DemoFits
<1>2. /\ DemoTerms(demo, rec) /\ DemoTickets(demo, rec, Debtless(r), n)
      /\ DemoHolds(demo, rec, n) /\ DemoDue(demo, rec, round)
  BY <1>a, <1>1 DEF DemoFine
<1>b. PICK s, rest : s = Len(demo.todo) /\ rest = Tail(demo.todo)
  OBVIOUS
<1>3. /\ a \in Accounts /\ rest \in Seq(Accounts)
      /\ ToSet(demo.todo) \subseteq {a} \cup ToSet(rest)
      /\ s = 1 => rest = <<>>
  BY <1>a, <1>b, <1>1, TailSet
<1>4. s \in Nat \ {0}
  BY <1>b, <1>1, LenProperties, EmptySeq
<1>5. Len(rest) = s - 1
  BY <1>b, <1>1, HeadTailProperties
<1>6. /\ demo'.todo = rest /\ demo'.rain = r /\ demo'.kind = demo.kind
      /\ demo'.at = IF s > 1 THEN "enter"
                    ELSE IF Community THEN "impostor" ELSE "deposit"
  BY <1>a, <1>b, <1>1 DEF DemoEnters, DemoFits
<1>7. /\ rec.mode = SPLIT /\ rec.cumulative = 0 /\ rec.pot = 0
      /\ rec.tickets = n - s
      /\ ToSet(all) \subseteq Debtless(r) \cup ToSet(demo.todo)
  <2>1. rec.tickets = n - Len(demo.todo)
    BY <1>1, <1>2 DEF DemoTickets
  <2>2. ToSet(all) \subseteq Debtless(r) \cup ToSet(demo.todo)
    BY <1>a, <1>1, <1>2 DEF DemoTickets
  <2>3. rec.mode = SPLIT /\ rec.cumulative = 0 /\ rec.pot = 0
    BY <1>1, <1>2 DEF DemoTerms, DemoHolds, Unpaying
  <2> QED
    BY <1>b, <2>1, <2>2, <2>3
<1>8. Enter(a, r, TicketMbr)
  BY <1>a DEF DemoEnters
<1>9. /\ r \in DOMAIN rains' /\ rains'[r] = [rec EXCEPT !.tickets = @ + 1]
      /\ round' = round /\ <<r, a>> \in DOMAIN tickets'
      /\ tickets'[<<r, a>>].credit = 0
      /\ \A b : <<r, b>> \in DOMAIN tickets =>
             /\ <<r, b>> \in DOMAIN tickets'
             /\ tickets'[<<r, b>>] = tickets[<<r, b>>]
  <2>1. ~SeatFree(rec)
    BY <1>7 DEF SeatFree
  <2>2. rains'[r] = [rec EXCEPT !.tickets = @ + 1] /\ r \in DOMAIN rains'
    BY <1>a, <1>1, <1>8, <2>1 DEF Enter, RainRec
  <2> QED
    BY <1>a, <1>7, <1>8, <2>2 DEF Enter, Put, EnterCredit
<1>10. Debtless(r) \cup {a} \subseteq Debtless(r)'
  BY <1>3, <1>9 DEF Debtless, Holders
<1>11. ToSet(all) \subseteq Debtless(r)' \cup ToSet(rest)
  BY <1>3, <1>7, <1>10
<1>12. s = 1 => ToSet(rest) = {}
  BY <1>3 DEF ToSet
<1>13. /\ rains'[r].tickets = rec.tickets + 1 /\ rains'[r].mode = rec.mode
       /\ rains'[r].drip = rec.drip /\ rains'[r].pot = rec.pot
       /\ rains'[r].interval_rounds = rec.interval_rounds
       /\ rains'[r].last_rain_round = rec.last_rain_round
       /\ rains'[r].cumulative = rec.cumulative
       /\ rains'[r].gate_creator = rec.gate_creator
  BY <1>1, <1>9 DEF RainRec
<1>14. DemoTickets(demo', rains'[r], Debtless(r)', n)
  <2>a. ListOf(demo'.kind) = all
    BY <1>a, <1>6
  <2>1. CASE s > 1
    <3>1. rains'[r].tickets = n - Len(rest)
      BY <1>1, <1>4, <1>5, <1>7, <1>13
    <3> QED
      BY <1>6, <1>11, <2>a, <2>1, <3>1 DEF DemoTickets, Paying
  <2>2. CASE s = 1
    <3>1. rains'[r].tickets = n
      BY <1>1, <1>7, <1>13, <2>2
    <3> QED
      BY <1>6, <1>11, <1>12, <2>a, <2>2, <3>1 DEF DemoTickets, Paying
  <2> QED
    BY <1>4, <2>1, <2>2
<1>15. /\ DemoTerms(demo', rains'[r]) /\ DemoHolds(demo', rains'[r], n)
       /\ DemoDue(demo', rains'[r], round')
  BY <1>2, <1>6, <1>7, <1>9, <1>13
  DEF DemoTerms, DemoHolds, DemoDue, Unpaying, Paying, Community
<1>16. Debtless(demo.rain)' = Debtless(r)' /\ n = Len(ListOf(demo'.kind))
  BY <1>a, <1>6
<1> QED
  BY <1>6, <1>9, <1>14, <1>15, <1>16 DEF DemoRight, DemoAt, DemoFine

\* The impostor has nothing of the collection's, and is turned away.
LEMMA ImpostorRight ==
  ASSUME DemoOpen, ImpostorTries
  PROVE  DemoRight'
<1>1. /\ TypeOK /\ DemoFits(demo) /\ demo.rain \in DOMAIN rains
      /\ DemoFine(demo, rains[demo.rain], Debtless(demo.rain), round)
      /\ demo.at = "impostor"
  BY OpenFacts DEF ImpostorTries, DemoAt
<1>2. rains[demo.rain].gate_creator = CreatorOf[Nft]
  BY <1>1 DEF DemoFine, DemoTerms
<1>3. \A x \in Assets \ {Fake} : holding[x][Outsider] # "some"
  BY <1>1 DEF DemoOpen, DemoInv, Beginning
<1>4. ~GatePassed(rains[demo.rain], Outsider)
  BY <1>2, <1>3, DemoAssumption, DemoOffersAssumption DEF GatePassed
<1>5. ~Enter(Outsider, demo.rain, TicketMbr)
  BY <1>4 DEF Enter
<1>6. /\ UNCHANGED vars /\ demo'.at = "deposit" /\ demo'.rain = demo.rain
      /\ demo'.todo = demo.todo /\ demo'.kind = demo.kind
      /\ demo'.until = demo.until
  BY <1>1, <1>5 DEF ImpostorTries, DemoGoes, DemoFits
<1>7. DemoFine(demo', rains[demo.rain], Debtless(demo.rain), round)
  BY <1>1, <1>6 DEF DemoFine, DemoTerms, DemoTickets, DemoHolds, DemoDue,
     Unpaying, Paying
<1>8. Debtless(demo.rain)' = Debtless(demo.rain)
  BY <1>6 DEF Debtless, Holders, vars, boxes
<1> QED
  BY <1>1, <1>6, <1>7, <1>8 DEF DemoRight, DemoAt, vars, boxes

LEMMA DepositsRight ==
  ASSUME DemoOpen, DemoDeposits
  PROVE  DemoRight'
<1>a. PICK r, rec : r = demo.rain /\ rec = rains[r]
  OBVIOUS
<1>1. /\ DemoFits(demo) /\ r \in DOMAIN rains /\ rec \in RainRec
      /\ DemoFine(demo, rec, Debtless(r), round) /\ DemoPot \in Nat
      /\ demo.at = "deposit"
  BY <1>a, OpenFacts DEF DemoDeposits, DemoAt
<1>2. /\ demo'.at = "until" /\ demo'.rain = r /\ demo'.todo = demo.todo
      /\ demo'.kind = demo.kind
  BY <1>a, <1>1 DEF DemoDeposits, DemoGoes, DemoFits
<1>3. Deposit(r, DemoPot) /\ rec.pot = 0
  BY <1>a, <1>1 DEF DemoDeposits, DemoFine, DemoHolds
<1>4. /\ r \in DOMAIN rains' /\ rains'[r] = [rec EXCEPT !.pot = DemoPot]
      /\ round' = round /\ tickets' = tickets
  BY <1>a, <1>1, <1>3 DEF Deposit, RainRec
<1>5. /\ rains'[r].pot = DemoPot /\ rains'[r].mode = rec.mode
      /\ rains'[r].drip = rec.drip /\ rains'[r].tickets = rec.tickets
      /\ rains'[r].interval_rounds = rec.interval_rounds
      /\ rains'[r].last_rain_round = rec.last_rain_round
      /\ rains'[r].cumulative = rec.cumulative
      /\ rains'[r].gate_creator = rec.gate_creator
  BY <1>1, <1>4 DEF RainRec
<1>6. DemoFine(demo', rains'[r], Debtless(r), round')
  BY <1>1, <1>2, <1>4, <1>5
  DEF DemoFine, DemoTerms, DemoTickets, DemoHolds, DemoDue, Unpaying, Paying
<1>7. Debtless(demo.rain)' = Debtless(r)
  BY <1>2, <1>4 DEF Debtless, Holders
<1> QED
  BY <1>2, <1>4, <1>6, <1>7 DEF DemoRight, DemoAt

\* The script's own steps, which leave the hub as it is.
LEMMA LooksRight ==
  ASSUME DemoOpen, DemoSetsDue \/ DemoChecks \/ DemoAsks
  PROVE  DemoRight'
<1>a. PICK r, rec, n : r = demo.rain /\ rec = rains[r] /\ n = Len(ListOf(demo.kind))
  OBVIOUS
<1>1. /\ TypeOK /\ DemoFits(demo) /\ r \in DOMAIN rains /\ rec \in RainRec
      /\ DemoTerms(demo, rec) /\ DemoTickets(demo, rec, Debtless(r), n)
      /\ DemoHolds(demo, rec, n) /\ DemoDue(demo, rec, round)
      /\ round \in Nat /\ DemoInterval \in Nat /\ rec.last_rain_round \in Nat
  BY <1>a, OpenFacts DEF DemoFine, RainRec
<1>2. UNCHANGED vars
  BY DEF DemoSetsDue, DemoChecks, DemoAsks
<1>3. rains' = rains /\ round' = round /\ Debtless(demo.rain)' = Debtless(demo'.rain)
  BY <1>2 DEF Debtless, Holders, vars, boxes
<1>4. Entrants = ListOf(demo.kind) /\ DemoShare = Split(n)
  BY <1>a, EntrantsAre DEF DemoShare, Split
<1>5. ASSUME demo'.rain = r, demo'.kind = demo.kind, ~DemoAt("failed")',
             demo'.at # "impostor", DemoTickets(demo', rec, Debtless(r), n),
             DemoHolds(demo', rec, n), DemoDue(demo', rec, round)
      PROVE  DemoRight'
  <2>1. DemoTerms(demo', rec) /\ n = Len(ListOf(demo'.kind))
    BY <1>a, <1>1, <1>5 DEF DemoTerms
  <2>2. DemoFine(demo', rec, Debtless(r), round)
    BY <1>5, <2>1 DEF DemoFine
  <2> QED
    BY <1>a, <1>1, <1>3, <1>5, <2>2 DEF DemoRight
<1>6. CASE DemoSetsDue
  <2>1. /\ demo'.at = "draw" /\ demo'.rain = r /\ demo'.kind = demo.kind
        /\ demo'.todo = demo.todo /\ demo'.until = DueFromNow
        /\ demo.at = "until"
    BY <1>a, <1>1, <1>6 DEF DemoSetsDue, DemoFits, DemoAt
  <2>2. DueFromNow \in Int /\ rec.last_rain_round + DemoInterval <= DueFromNow + 1
    BY <1>1 DEF DueFromNow, DemoDue
  <2> QED
    BY <1>1, <1>5, <2>1, <2>2
    DEF DemoTickets, DemoHolds, DemoDue, DemoAt, Unpaying, Paying
<1>7. CASE DemoChecks
  <2>1. demo.at = "check"
    BY <1>7 DEF DemoChecks, DemoAt
  <2>2. rec.pot = LeftOver(n) /\ rec.cumulative = Split(n)
        /\ ToSet(ListOf(demo.kind)) \subseteq Debtless(r)
    BY <1>1, <2>1 DEF DemoHolds, DemoTickets
  <2>3. PotAsExpected(rec)
    BY <1>a, <1>4, <2>2 DEF PotAsExpected, LeftOver
  <2>4. /\ demo'.todo = ListOf(demo.kind) /\ demo'.rain = r
        /\ demo'.kind = demo.kind /\ demo'.at \in Paying
    BY <1>a, <1>1, <1>4, <1>7, <2>3 DEF DemoChecks, DemoFits, Paying
  <2> QED
    BY <1>1, <1>5, <2>2, <2>4
    DEF DemoTickets, DemoHolds, DemoDue, DemoAt, Unpaying, Paying
<1>8. CASE DemoAsks
  <2>a. PICK a : a = Head(demo.todo)
    OBVIOUS
  <2>1. /\ demo.at = "owed" /\ demo.todo \in Seq(Accounts) /\ demo.todo # <<>>
    BY <1>1, <1>8 DEF DemoAsks, DemoAt, DemoFits, Paying
  <2>2. a \in ToSet(demo.todo)
    <3>1. 1 \in DOMAIN demo.todo
      BY <2>1, LenProperties, EmptySeq
    <3> QED
      BY <2>a, <3>1 DEF ToSet, Head
  <2>3. /\ <<r, a>> \in DOMAIN tickets /\ tickets[<<r, a>>].credit = 0
        /\ rec.cumulative = Split(n) /\ rec.mode = SPLIT
    BY <1>1, <2>1, <2>2
    DEF DemoTickets, DemoHolds, DemoTerms, Paying, Debtless, Holders
  <2>4. AllocationOf(r, a) = DemoShare
    <3>1. rec.cumulative \in Nat
      BY <1>1 DEF RainRec
    <3>2. AllocationOf(r, a) = Allocation(rec, tickets[<<r, a>>])
      BY <1>a, <2>3 DEF AllocationOf
    <3>3. Allocation(rec, tickets[<<r, a>>]) = rec.cumulative - 0
      BY <2>3 DEF Allocation, Unsettled
    <3> QED
      BY <1>4, <2>3, <3>1, <3>2, <3>3
  <2>5. /\ demo'.at = "claim" /\ demo'.rain = r /\ demo'.kind = demo.kind
        /\ demo'.todo = demo.todo
    BY <1>a, <1>1, <1>8, <2>a, <2>4 DEF DemoAsks, DemoGoes, DemoFits
  <2> QED
    BY <1>1, <1>5, <2>1, <2>5
    DEF DemoTickets, DemoHolds, DemoDue, DemoAt, Unpaying, Paying
<1> QED
  BY <1>6, <1>7, <1>8

\* The drop: due, paid for, and divided among everybody on the list.
LEMMA DrawsRight ==
  ASSUME DemoOpen, DemoDraws
  PROVE  DemoRight'
<1>a. PICK r, rec : r = demo.rain /\ rec = rains[r]
  OBVIOUS
<1>b. PICK n, list : n = Len(list) /\ list = ListOf(demo.kind)
  OBVIOUS
<1>1. /\ TypeOK /\ DemoFits(demo) /\ r \in DOMAIN rains /\ rec \in RainRec
      /\ DemoTerms(demo, rec) /\ DemoTickets(demo, rec, Debtless(r), n)
      /\ DemoHolds(demo, rec, n) /\ DemoDue(demo, rec, round)
      /\ round \in Nat /\ DemoInterval \in Nat /\ rec.last_rain_round \in Nat
      /\ demo.at = "draw" /\ next_rain_id <= DrawScan
  BY <1>a, <1>b, OpenFacts DEF DemoFine, RainRec, DemoDraws, DemoAt, DemoOpen,
     DemoCalm
<1>2. /\ n \in Nat /\ n > 0 /\ n <= DemoDrip /\ DemoDrip \in Nat
      /\ DemoPot \in Nat /\ DemoPot >= DemoDrip
  <2>1. /\ n \in 1 .. Len(Guests) /\ Len(Guests) \in Nat
        /\ DemoDrip \in Nat /\ DemoPot \in Nat
        /\ DemoDrip >= Len(Guests) /\ DemoPot >= DemoDrip
    BY <1>b, OpenFacts
  <2>2. PICK g : g = Len(Guests)
    OBVIOUS
  <2> QED
    BY <2>1, <2>2
<1>3. /\ rec.mode = SPLIT /\ rec.drip = DemoDrip /\ rec.tickets = n
      /\ rec.interval_rounds = DemoInterval /\ rec.pot = DemoPot
      /\ rec.cumulative = 0 /\ ToSet(list) \subseteq Debtless(r)
      /\ demo.until \in Int
      /\ rec.last_rain_round + DemoInterval <= demo.until + 1
  BY <1>1, <1>b DEF DemoTerms, DemoTickets, DemoHolds, DemoDue, Unpaying
<1>4. Due(rec)
  <2>1. round - 1 >= demo.until
    BY DEF DemoDraws, Reached
  <2> QED
    BY <1>1, <1>3, <2>1 DEF Due
<1>5. Share(rec) = Split(n) /\ Paid(rec) = Split(n) * n
  BY <1>2, <1>3 DEF Share, Paid, Sharers, Split
<1>6. Split(n) \in Nat /\ Split(n) > 0 /\ Split(n) * n \in Nat
      /\ Split(n) * n <= DemoDrip
  BY <1>2, QuotientPositive, Quotient DEF Split
<1>7. TryFire(rec) = [rec EXCEPT !.pot = @ - Split(n) * n,
                                !.cumulative = @ + Split(n),
                                !.draw_id = @ + 1,
                                !.last_rain_round = round]
  BY <1>2, <1>3, <1>4, <1>5, <1>6 DEF TryFire, FireSplit
<1>8. r \in Visited
  BY <1>1, VisitsAll
<1>9. /\ rains'[r] = TryFire(rec) /\ r \in DOMAIN rains' /\ round' = round
      /\ tickets' = tickets
  BY <1>a, <1>1, <1>8 DEF DemoDraws, Draw, Drawn
<1>10. /\ rains'[r].pot = LeftOver(n) /\ rains'[r].cumulative = Split(n)
       /\ rains'[r].last_rain_round = round /\ rains'[r].mode = SPLIT
       /\ rains'[r].drip = DemoDrip /\ rains'[r].interval_rounds = DemoInterval
       /\ rains'[r].gate_creator = rec.gate_creator
  <2>1. PICK sum, s : sum = Split(n) * n /\ s = Split(n)
    OBVIOUS
  <2>2. rains'[r] = [rec EXCEPT !.pot = @ - sum, !.cumulative = @ + s,
                                !.draw_id = @ + 1, !.last_rain_round = round]
    BY <1>7, <1>9, <2>1
  <2>3. s \in Nat
    BY <1>6, <2>1
  <2>4. /\ rains'[r].pot = DemoPot - sum /\ rains'[r].cumulative = s
        /\ rains'[r].last_rain_round = round /\ rains'[r].mode = SPLIT
        /\ rains'[r].drip = DemoDrip /\ rains'[r].interval_rounds = DemoInterval
        /\ rains'[r].gate_creator = rec.gate_creator
    BY <1>1, <1>3, <2>2, <2>3 DEF RainRec
  <2> QED
    BY <2>1, <2>4 DEF LeftOver
<1>11. /\ demo'.at = "check" /\ demo'.rain = r /\ demo'.kind = demo.kind
       /\ demo'.todo = demo.todo
  BY <1>a, <1>1 DEF DemoDraws, DemoGoes, DemoFits
<1>12. Debtless(demo.rain)' = Debtless(r)
  BY <1>9, <1>11 DEF Debtless, Holders
<1>13. /\ DemoTerms(demo', rains'[r]) /\ DemoTickets(demo', rains'[r], Debtless(r), n)
       /\ DemoHolds(demo', rains'[r], n) /\ DemoDue(demo', rains'[r], round')
  BY <1>b, <1>1, <1>3, <1>9, <1>10, <1>11
  DEF DemoTerms, DemoTickets, DemoHolds, DemoDue, Unpaying, Paying
<1>14. n = Len(ListOf(demo'.kind))
  BY <1>b, <1>11
<1>15. DemoFine(demo', rains'[r], Debtless(r), round')
  BY <1>13, <1>14 DEF DemoFine
<1> QED
  BY <1>9, <1>11, <1>12, <1>15 DEF DemoRight, DemoAt

\* Each claim brings exactly a share, and leaves the others' due.
LEMMA DemoClaimsRight ==
  ASSUME DemoOpen, DemoClaims
  PROVE  DemoRight'
<1>a. PICK r, rec, a, rest :
        r = demo.rain /\ rec = rains[r] /\ a = Head(demo.todo) /\ rest = Tail(demo.todo)
  OBVIOUS
<1>b. PICK n : n = Len(ListOf(demo.kind))
  OBVIOUS
<1>1. /\ TypeOK /\ DemoFits(demo) /\ r \in DOMAIN rains /\ rec \in RainRec
      /\ DemoTerms(demo, rec) /\ DemoTickets(demo, rec, Debtless(r), n)
      /\ DemoHolds(demo, rec, n) /\ DemoDue(demo, rec, round)
      /\ demo.at = "claim" /\ held[r] \in Int
  BY <1>a, <1>b, OpenFacts, RainFacts DEF DemoFine, DemoClaims, DemoAt
<1>2. /\ demo.todo \in Seq(Accounts) /\ demo.todo # <<>> /\ IsInjective(demo.todo)
  BY <1>1 DEF DemoFits, Paying
<1>3. /\ a \in Accounts /\ rest \in Seq(Accounts) /\ a \in ToSet(demo.todo)
      /\ ToSet(rest) \subseteq ToSet(demo.todo) \ {a}
      /\ Len(demo.todo) = 1 <=> rest = <<>>
  <2>1. 1 \in DOMAIN demo.todo
    BY <1>2, LenProperties, EmptySeq
  <2>2. a \in ToSet(demo.todo)
    BY <1>a, <2>1 DEF ToSet, Head
  <2> QED
    BY <1>a, <1>2, <2>2, TailSet, TailInjective
<1>4. /\ <<r, a>> \in DOMAIN tickets /\ tickets[<<r, a>>].credit = 0
      /\ rec.cumulative = Split(n) /\ rec.cumulative \in Nat /\ rec.mode = SPLIT
      /\ ToSet(demo.todo) \subseteq Debtless(r)
  BY <1>1, <1>3
  DEF DemoTickets, DemoHolds, DemoTerms, Paying, Debtless, Holders, RainRec
<1>5. Claim(a, r)
  BY <1>a DEF DemoClaims
<1>6. /\ rains'[r] = rec /\ r \in DOMAIN rains' /\ round' = round
      /\ held'[r] = held[r] - rec.cumulative
      /\ \A b : b # a /\ <<r, b>> \in DOMAIN tickets =>
              <<r, b>> \in DOMAIN tickets' /\ tickets'[<<r, b>>] = tickets[<<r, b>>]
  <2>1. /\ SettledRec(rec, tickets[<<r, a>>]) = rec
        /\ SettledTicket(rec, tickets[<<r, a>>]) = tickets[<<r, a>>]
    BY <1>4 DEF SettledRec, SettledTicket, Unsettled
  <2>2. /\ rains' = [rains EXCEPT ![r] = rec]
        /\ held' = [held EXCEPT ![r] = @ - (rec.cumulative - tickets[<<r, a>>].credit)]
        /\ round' = round
    BY <1>a, <1>4, <1>5, <2>1 DEF Claim
  <2>3. r \in DOMAIN held
    BY <1>1 DEF TypeOK
  <2>4. \A b : b # a /\ <<r, b>> \in DOMAIN tickets =>
             <<r, b>> \in DOMAIN tickets' /\ tickets'[<<r, b>>] = tickets[<<r, b>>]
    BY <1>5 DEF Claim
  <2> QED
    BY <1>a, <1>1, <1>4, <2>2, <2>3, <2>4
<1>7. held[demo.rain] - held'[demo.rain] = DemoShare
  BY <1>a, <1>b, <1>1, <1>4, <1>6, EntrantsAre DEF DemoShare, Split
<1>8. /\ demo'.at = IF Len(demo.todo) > 1 THEN "owed" ELSE "passed"
      /\ demo'.rain = r /\ demo'.kind = demo.kind /\ demo'.todo = rest
  BY <1>a, <1>1, <1>7 DEF DemoClaims, DemoFits
<1>9. ToSet(rest) \subseteq Debtless(r)'
  BY <1>3, <1>4, <1>6 DEF Debtless, Holders
<1>10. CASE demo'.at = "owed"
  <2>1. /\ DemoTerms(demo', rec) /\ DemoTickets(demo', rec, Debtless(r)', n)
        /\ DemoHolds(demo', rec, n) /\ DemoDue(demo', rec, round')
    BY <1>1, <1>4, <1>6, <1>8, <1>9, <1>10
    DEF DemoTerms, DemoTickets, DemoHolds, DemoDue, Unpaying, Paying
  <2>2. n = Len(ListOf(demo'.kind)) /\ Debtless(demo.rain)' = Debtless(r)'
    BY <1>b, <1>8
  <2>3. DemoFine(demo', rec, Debtless(r)', round')
    BY <2>1, <2>2 DEF DemoFine
  <2> QED
    BY <1>6, <1>8, <1>10, <2>2, <2>3 DEF DemoRight, DemoAt
<1>11. CASE demo'.at = "passed"
  BY <1>11 DEF DemoRight, DemoAt, Opened, Unpaying, Paying
<1> QED
  BY <1>8, <1>10, <1>11

LEMMA DemoInvStep ==
  ASSUME DemoInv, [DemoNext]_demoVars
  PROVE  DemoInv'
<1>1. CASE UNCHANGED demoVars
  <2>1. /\ UNCHANGED vars /\ demo' = demo
    BY <1>1 DEF demoVars
  <2>2. TypeOK'
    BY <2>1, TypeStep DEF DemoInv
  <2>3. Debtless(demo.rain)' = Debtless(demo.rain)
    BY <2>1 DEF Debtless, Holders, vars, boxes
  <2> QED
    BY <2>1, <2>2, <2>3 DEF DemoInv, DemoCalm, DemoRight, DemoAt, vars, boxes, hub
<1>2. CASE DemoNext
  <2>1. /\ TypeOK' /\ next_rain_id' <= MaxRains /\ DemoFits(demo')
        /\ demo'.at \in Beginning =>
              \A x \in Assets \ {Fake} : holding'[x][Outsider] # "some"
    BY <1>2, DemoType, DemoFitsKept, OutsiderKept
  <2>2. ASSUME DemoCalm'
        PROVE  DemoRight'
    <3>1. CASE \E kind \in {"rain", "community"} : DemoBegins(kind)
      <4>1. demo'.at = "bootstrap"
        BY <3>1 DEF DemoBegins, NoDemo
      <4> QED
        BY <4>1 DEF DemoRight, DemoAt, Opened, Unpaying, Paying
    <3>2. CASE /\ ~(\E kind \in {"rain", "community"} : DemoBegins(kind))
               /\ demo.at \notin Opened
      <4>1. DemoCalm /\ DemoRight /\ DemoFits(demo)
        BY <1>2, <2>2, <3>2, StillCalm DEF DemoInv
      <4>2. CASE DemoBootstraps \/ DemoOptsIn
        <5>1. demo'.at \in {"opt_in", "open"}
          BY <4>1, <4>2 DEF DemoBootstraps, DemoOptsIn, DemoGoes, DemoFits
        <5> QED
          BY <5>1 DEF DemoRight, DemoAt, Opened, Unpaying, Paying
      <4>3. CASE DemoOpens
        BY <4>3, OpensRight
      <4>4. CASE DemoWorld
        <5>1. demo'.at = demo.at
          BY <4>1, <4>4 DEF DemoWorld, DemoFits
        <5> QED
          BY <3>2, <4>1, <5>1 DEF DemoRight, DemoAt
      <4> QED
        BY <1>2, <3>2, <4>2, <4>3, <4>4 DEF DemoNext, DemoStep, DemoEnters,
           ImpostorTries, DemoDeposits, DemoSetsDue, DemoDraws, DemoChecks,
           DemoAsks, DemoClaims, DemoAt, Opened, Unpaying, Paying
    <3>3. CASE demo.at \in Opened
      <4>1. ~(\E kind \in {"rain", "community"} : DemoBegins(kind))
        BY <3>3 DEF DemoBegins, DemoAt, Opened, Unpaying, Paying
      <4>2. DemoOpen
        BY <1>2, <2>2, <3>3, <4>1, StillCalm DEF DemoOpen
      <4>3. CASE DemoWorld
        <5>1. demo'.alone
          BY <2>2 DEF DemoCalm
        <5>2. /\ demo' = demo
              /\ Tick \/ \E a, gate, prize, drip, interval, mode, cap, mbr :
                    CreateRain(a, gate, prize, drip, interval, mode, cap, mbr)
          <6>1. demo' # [demo EXCEPT !.alone = FALSE]
            BY <4>2, <5>1 DEF DemoOpen, DemoInv, DemoFits
          <6> QED
            BY <4>3, <6>1 DEF DemoWorld
        <5> QED
          BY <4>2, <5>2, AroundRight
      <4> QED
        BY <1>2, <3>3, <4>1, <4>2, <4>3, EntersRight, ImpostorRight, DepositsRight,
           LooksRight, DrawsRight, DemoClaimsRight
        DEF DemoNext, DemoStep, DemoBootstraps, DemoOptsIn, DemoOpens, DemoAt,
            Opened, Unpaying, Paying
    <3> QED
      BY <3>1, <3>2, <3>3
  <2> QED
    BY <2>1, <2>2 DEF DemoInv
<1> QED
  BY <1>1, <1>2

\* For whatever guests, drip, interval and pot: a demonstration that nobody
\* meddles with, on a hub of no more rains than one draw visits, finds the drop
\* it asserts (rain_demo.py:164-171, community_rain_demo.py:162 and 188).
THEOREM DemoAlwaysTrue == DemoSpec => []DemoTrue
<1>1. Init /\ demo = NoDemo => DemoInv
  <2> SUFFICES ASSUME Init, demo = NoDemo  PROVE DemoInv
    OBVIOUS
  <2>1. TypeOK /\ next_rain_id <= MaxRains
    BY TypeInit, InputAssumption DEF Init
  <2>2. /\ demo.at = "idle" /\ demo.todo = <<>>
        /\ {"kind", "at", "rain", "todo", "until", "alone"} \subseteq DOMAIN demo
    BY DEF NoDemo
  <2>3. <<>> \in Seq(Accounts) /\ IsInjective(<<>>)
    BY EmptySeq DEF IsInjective
  <2>4. \A x \in Assets : holding[x][Outsider] # "some"
    BY DemoLists DEF Init
  <2> QED
    BY <2>1, <2>2, <2>3, <2>4
    DEF DemoInv, DemoFits, DemoRight, DemoAt, Opened, Unpaying, Paying
<1>2. DemoInv => DemoTrue
  <2> SUFFICES ASSUME DemoInv, DemoAt("failed"), demo.alone, ~(next_rain_id > DrawScan)
               PROVE  FALSE
    BY DEF DemoTrue
  <2>1. next_rain_id \in Nat /\ DrawScan \in Nat
    BY ScanAssumption DEF DemoInv, TypeOK
  <2> QED
    BY <2>1 DEF DemoInv, DemoCalm, DemoRight
<1> QED
  BY <1>1, <1>2, DemoInvStep, PTL DEF DemoSpec

-----------------------------------------------------------------------------
(* The one-draw script and its verdicts                                    *)
(*                                                                         *)
(* As long as nobody else draws, resolves or abandons, the box is at every *)
(* step what the script read of it, the cursor comes closer to the lottery *)
(* with every draw that does not fire it, and what each of the script's    *)
(* accounts is owed is what it was told, and after the resolve the prize   *)
(* more for the winner.                                                    *)

Early   == {"load", "truncate", "write", "fund", "enter", "deposit"}
Entered == {"deposit", "baseline", "cycle", "draw", "fired", "resolve",
            "after", "check"}

Prepared(j, kept, rec) ==
    /\ {"base", "after", "cycle", "tries", "due", "commit", "tickets", "locked",
        "winner"} \subseteq DOMAIN j
    /\ j.at \in Early => j.base = <<>> /\ j.after = <<>>
    /\ j.at \in Entered => rec.tickets > 0
    /\ ToSet(j.words) \subseteq Keys /\ ToSet(kept) \subseteq Keys
    /\ rec.drip > 0 /\ j.tries \in Nat /\ j.due \in Nat

Told(seen, owes) == \A who \in DOMAIN seen : seen[who] = owes[who]

\* So many ids ahead of the cursor, and of those that draws are left for.
Ahead(tries, place, n) ==
    \E d \in Nat : d + tries * DrawScan < n /\ (place + d) % n = Lottery - 1

\* The drop is there, or the next draw to visit the rain brings it.
Coming(j, rec, place, n, now) ==
    \/ rec.prize_locked > 0
    \/ /\ rec.pot >= rec.drip
       /\ rec.last_rain_round + rec.interval_rounds <= j.due
       /\ j.at = "fired" \/ j.tries > 0 => j.due < now
       /\ Ahead(j.tries, place, n)

\* all: the script's accounts; owes: what each account is owed.
Accounted(j, all, owes) ==
    /\ j.at = "baseline" =>
          /\ DOMAIN j.base \subseteq all /\ ToSet(j.todo) \subseteq all
          /\ all \subseteq DOMAIN j.base \cup ToSet(j.todo)
          /\ Told(j.base, owes) /\ j.after = <<>>
    /\ j.at \in {"cycle", "draw", "fired", "resolve"} =>
          DOMAIN j.base = all /\ Told(j.base, owes) /\ j.after = <<>>
    /\ j.at \in {"after", "check"} =>
          /\ DOMAIN j.base = all /\ Told(j.after, owes)
          /\ \A who \in all :
                /\ j.base[who] \in Nat /\ j.locked \in Nat
                /\ owes[who] = j.base[who] +
                                 (IF who = j.winner THEN j.locked ELSE 0)
    /\ j.at = "after" =>
          /\ DOMAIN j.after \subseteq all /\ ToSet(j.todo) \subseteq all
          /\ all \subseteq DOMAIN j.after \cup ToSet(j.todo)
    /\ j.at = "check" => DOMAIN j.after = all

Judged(j, all, n) ==
    /\ j.at # "wrong_index"
    /\ j.at = "wrong_gain" => j.winner \notin all
    /\ j.at = "never_fired" => DrawTries * DrawScan < n

Watched(j, rec, owes, place, n, now) ==
    /\ j.at \in {"draw", "fired"} => Coming(j, rec, place, n, now)
    /\ j.at = "resolve" =>
          /\ rec.prize_locked = j.locked /\ j.locked > 0
          /\ rec.commit_round = j.commit /\ rec.tickets = j.tickets
    /\ Accounted(j, ToSet(Everyone(j)), owes)
    /\ Judged(j, ToSet(Everyone(j)), n)

WatchedNow == Watched(play, rains[Lottery], Allocations(Lottery), cursor,
                      next_rain_id, round)

VerdictInv ==
    /\ KeyInv /\ Prepared(play, keyfile, rains[Lottery])
    /\ alone => WatchedNow

LEMMA TailInside ==
  ASSUME NEW S, NEW s \in Seq(S), s # <<>>
  PROVE  Head(s) \in ToSet(s) /\ ToSet(s) = {Head(s)} \cup ToSet(Tail(s))
<1>1. /\ Len(Tail(s)) = Len(s) - 1 /\ Tail(s) \in Seq(S)
      /\ \A i \in 1 .. Len(Tail(s)) : Tail(s)[i] = s[i + 1]
  BY HeadTailProperties
<1>2. /\ Len(s) \in Nat \ {0} /\ DOMAIN s = 1 .. Len(s)
      /\ DOMAIN Tail(s) = 1 .. Len(Tail(s))
  BY <1>1, LenProperties, EmptySeq
<1>3. Head(s) = s[1] /\ 1 \in DOMAIN s
  BY <1>2 DEF Head
<1>4. ASSUME NEW i \in DOMAIN Tail(s)
      PROVE  i + 1 \in DOMAIN s /\ Tail(s)[i] = s[i + 1]
  BY <1>1, <1>2
<1>5. ToSet(s) \subseteq {Head(s)} \cup ToSet(Tail(s))
  BY TailSet
<1> QED
  BY <1>3, <1>4, <1>5 DEF ToSet

\* The script's accounts are the funder's and its players'.
LEMMA EveryoneIs ==
  ASSUME NEW j, j.words \in Seq(Accounts), j.count \in 1 .. Len(j.words),
         ToSet(j.words) \subseteq Keys
  PROVE  ToSet(Everyone(j)) \subseteq Keys \cup {Funder}
<1>1. Len(j.words) \in Nat /\ DOMAIN j.words = 1 .. Len(j.words)
  BY LenProperties
<1>2. \A i \in 1 .. j.count : j.words[i] \in Keys
  BY <1>1 DEF ToSet
<1>3. Players(j) \in Seq(Keys)
  BY <1>1, <1>2, SubSeqProperties DEF Players
<1>4. <<Funder>> \in Seq({Funder} \cup Keys)
  OBVIOUS
<1>5. Everyone(j) \in Seq(Keys \cup {Funder})
  <2>1. Players(j) \in Seq({Funder} \cup Keys)
    BY <1>3
  <2>2. <<Funder>> \o Players(j) \in Seq({Funder} \cup Keys)
    BY <1>4, <2>1, ConcatProperties
  <2>3. {Funder} \cup Keys = Keys \cup {Funder}
    OBVIOUS
  <2> QED
    BY <2>2, <2>3 DEF Everyone
<1>6. \A i \in DOMAIN Everyone(j) : Everyone(j)[i] \in Keys \cup {Funder}
  BY <1>5, LenProperties, ElementOfSeq
<1> QED
  BY <1>6 DEF ToSet

\* A lottery's record, fired, is what it was or has its prize locked.
LEMMA LotteryFires ==
  ASSUME NEW rec \in RainRec, rec.mode = ONE
  PROVE  /\ TryFire(rec) = rec \/ TryFire(rec) = PrizeLocked(rec)
         /\ rec.prize_locked > 0 => TryFire(rec) = rec
         /\ Due(rec) /\ rec.prize_locked = 0 /\ rec.tickets > 0
               /\ rec.pot >= rec.drip => TryFire(rec) = PrizeLocked(rec)
         /\ PrizeLocked(rec).prize_locked = rec.drip
         /\ PrizeLocked(rec).tickets = rec.tickets
BY DEF TryFire, FireOne, PrizeLocked, RainRec

\* Tickets are only ever added, and entering adds one.
LEMMA MoreTickets ==
  ASSUME HubKeeps, Deals
  PROVE  /\ rains'[Lottery].tickets >= rains[Lottery].tickets
         /\ \A a, mbr : Enter(a, Lottery, mbr) => rains'[Lottery].tickets > 0
<1> DEFINE rec == rains[Lottery]
           new == rains'[Lottery]
<1>1. /\ TypeOK /\ Lottery \in DOMAIN rains /\ rec \in RainRec
      /\ rec.tickets \in Nat /\ next_rain_id \in Nat /\ rec.mode = ONE
  BY KeyTyped, RainFacts DEF HubKeeps, SeatsInv, TypeOK
<1>2. ASSUME NEW a, NEW mbr, Enter(a, Lottery, mbr)
      PROVE  new.tickets = rec.tickets + 1
  BY <1>1, <1>2 DEF Enter, RainRec
<1>3. ASSUME Draw
      PROVE  new.tickets = rec.tickets
  BY <1>1, <1>3, LotteryFires DEF Draw, Drawn
<1>4. ASSUME NEW a \in Accounts, Claim(a, Lottery)
      PROVE  new.tickets = rec.tickets
  BY <1>1, <1>4 DEF Claim, SettledRec, Unsettled
<1>5. ASSUME NEW amount, Deposit(Lottery, amount)
      PROVE  new.tickets = rec.tickets
  BY <1>1, <1>5 DEF Deposit, RainRec
<1>6. ASSUME Resolve(Lottery) \/ Abandon(Lottery)
      PROVE  new.tickets = rec.tickets
  <2>1. CASE Resolve(Lottery)
    <3>1. new = [rec EXCEPT !.prize_locked = 0, !.commit_round = 0]
      BY <1>1, <2>1 DEF Resolve
    <3> QED
      BY <1>1, <3>1 DEF RainRec
  <2>2. CASE Abandon(Lottery)
    <3>1. new = [rec EXCEPT !.pot = @ + rec.prize_locked,
                            !.prize_locked = 0, !.commit_round = 0]
      BY <1>1, <2>2 DEF Abandon
    <3> QED
      BY <1>1, <3>1 DEF RainRec
  <2> QED
    BY <1>6, <2>1, <2>2
<1>7. ASSUME NEW r \in DOMAIN rains, r # Lottery,
             \/ \E a, mbr : Enter(a, r, mbr)
             \/ \E a : Claim(a, r)
             \/ \E amount : Deposit(r, amount)
             \/ Resolve(r) \/ Abandon(r)
      PROVE  new = rec
  BY <1>1, <1>7 DEF Enter, Claim, Deposit, Resolve, Abandon
<1>8. ASSUME NEW a, NEW gate, NEW prize, NEW drip, NEW interval, NEW mode,
             NEW cap, NEW mbr,
             CreateRain(a, gate, prize, drip, interval, mode, cap, mbr)
      PROVE  new = rec
  <2>1. Lottery # next_rain_id + 1
    BY <1>1 DEF TypeOK
  <2> QED
    BY <1>1, <1>8, <2>1 DEF CreateRain, Put
<1>9. ASSUME \/ UNCHANGED vars \/ Tick
             \/ \E a \in Accounts, x \in Assets, h \in Holdings : Trade(a, x, h)
             \/ \E x \in Assets, mbr \in MbrPayments : OptInPrizeAsset(x, mbr)
      PROVE  new = rec
  BY <1>9 DEF Tick, Trade, OptInPrizeAsset, vars, boxes
<1> HIDE DEF rec, new
<1>10. new.tickets >= rec.tickets
  BY <1>1, <1>2, <1>3, <1>4, <1>5, <1>6, <1>7, <1>8, <1>9 DEF Deals
<1>11. \A a, mbr : Enter(a, Lottery, mbr) => new.tickets > 0
  BY <1>1, <1>2
<1> QED
  BY <1>10, <1>11 DEF rec, new

LEMMA ToSetSeq ==
  ASSUME NEW S, NEW K, NEW s \in Seq(S)
  PROVE  ToSet(s) \subseteq K <=> s \in Seq(K)
<1>1. /\ Len(s) \in Nat /\ DOMAIN s = 1 .. Len(s)
      /\ s = [i \in 1 .. Len(s) |-> s[i]]
  BY LenProperties
<1>2. ASSUME ToSet(s) \subseteq K  PROVE s \in Seq(K)
  <2>1. \A i \in 1 .. Len(s) : s[i] \in K
    BY <1>1, <1>2 DEF ToSet
  <2> QED
    BY <1>1, <2>1
<1>3. ASSUME s \in Seq(K)  PROVE ToSet(s) \subseteq K
  BY <1>1, <1>3, ElementOfSeq DEF ToSet
<1> QED
  BY <1>2, <1>3

\* The keys made for a run are of those there are.
LEMMA LoadedKeys ==
  ASSUME KeyInv, ToSet(keyfile) \subseteq Keys, Load
  PROVE  ToSet(play'.words) \subseteq Keys
<1> DEFINE more == IF play.count > Len(keyfile) THEN play.count - Len(keyfile) ELSE 0
           m    == made + 1
           n    == made + more
           new  == SubSeq(KeyOrder, m, n)
<1>1. /\ keyfile \in Seq(Accounts) /\ made \in Nat /\ play.count \in Nat
      /\ "words" \in DOMAIN play
      /\ play' = [play EXCEPT !.at = "truncate", !.words = keyfile \o new]
      /\ made + more <= Len(KeyOrder)
  BY DEF KeyInv, KeysKeep, PlayFits, Load, Become, PlayAt
<1>2. Len(keyfile) \in Nat /\ Len(KeyOrder) \in Nat
      /\ DOMAIN KeyOrder = 1 .. Len(KeyOrder)
  BY <1>1, PlayersAssumption, LenProperties
<1>3. more \in Nat
  BY <1>1, <1>2
<1> HIDE DEF more
<1>4. m \in Int /\ n \in Int /\ \A i \in m .. n : KeyOrder[i] \in Keys
  <2>1. \A i \in m .. n : i \in DOMAIN KeyOrder
    BY <1>1, <1>2, <1>3
  <2> QED
    BY <1>1, <1>3, <2>1 DEF Keys, ToSet
<1> HIDE DEF m, n
<1>5. new \in Seq(Keys)
  BY <1>4, SubSeqProperties
<1>6. keyfile \in Seq(Keys)
  BY <1>1, ToSetSeq
<1> HIDE DEF new
<1>7. keyfile \o new \in Seq(Keys)
  BY <1>5, <1>6, ConcatProperties
<1>8. play'.words = keyfile \o new
  BY <1>1
<1> QED
  BY <1>7, <1>8, ToSetSeq

PlayFields == {"base", "after", "cycle", "tries", "due", "commit", "tickets",
               "locked", "winner"}

\* A step that is none of the first seven leaves a run prepared.
LEMMA LateFits ==
  ASSUME NEW j, NEW k, NEW kept, NEW rec, NEW new, Prepared(j, kept, rec),
         rec.tickets \in Nat, new.tickets \in Nat, new.tickets >= rec.tickets,
         new.drip = rec.drip, j.at \notin Early \/ j.at = "deposit",
         PlayFields \subseteq DOMAIN k, k.at \notin Early,
         k.at \in Entered => j.at \in Entered,
         k.words = j.words, k.tries \in Nat, k.due \in Nat
  PROVE  Prepared(k, kept, new)
BY DEF Prepared, PlayFields, Early, Entered

LEMMA PreparedStep ==
  ASSUME KeyInv, Prepared(play, keyfile, rains[Lottery]), OneDrawNext
  PROVE  Prepared(play', keyfile', rains'[Lottery])
<1>a. PICK rec, new : rec = rains[Lottery] /\ new = rains'[Lottery]
  OBVIOUS
<1>1. /\ Prepared(play, keyfile, rec) /\ PlayFields \subseteq DOMAIN play
      /\ {"at", "words", "count", "todo", "left", "late"} \subseteq DOMAIN play
      /\ HubKeeps /\ TypeOK /\ TypeOK' /\ rec \in RainRec /\ new \in RainRec
      /\ Deals /\ Lottery \in DOMAIN rains
  <2>1. Deals /\ HubKeeps'
    BY OneDrawDeals, KeyHub DEF KeyInv
  <2>2. Lottery \in DOMAIN rains /\ Lottery \in DOMAIN rains'
    BY <2>1, KeyTyped, KeyTypedNext DEF KeyInv
  <2>3. TypeOK /\ TypeOK'
    BY <2>1 DEF KeyInv, HubKeeps, SeatsInv
  <2>4. rains[Lottery] \in RainRec /\ rains'[Lottery] \in RainRec
    BY <2>2, <2>3 DEF TypeOK
  <2> QED
    BY <1>a, <2>1, <2>2, <2>3, <2>4
    DEF Prepared, PlayFields, KeyInv, KeysKeep, PlayFits
<1>2. /\ rec.tickets \in Nat /\ new.tickets \in Nat
      /\ rec.last_rain_round \in Nat /\ rec.interval_rounds \in Nat
      /\ rec.drip > 0 /\ new.drip = rec.drip
      /\ new.tickets >= rec.tickets
      /\ \A a, mbr : Enter(a, Lottery, mbr) => new.tickets > 0
  <2>1. next_rain_id <= MaxRains
    BY InputAssumption, <1>1 DEF HubKeeps, TypeOK
  <2>2. TermsStay(Lottery)
    BY <1>1, <2>1, DealsStep
  <2> QED
    BY <1>a, <1>1, <2>2, MoreTickets DEF RainRec, TermsStay, SameTerms, Prepared
<1>3. ASSUME play' = NoPlay, keyfile' = keyfile \/ keyfile' = <<>>
      PROVE  Prepared(play', keyfile', new)
  <2>1. /\ NoPlay.at = "idle" /\ NoPlay.words = <<>> /\ NoPlay.tries = 0
        /\ NoPlay.due = 0 /\ PlayFields \subseteq DOMAIN NoPlay
        /\ ToSet(<<>>) = {}
    BY DEF NoPlay, PlayFields, ToSet
  <2> QED
    BY <1>1, <1>2, <1>3, <2>1 DEF Prepared, PlayFields, Early, Entered
<1>4. CASE Begin
  <2>1. PICK count \in Counts :
            play' = [NoPlay EXCEPT !.at = "load", !.count = count]
    BY <1>4 DEF Begin, Become
  <2>2. /\ play'.at = "load" /\ play'.words = <<>> /\ play'.tries = 0
        /\ play'.due = 0 /\ play'.base = <<>> /\ play'.after = <<>>
        /\ PlayFields \subseteq DOMAIN play' /\ ToSet(<<>>) = {}
        /\ keyfile' = keyfile
    BY <1>4, <2>1 DEF NoPlay, PlayFields, ToSet, Begin, FilesQuiet
  <2> QED
    BY <1>a, <1>1, <1>2, <2>2 DEF Prepared, PlayFields, Early, Entered
<1>5. CASE Load
  <2>1. ToSet(play'.words) \subseteq Keys
    BY <1>1, <1>5, LoadedKeys DEF Prepared
  <2>2. /\ play'.at = "truncate" /\ play'.tries = play.tries
        /\ play'.due = play.due /\ play'.base = play.base
        /\ play'.after = play.after /\ keyfile' = keyfile
        /\ PlayFields \subseteq DOMAIN play' /\ play.at = "load"
    BY <1>1, <1>5 DEF Load, Become, PlayFields, PlayAt
  <2> QED
    BY <1>a, <1>1, <1>2, <2>1, <2>2 DEF Prepared, PlayFields, Early, Entered
<1>6. CASE Truncate \/ WriteKeys \/ Fund
  <2>1. /\ play'.at \in {"write", "fund", "enter"} /\ play'.tries = play.tries
        /\ play'.due = play.due /\ play'.base = play.base
        /\ play'.after = play.after /\ play'.words = play.words
        /\ keyfile' \in {<<>>, keyfile, play.words}
        /\ PlayFields \subseteq DOMAIN play' /\ play.at \in Early
    BY <1>1, <1>6 DEF Truncate, WriteKeys, Fund, Become, PlayFields, PlayAt,
       Early
  <2>2. ToSet(<<>>) = {}
    BY DEF ToSet
  <2> QED
    BY <1>a, <1>1, <1>2, <2>1, <2>2 DEF Prepared, PlayFields, Early, Entered
<1>7. CASE EnterPlayer
  <2>1. /\ play'.at \in {"fund", "deposit"} /\ play'.tries = play.tries
        /\ play'.due = play.due /\ play'.base = play.base
        /\ play'.after = play.after /\ play'.words = play.words
        /\ PlayFields \subseteq DOMAIN play' /\ play.at = "enter"
        /\ keyfile' = keyfile
    BY <1>1, <1>7 DEF EnterPlayer, NextPlayer, Become, PlayFields, PlayAt,
       FilesQuiet
  <2>2. new.tickets > 0
    <3>1. CASE Enter(Head(play.todo), Lottery, TicketMbr + IndexMbr)
      BY <1>2, <3>1
    <3>2. CASE Head(play.todo) \in Holders(Lottery)
      <4>1. IsFiniteSet(Holders(Lottery)) /\ rec.tickets = Cardinality(Holders(Lottery))
        BY <1>a, <1>1, HoldersFinite DEF HubKeeps, SeatsInv, SeatsMatch, SeatsCounted
      <4>2. rec.tickets # 0
        BY <3>2, <4>1, FS_EmptySet
      <4> QED
        BY <1>2, <4>2
    <3> QED
      BY <1>7, <3>1, <3>2 DEF EnterPlayer
  <2> QED
    BY <1>a, <1>1, <1>2, <2>1, <2>2 DEF Prepared, PlayFields, Early, Entered
<1>8. CASE FillPot \/ Ask \/ DrawLottery \/ ReadFired \/ ResolveLottery
  <2>1. /\ PlayFields \subseteq DOMAIN play' /\ play.at \in Entered
        /\ play'.at \notin Early /\ play'.words = play.words
        /\ play'.tries \in {play.tries, play.tries + 1, 0}
        /\ play'.due \in {play.due, 0}
        /\ play.at \notin Early \/ play.at = "deposit"
        /\ keyfile' = keyfile
    BY <1>1, <1>8 DEF FillPot, Ask, DrawLottery, ReadFired, ResolveLottery,
       Become, PlayFields, PlayAt, Early, Entered, FilesQuiet
  <2>2. play'.tries \in Nat /\ play'.due \in Nat
    BY <1>1, <2>1 DEF Prepared
  <2> QED
    BY <1>a, <1>1, <1>2, <2>1, <2>2, LateFits
<1>9. CASE ReadTerms \/ Check
  <2>1. /\ PlayFields \subseteq DOMAIN play' /\ play.at \in Entered
        /\ play'.at \notin Early /\ play'.words = play.words
        /\ play'.tries \in {play.tries, 0}
        /\ play'.due \in {play.due, 0, rec.last_rain_round + rec.interval_rounds}
        /\ play.at \notin Early /\ keyfile' = keyfile
    BY <1>a, <1>1, <1>9 DEF ReadTerms, Check, ToClaims,
       Become, PlayFields, PlayAt, Early, Entered, FilesQuiet
  <2>2. play'.tries \in Nat /\ play'.due \in Nat
    BY <1>1, <1>2, <2>1 DEF Prepared
  <2> QED
    BY <1>a, <1>1, <1>2, <2>1, <2>2, LateFits
<1>10. CASE AskOwed \/ ClaimOwed \/ Close
  <2>1. /\ PlayFields \subseteq DOMAIN play' /\ play.at \notin Early
        /\ play'.at \notin Early \cup Entered /\ play'.words = play.words
        /\ play'.tries = play.tries /\ play'.due = play.due
        /\ keyfile' = keyfile
    BY <1>1, <1>10 DEF AskOwed, ClaimOwed, Close, NextClaim, Leaves,
       Become, PlayFields, PlayAt, Early, Entered, FilesQuiet
  <2> QED
    BY <1>a, <1>1, <1>2, <2>1 DEF Prepared, PlayFields, Early, Entered
<1>11. CASE Unlink \/ PlayRefused \/ Dies
  BY <1>a, <1>3, <1>11 DEF Unlink, PlayRefused, Dies, Become, FilesQuiet
<1>12. CASE Else
  <2>1. /\ PlayFields \subseteq DOMAIN play' /\ play'.at = play.at
        /\ play'.words = play.words /\ play'.base = play.base
        /\ play'.after = play.after
        /\ play'.tries = play.tries /\ play'.due = play.due
        /\ keyfile' = keyfile
    BY <1>1, <1>12 DEF Else, Become, PlayFields, FilesQuiet
  <2> QED
    BY <1>a, <1>1, <1>2, <2>1 DEF Prepared, PlayFields
<1> QED
  BY <1>4, <1>5, <1>6, <1>7, <1>8, <1>9, <1>10, <1>11, <1>12
  DEF OneDrawNext, Script

\* Where something is claimed of the hub.
Watching == {"baseline", "cycle", "draw", "fired", "resolve", "after", "check"}
               \cup Verdicts

LEMMA Unwatched ==
  ASSUME NEW j, NEW rec, NEW owes, NEW place, NEW n, NEW now,
         j.at \notin Watching
  PROVE  Watched(j, rec, owes, place, n, now)
BY DEF Watched, Accounted, Judged, Watching, Verdicts

\* What others leave of the lottery: it is as it was, but for a ticket more
\* while nothing is locked.
Stands(new, rec) ==
    /\ new.prize_locked = rec.prize_locked /\ new.pot = rec.pot
    /\ new.drip = rec.drip /\ new.last_rain_round = rec.last_rain_round
    /\ new.interval_rounds = rec.interval_rounds
    /\ new.commit_round = rec.commit_round
    /\ rec.prize_locked > 0 => new.tickets = rec.tickets

LEMMA WatchedStays ==
  ASSUME NEW j, NEW k, NEW rec, NEW new, NEW owes, NEW owed, NEW place, NEW n,
         NEW now \in Nat, NEW later \in Nat, now <= later, j.due \in Nat,
         Watched(j, rec, owes, place, n, now), Stands(new, rec),
         k.at = j.at, k.words = j.words, k.count = j.count, k.todo = j.todo,
         k.base = j.base, k.after = j.after, k.tries = j.tries, k.due = j.due,
         k.commit = j.commit, k.tickets = j.tickets, k.locked = j.locked,
         k.winner = j.winner,
         \A who \in ToSet(Everyone(j)) : owed[who] = owes[who]
  PROVE  Watched(k, new, owed, place, n, later)
<1>a. PICK all : all = ToSet(Everyone(j))
  OBVIOUS
<1>1. ToSet(Everyone(k)) = all
  BY <1>a DEF Everyone, Players
<1>2. Accounted(j, all, owes) /\ Judged(j, all, n)
  BY <1>a DEF Watched
<1>3. Accounted(k, all, owed)
  BY <1>a, <1>2 DEF Accounted, Told
<1>4. Judged(k, all, n)
  BY <1>2 DEF Judged
<1>5. k.at \in {"draw", "fired"} => Coming(k, new, place, n, later)
  <2>1. j.due < now => j.due < later
    OBVIOUS
  <2> QED
    BY <2>1 DEF Watched, Coming, Stands
<1>6. k.at = "resolve" =>
          /\ new.prize_locked = k.locked /\ k.locked > 0
          /\ new.commit_round = k.commit /\ new.tickets = k.tickets
  BY DEF Watched, Stands
<1> QED
  BY <1>1, <1>3, <1>4, <1>5, <1>6 DEF Watched

\* The facts each step starts from, and what stands when the hub is quiet.
WatchFits ==
    /\ KeyInv /\ Prepared(play, keyfile, rains[Lottery])
    /\ alone /\ WatchedNow

LEMMA WatchFacts ==
  ASSUME WatchFits
  PROVE  /\ HubKeeps /\ TypeOK /\ Lottery \in DOMAIN rains
         /\ rains[Lottery] \in RainRec /\ rains[Lottery].mode = ONE
         /\ rains[Lottery].prize_locked \in Nat
         /\ rains[Lottery].drip > 0 /\ next_rain_id \in Nat \ {0}
         /\ cursor \in Nat /\ round \in Nat
         /\ Lottery - 1 \in 0 .. next_rain_id - 1
         /\ {"at", "words", "count", "todo", "left", "late"} \subseteq DOMAIN play
         /\ PlayFields \subseteq DOMAIN play
         /\ play.tries \in Nat /\ play.due \in Nat
         /\ play.at \in Watching => play.words \in Seq(Accounts)
                                    /\ play.count \in 1 .. Len(play.words)
<1>1. /\ HubKeeps /\ TypeOK /\ KeysKeep /\ PlayFits(play)
      /\ Prepared(play, keyfile, rains[Lottery])
  BY DEF WatchFits, KeyInv, HubKeeps, SeatsInv, KeysKeep
<1>2. Lottery \in DOMAIN rains
  BY <1>1, KeyTyped
<1>3. /\ rains[Lottery] \in RainRec /\ next_rain_id \in Nat /\ cursor \in Nat
      /\ round \in Nat /\ Lottery \in 1 .. next_rain_id
  BY <1>1, <1>2 DEF TypeOK
<1>4. next_rain_id \in Nat \ {0} /\ Lottery - 1 \in 0 .. next_rain_id - 1
  BY <1>3
<1>5. rains[Lottery].prize_locked \in Nat /\ rains[Lottery].mode = ONE
  BY <1>1, <1>3 DEF RainRec, HubKeeps
<1> QED
  BY <1>1, <1>2, <1>3, <1>4, <1>5
  DEF Prepared, PlayFields, PlayFits, Watching, Verdicts

\* all of the script's accounts are accounts.
LEMMA AllFacts ==
  ASSUME WatchFits, play.at \in Watching, NEW all, all = ToSet(Everyone(play))
  PROVE  /\ all \subseteq Accounts /\ all \subseteq Keys \cup {Funder}
         /\ Everyone(play) # <<>> /\ Everyone(play) \in Seq(Accounts)
<1>1. play.words \in Seq(Accounts) /\ play.count \in 1 .. Len(play.words)
  BY WatchFacts
<1>2. ToSet(play.words) \subseteq Keys
  BY DEF WatchFits, Prepared
<1>3. Everyone(play) \in Seq(Accounts) /\ Everyone(play) # <<>>
  BY <1>1, PlayersAre
<1>4. all \subseteq Keys \cup {Funder}
  BY <1>1, <1>2, EveryoneIs
<1>5. all \subseteq Accounts
  BY <1>3, ToSetSeq
<1> QED
  BY <1>3, <1>4, <1>5

LEMMA PotWatched ==
  ASSUME KeyInv, Prepared(play, keyfile, rains[Lottery]), FillPot
  PROVE  WatchedNow'
<1>1. /\ play.at = "deposit"
      /\ play' = [play EXCEPT !.at = "baseline", !.todo = Everyone(play)]
      /\ {"at", "words", "count", "todo", "left", "late"} \subseteq DOMAIN play
      /\ PlayFields \subseteq DOMAIN play
      /\ play.base = <<>> /\ play.after = <<>>
  BY DEF FillPot, PlayAt, Become, KeyInv, KeysKeep, PlayFits, Prepared,
     PlayFields, Early
<1>2. /\ play'.at = "baseline" /\ play'.todo = Everyone(play)
      /\ play'.words = play.words /\ play'.count = play.count
      /\ play'.base = <<>> /\ play'.after = <<>>
  BY <1>1 DEF PlayFields
<1>3. Everyone(play') = Everyone(play)
  BY <1>2 DEF Everyone, Players
<1>4. DOMAIN <<>> = {}
  OBVIOUS
<1>a. PICK all : all = ToSet(Everyone(play))
  OBVIOUS
<1>5. \A owes : Accounted(play', all, owes)
  BY <1>a, <1>2, <1>4 DEF Accounted, Told
<1>6. \A n : Judged(play', all, n)
  BY <1>2 DEF Judged
<1> QED
  BY <1>a, <1>2, <1>3, <1>5, <1>6 DEF WatchedNow, Watched

LEMMA QuietWatch ==
  ASSUME UNCHANGED vars
  PROVE  /\ rains'[Lottery] = rains[Lottery]
         /\ Allocations(Lottery)' = Allocations(Lottery)
         /\ cursor' = cursor /\ next_rain_id' = next_rain_id /\ round' = round
BY DEF vars, boxes, hub, Allocations, AllocationOf

\* One more account's allocation, as told.
LEMMA OneMoreTold ==
  ASSUME NEW seen, NEW all \in SUBSET Accounts, NEW todo \in Seq(Accounts),
         todo # <<>>, DOMAIN seen \subseteq all, ToSet(todo) \subseteq all,
         all \subseteq DOMAIN seen \cup ToSet(todo),
         Told(seen, Allocations(Lottery)), NEW now,
         DOMAIN now = DOMAIN seen \cup {Head(todo)},
         \A who \in DOMAIN now : now[who] =
            IF who = Head(todo) THEN AllocationOf(Lottery, who) ELSE seen[who]
  PROVE  /\ DOMAIN now \subseteq all /\ ToSet(Tail(todo)) \subseteq all
         /\ all \subseteq DOMAIN now \cup ToSet(Tail(todo))
         /\ Told(now, Allocations(Lottery))
         /\ Len(todo) = 1 => DOMAIN now = all
<1>1. /\ Head(todo) \in ToSet(todo) /\ ToSet(todo) = {Head(todo)} \cup ToSet(Tail(todo))
      /\ Len(todo) = 1 => Tail(todo) = <<>>
  BY TailInside, TailSet
<1>2. DOMAIN now = DOMAIN seen \cup {Head(todo)} /\ ToSet(<<>>) = {}
  BY DEF ToSet
<1>3. ASSUME NEW who \in DOMAIN now
      PROVE  now[who] = Allocations(Lottery)[who]
  <2>1. who \in Accounts
    BY <1>1, <1>2
  <2>2. CASE who = Head(todo)
    BY <2>1, <2>2 DEF Allocations
  <2>3. CASE who # Head(todo)
    BY <1>2, <2>3 DEF Told
  <2> QED
    BY <2>2, <2>3
<1> QED
  BY <1>1, <1>2, <1>3 DEF Told

LEMMA AskWatched ==
  ASSUME WatchFits, Ask
  PROVE  WatchedNow'
<1>a. PICK rec, owes, all :
         /\ rec = rains[Lottery] /\ owes = Allocations(Lottery)
         /\ all = ToSet(Everyone(play))
  OBVIOUS
<1>1. play.at \in {"baseline", "after"}
  BY DEF Ask, PlayAt
<1>2. /\ Accounted(play, all, owes)
      /\ {"at", "words", "count", "todo", "left", "late"} \subseteq DOMAIN play
      /\ PlayFields \subseteq DOMAIN play
      /\ play.todo \in Seq(Accounts) /\ play.todo # <<>>
      /\ all \in SUBSET Accounts
  <2>1. play.at \in Watching /\ play.at \in Looping
    BY <1>1 DEF Watching, Looping
  <2>2. play.todo \in Seq(Accounts) /\ play.todo # <<>>
    BY <2>1 DEF WatchFits, KeyInv, KeysKeep, PlayFits
  <2> QED
    BY <1>a, <2>1, <2>2, WatchFacts, AllFacts DEF WatchFits, WatchedNow, Watched
<1>3. /\ rains'[Lottery] = rec /\ Allocations(Lottery)' = owes
      /\ cursor' = cursor /\ next_rain_id' = next_rain_id /\ round' = round
  BY <1>a, QuietWatch DEF Ask, HubQuiet
<1>4. CASE play.at = "baseline"
  <2>1. /\ play' = [play EXCEPT !.base = Asked(@), !.todo = Tail(@),
                       !.at = IF Len(play.todo) = 1 THEN "cycle" ELSE "baseline"]
    BY <1>4 DEF Ask, PlayAt, Become
  <2>2. /\ play'.base = Asked(play.base) /\ play'.todo = Tail(play.todo)
        /\ play'.after = play.after
        /\ play'.words = play.words /\ play'.count = play.count
        /\ play'.at = IF Len(play.todo) = 1 THEN "cycle" ELSE "baseline"
    BY <1>2, <2>1 DEF PlayFields
  <2>3. /\ DOMAIN play'.base \subseteq all /\ ToSet(play'.todo) \subseteq all
        /\ all \subseteq DOMAIN play'.base \cup ToSet(play'.todo)
        /\ Told(play'.base, owes)
        /\ Len(play.todo) = 1 => DOMAIN play'.base = all
    <3>1. /\ DOMAIN play.base \subseteq all /\ ToSet(play.todo) \subseteq all
          /\ all \subseteq DOMAIN play.base \cup ToSet(play.todo)
          /\ Told(play.base, Allocations(Lottery))
      BY <1>a, <1>2, <1>4 DEF Accounted
    <3>2. PICK seen, todo, now :
            seen = play.base /\ todo = play.todo /\ now = play'.base
      OBVIOUS
    <3>3. /\ DOMAIN now = DOMAIN seen \cup {Head(todo)}
          /\ \A who \in DOMAIN now : now[who] =
               IF who = Head(todo) THEN AllocationOf(Lottery, who) ELSE seen[who]
      BY <2>2, <3>2 DEF Asked
    <3>4. /\ all \in SUBSET Accounts /\ todo \in Seq(Accounts) /\ todo # <<>>
          /\ DOMAIN seen \subseteq all /\ ToSet(todo) \subseteq all
          /\ all \subseteq DOMAIN seen \cup ToSet(todo)
          /\ Told(seen, Allocations(Lottery))
      BY <1>2, <3>1, <3>2
    <3>5. /\ DOMAIN now \subseteq all /\ ToSet(Tail(todo)) \subseteq all
          /\ all \subseteq DOMAIN now \cup ToSet(Tail(todo))
          /\ Told(now, Allocations(Lottery))
          /\ Len(todo) = 1 => DOMAIN now = all
      BY <3>3, <3>4, OneMoreTold
    <3> QED
      BY <1>a, <2>2, <3>2, <3>5
  <2>4. Accounted(play', all, owes) /\ \A n : Judged(play', all, n)
    BY <1>2, <1>4, <2>2, <2>3 DEF Accounted, Judged
  <2>5. Everyone(play') = Everyone(play)
    BY <2>2 DEF Everyone, Players
  <2> QED
    BY <1>a, <1>3, <2>2, <2>4, <2>5 DEF WatchedNow, Watched
<1>5. CASE play.at = "after"
  <2>1. /\ play' = [play EXCEPT !.after = Asked(@), !.todo = Tail(@),
                       !.at = IF Len(play.todo) = 1 THEN "check" ELSE "after"]
    BY <1>5 DEF Ask, PlayAt, Become
  <2>2. /\ play'.after = Asked(play.after) /\ play'.todo = Tail(play.todo)
        /\ play'.base = play.base /\ play'.winner = play.winner
        /\ play'.locked = play.locked
        /\ play'.words = play.words /\ play'.count = play.count
        /\ play'.at = IF Len(play.todo) = 1 THEN "check" ELSE "after"
    BY <1>2, <2>1 DEF PlayFields
  <2>3. /\ DOMAIN play'.after \subseteq all /\ ToSet(play'.todo) \subseteq all
        /\ all \subseteq DOMAIN play'.after \cup ToSet(play'.todo)
        /\ Told(play'.after, owes)
        /\ Len(play.todo) = 1 => DOMAIN play'.after = all
    <3>1. /\ DOMAIN play.after \subseteq all /\ ToSet(play.todo) \subseteq all
          /\ all \subseteq DOMAIN play.after \cup ToSet(play.todo)
          /\ Told(play.after, Allocations(Lottery))
      BY <1>a, <1>2, <1>5 DEF Accounted
    <3>2. PICK seen, todo, now :
            seen = play.after /\ todo = play.todo /\ now = play'.after
      OBVIOUS
    <3>3. /\ DOMAIN now = DOMAIN seen \cup {Head(todo)}
          /\ \A who \in DOMAIN now : now[who] =
               IF who = Head(todo) THEN AllocationOf(Lottery, who) ELSE seen[who]
      BY <2>2, <3>2 DEF Asked
    <3>4. /\ all \in SUBSET Accounts /\ todo \in Seq(Accounts) /\ todo # <<>>
          /\ DOMAIN seen \subseteq all /\ ToSet(todo) \subseteq all
          /\ all \subseteq DOMAIN seen \cup ToSet(todo)
          /\ Told(seen, Allocations(Lottery))
      BY <1>2, <3>1, <3>2
    <3>5. /\ DOMAIN now \subseteq all /\ ToSet(Tail(todo)) \subseteq all
          /\ all \subseteq DOMAIN now \cup ToSet(Tail(todo))
          /\ Told(now, Allocations(Lottery))
          /\ Len(todo) = 1 => DOMAIN now = all
      BY <3>3, <3>4, OneMoreTold
    <3> QED
      BY <1>a, <2>2, <3>2, <3>5
  <2>4. Accounted(play', all, owes) /\ \A n : Judged(play', all, n)
    BY <1>2, <1>5, <2>2, <2>3 DEF Accounted, Judged
  <2>5. Everyone(play') = Everyone(play)
    BY <2>2 DEF Everyone, Players
  <2> QED
    BY <1>a, <1>3, <2>2, <2>4, <2>5 DEF WatchedNow, Watched
<1> QED
  BY <1>1, <1>4, <1>5

LEMMA TermsWatched ==
  ASSUME WatchFits, ReadTerms
  PROVE  WatchedNow'
<1>a. PICK rec, owes, all :
         /\ rec = rains[Lottery] /\ owes = Allocations(Lottery)
         /\ all = ToSet(Everyone(play))
  OBVIOUS
<1>1. /\ Accounted(play, all, owes)
      /\ {"at", "words", "count", "todo", "left", "late"} \subseteq DOMAIN play
      /\ PlayFields \subseteq DOMAIN play /\ rec \in RainRec
      /\ play.at = "cycle"
  BY <1>a, WatchFacts DEF WatchFits, WatchedNow, Watched, ReadTerms, PlayAt
<1>2. /\ rains'[Lottery] = rec /\ Allocations(Lottery)' = owes
      /\ cursor' = cursor /\ next_rain_id' = next_rain_id /\ round' = round
  BY <1>a, QuietWatch DEF ReadTerms, HubQuiet
<1>3. CASE play' = ToClaims(play)
  <2>1. play'.at = "owed"
    BY <1>1, <1>3 DEF ToClaims
  <2> QED
    BY <2>1, Unwatched DEF WatchedNow, Watching, Verdicts
<1>4. CASE play' # ToClaims(play)
  <2>1. /\ play' = [play EXCEPT !.at = "draw", !.cycle = @ + 1, !.tries = 0,
                       !.due = rec.last_rain_round + rec.interval_rounds]
        /\ ~(rec.pot < rec.drip)
    BY <1>a, <1>4 DEF ReadTerms, Become
  <2>2. /\ play'.at = "draw" /\ play'.tries = 0
        /\ play'.due = rec.last_rain_round + rec.interval_rounds
        /\ play'.base = play.base /\ play'.after = play.after
        /\ play'.words = play.words /\ play'.count = play.count
    BY <1>1, <2>1 DEF PlayFields
  <2>3. rec.pot >= rec.drip /\ rec.last_rain_round + rec.interval_rounds <= play'.due
    BY <1>1, <2>1, <2>2 DEF RainRec
  <2>4. Ahead(0, cursor, next_rain_id)
    <3>1. PICK d \in 0 .. next_rain_id - 1 :
              (cursor + d) % next_rain_id = Lottery - 1
      BY WatchFacts, ModReaches
    <3>2. d \in Nat /\ d + 0 * DrawScan < next_rain_id
      BY WatchFacts, ScanAssumption
    <3> QED
      BY <3>1, <3>2 DEF Ahead
  <2>5. Coming(play', rec, cursor, next_rain_id, round)
    BY <2>2, <2>3, <2>4 DEF Coming
  <2>6. Accounted(play', all, owes) /\ \A n : Judged(play', all, n)
    BY <1>1, <2>2 DEF Accounted, Judged
  <2>7. Everyone(play') = Everyone(play)
    BY <2>2 DEF Everyone, Players
  <2> QED
    BY <1>a, <1>2, <2>2, <2>5, <2>6, <2>7 DEF WatchedNow, Watched
<1> QED
  BY <1>3, <1>4

LEMMA ModTwice ==
  ASSUME NEW n \in Nat \ {0}, NEW x \in Nat, NEW y \in Nat
  PROVE  ((x % n) + y) % n = (x + y) % n
<1> DEFINE p == x \div n
           s == x % n
           q == (s + y) \div n
           b == (s + y) % n
<1>1. p \in Nat /\ s \in 0 .. n - 1 /\ x = n * p + s
  OBVIOUS
<1> HIDE DEF p, s
<1>2. q \in Int /\ b \in 0 .. n - 1 /\ s + y = n * q + b
  BY <1>1
<1> HIDE DEF q, b
<1>3. x + y = (p + q) * n + b /\ p + q \in Int
  BY <1>1, <1>2
<1>4. ((p + q) * n + b) % n = b
  BY <1>2, <1>3, ModUnique
<1> QED
  BY <1>3, <1>4 DEF b, s

\* A draw visits the lottery, or comes closer to it by its scan.
LEMMA AheadMoves ==
  ASSUME NEW n \in Nat \ {0}, NEW place \in Nat, NEW tries \in Nat,
         Ahead(tries, place, n)
  PROVE  \/ \E d \in 0 .. DrawScan - 1 : (place + d) % n = Lottery - 1
         \/ Ahead(tries + 1, (place + DrawScan) % n, n)
<1>1. PICK d \in Nat : d + tries * DrawScan < n /\ (place + d) % n = Lottery - 1
  BY DEF Ahead
<1>2. DrawScan \in Nat
  BY ScanAssumption
<1>3. CASE d < DrawScan
  <2>1. d \in 0 .. DrawScan - 1
    BY <1>2, <1>3
  <2>2. (place + d) % n = Lottery - 1
    BY <1>1
  <2> QED
    BY <2>1, <2>2
<1>4. CASE d >= DrawScan
  <2>1. PICK e \in Nat : d = DrawScan + e
    <3>1. d - DrawScan \in Nat /\ d = DrawScan + (d - DrawScan)
      BY <1>1, <1>2, <1>4
    <3> QED
      BY <3>1
  <2>2. e + (tries + 1) * DrawScan < n
    BY <1>1, <1>2, <2>1
  <2>3. place + DrawScan \in Nat /\ (place + DrawScan) + e = place + d
    BY <1>1, <1>2, <2>1
  <2>4. (((place + DrawScan) % n) + e) % n = Lottery - 1
    BY <1>1, <2>1, <2>3, ModTwice
  <2> QED
    BY <2>2, <2>4 DEF Ahead
<1> QED
  BY <1>1, <1>2, <1>3, <1>4

LEMMA DrawWatched ==
  ASSUME WatchFits, DrawLottery
  PROVE  WatchedNow'
<1>a. PICK rec, owes, all :
         /\ rec = rains[Lottery] /\ owes = Allocations(Lottery)
         /\ all = ToSet(Everyone(play))
  OBVIOUS
<1>b. PICK n, place, new : n = next_rain_id /\ place = cursor /\ new = rains'[Lottery]
  OBVIOUS
<1>1. /\ Accounted(play, all, owes) /\ Coming(play, rec, place, n, round)
      /\ {"at", "words", "count", "todo", "left", "late"} \subseteq DOMAIN play
      /\ PlayFields \subseteq DOMAIN play /\ play.at = "draw"
      /\ play.tries = 0 => Reached(play.due)
      /\ rec.tickets > 0
  BY <1>a, <1>b, WatchFacts DEF WatchFits, WatchedNow, Watched, DrawLottery,
     PlayAt, Prepared, Entered
<1>2. /\ rec \in RainRec /\ rec.mode = ONE /\ rec.prize_locked \in Nat
      /\ rec.drip > 0 /\ n \in Nat \ {0} /\ place \in Nat /\ round \in Nat
      /\ play.tries \in Nat /\ play.due \in Nat /\ Lottery \in DOMAIN rains
      /\ TypeOK /\ rec.last_rain_round \in Nat /\ rec.interval_rounds \in Nat
  BY <1>a, <1>b, WatchFacts DEF RainRec
<1>3. /\ new = IF Lottery \in Visited THEN TryFire(rec) ELSE rec
      /\ cursor' = (place + DrawScan) % n /\ next_rain_id' = n /\ round' = round
      /\ tickets' = tickets
  BY <1>a, <1>b, <1>2 DEF DrawLottery, Draw, Drawn
<1>4. /\ play'.at = "fired" /\ play'.tries = play.tries + 1
      /\ play'.due = play.due /\ play'.base = play.base
      /\ play'.after = play.after
      /\ play'.words = play.words /\ play'.count = play.count
  <2>1. play' = [play EXCEPT !.at = "fired", !.tries = @ + 1]
    BY DEF DrawLottery, Become
  <2> QED
    BY <1>1, <2>1 DEF PlayFields
<1>5. /\ new = rec \/ new = PrizeLocked(rec)
      /\ rec.prize_locked > 0 => new = rec
      /\ PrizeLocked(rec).prize_locked > 0
  BY <1>2, <1>3, LotteryFires
<1>6. Coming(play', new, cursor', n, round)
  <2>1. CASE rec.prize_locked > 0
    BY <1>5, <2>1 DEF Coming
  <2>2. CASE new = PrizeLocked(rec)
    BY <1>5, <2>2 DEF Coming
  <2>3. CASE ~(rec.prize_locked > 0) /\ new = rec
    <3>1. /\ rec.pot >= rec.drip
          /\ rec.last_rain_round + rec.interval_rounds <= play.due
          /\ play.tries > 0 => play.due < round
          /\ Ahead(play.tries, place, n)
      BY <1>1, <2>3 DEF Coming
    <3>2. play.due < round
      BY <1>1, <1>2, <3>1 DEF Reached
    <3>3. Due(rec)
      BY <1>2, <3>1, <3>2 DEF Due
    <3>4. CASE Lottery \in Visited
      <4>a. new = TryFire(rec)
        BY <1>3, <3>4
      <4>b. /\ rec \in RainRec /\ rec.mode = ONE /\ rec.prize_locked = 0
            /\ rec.tickets > 0 /\ rec.pot >= rec.drip
        BY <1>1, <1>2, <2>3, <3>1
      <4>1. new = PrizeLocked(rec)
        BY <3>3, <4>a, <4>b, LotteryFires
      <4> QED
        BY <1>5, <4>1 DEF Coming
    <3>5. CASE Lottery \notin Visited
      <4>1. ~ \E d \in 0 .. DrawScan - 1 : (place + d) % n = Lottery - 1
        <5> SUFFICES ASSUME NEW d \in 0 .. DrawScan - 1,
                            (place + d) % n = Lottery - 1
                     PROVE  FALSE
          OBVIOUS
        <5>1. ((place + d) % n) + 1 = Lottery
          BY PlayersAssumption
        <5> QED
          BY <1>b, <3>5, <5>1 DEF Visited
      <4>2. Ahead(play.tries + 1, (place + DrawScan) % n, n)
        BY <1>2, <3>1, <4>1, AheadMoves
      <4> QED
        BY <1>3, <1>4, <2>3, <3>1, <3>2, <4>2 DEF Coming
    <3> QED
      BY <3>4, <3>5
  <2> QED
    BY <1>5, <2>1, <2>2, <2>3
<1>7. Allocations(Lottery)' = owes
  <2>1. /\ new.mode = rec.mode /\ new.cumulative = rec.cumulative
        /\ new.last_share = rec.last_share
        /\ new.last_wave_id = rec.last_wave_id
    BY <1>2, <1>5 DEF PrizeLocked, RainRec
  <2>2. TicketsSame(Lottery)
    BY <1>3 DEF TicketsSame
  <2> QED
    BY <1>a, <1>b, <1>2, <2>1, <2>2, AllocationsKept
<1>8. Accounted(play', all, owes) /\ Judged(play', all, n)
  BY <1>1, <1>4 DEF Accounted, Judged
<1>9. Everyone(play') = Everyone(play)
  BY <1>4 DEF Everyone, Players
<1> QED
  BY <1>a, <1>b, <1>3, <1>4, <1>6, <1>7, <1>8, <1>9 DEF WatchedNow, Watched

LEMMA FiredWatched ==
  ASSUME WatchFits, ReadFired
  PROVE  WatchedNow'
<1>a. PICK rec, owes, all, n :
         /\ rec = rains[Lottery] /\ owes = Allocations(Lottery)
         /\ all = ToSet(Everyone(play)) /\ n = next_rain_id
  OBVIOUS
<1>1. /\ Accounted(play, all, owes) /\ Coming(play, rec, cursor, n, round)
      /\ {"at", "words", "count", "todo", "left", "late"} \subseteq DOMAIN play
      /\ PlayFields \subseteq DOMAIN play /\ play.at = "fired"
      /\ rec.prize_locked \in Nat /\ n \in Nat /\ play.tries \in Nat
  BY <1>a, WatchFacts DEF WatchFits, WatchedNow, Watched, ReadFired, PlayAt
<1>2. /\ rains'[Lottery] = rec /\ Allocations(Lottery)' = owes
      /\ cursor' = cursor /\ next_rain_id' = n /\ round' = round
  BY <1>a, QuietWatch DEF ReadFired, HubQuiet
<1>3. CASE rec.prize_locked > 0
  <2>1. play' = [play EXCEPT !.at = "resolve", !.due = 0, !.tries = 0,
                       !.commit = rec.commit_round,
                       !.tickets = rec.tickets, !.locked = rec.prize_locked]
    BY <1>a, <1>3 DEF ReadFired, Become
  <2>2. /\ play'.at = "resolve" /\ play'.commit = rec.commit_round
        /\ play'.tickets = rec.tickets /\ play'.locked = rec.prize_locked
        /\ play'.base = play.base /\ play'.after = play.after
        /\ play'.words = play.words /\ play'.count = play.count
    BY <1>1, <2>1 DEF PlayFields
  <2>3. Accounted(play', all, owes) /\ Judged(play', all, n)
    BY <1>1, <2>2 DEF Accounted, Judged
  <2>4. Everyone(play') = Everyone(play)
    BY <2>2 DEF Everyone, Players
  <2> QED
    BY <1>a, <1>2, <1>3, <2>2, <2>3, <2>4 DEF WatchedNow, Watched
<1>4. CASE ~(rec.prize_locked > 0)
  <2>1. play' = [play EXCEPT !.at = IF play.tries = DrawTries
                                    THEN "never_fired" ELSE "draw"]
    BY <1>a, <1>4 DEF ReadFired, Become
  <2>2. /\ play'.at = IF play.tries = DrawTries THEN "never_fired" ELSE "draw"
        /\ play'.tries = play.tries /\ play'.due = play.due
        /\ play'.base = play.base /\ play'.after = play.after
        /\ play'.words = play.words /\ play'.count = play.count
    BY <1>1, <2>1 DEF PlayFields
  <2>3. play.tries * DrawScan < n
    <3>1. PICK d \in Nat : d + play.tries * DrawScan < n
      BY <1>1, <1>4 DEF Coming, Ahead
    <3>2. play.tries * DrawScan \in Nat
      BY <1>1, ScanAssumption
    <3> QED
      BY <1>1, <3>1, <3>2
  <2>4. Judged(play', all, n)
    BY <2>2, <2>3 DEF Judged
  <2>5. Accounted(play', all, owes)
    BY <1>1, <2>2 DEF Accounted
  <2>6. play'.at # "never_fired" => Coming(play', rec, cursor, n, round)
    BY <1>1, <1>4, <2>2 DEF Coming
  <2>7. Everyone(play') = Everyone(play)
    BY <2>2 DEF Everyone, Players
  <2> QED
    BY <1>a, <1>2, <2>2, <2>4, <2>5, <2>6, <2>7 DEF WatchedNow, Watched
<1> QED
  BY <1>3, <1>4

LEMMA ResolveWatched ==
  ASSUME WatchFits, ResolveLottery
  PROVE  WatchedNow'
<1>a. PICK rec, owes, all :
         /\ rec = rains[Lottery] /\ owes = Allocations(Lottery)
         /\ all = ToSet(Everyone(play))
  OBVIOUS
<1>1. /\ Accounted(play, all, owes) /\ play.at = "resolve"
      /\ rec.prize_locked = play.locked /\ play.locked > 0
      /\ rec.commit_round = play.commit /\ rec.tickets = play.tickets
      /\ {"at", "words", "count", "todo", "left", "late"} \subseteq DOMAIN play
      /\ PlayFields \subseteq DOMAIN play
      /\ HubKeeps /\ TypeOK /\ Lottery \in DOMAIN rains
      /\ rec.prize_locked \in Nat /\ all \subseteq Accounts
  <2>1. play.at = "resolve" /\ play.at \in Watching
    BY DEF ResolveLottery, PlayAt, Watching
  <2> QED
    BY <1>a, <2>1, WatchFacts, AllFacts DEF WatchFits, WatchedNow, Watched
<1>2. \A b \in Accounts : AllocationOf(Lottery, b) \in Nat
  BY <1>1, KeyTyped DEF OwedNow
<1>3. PICK who \in Holders(Lottery) :
         /\ AllocationOf(Lottery, who)' > AllocationOf(Lottery, who)
         /\ play' = [play EXCEPT !.at = "after", !.winner = who,
                                 !.todo = Everyone(play)]
  BY <1>a, <1>1 DEF ResolveLottery, Become
<1>4. PICK a \in Holders(Lottery) :
         \A b \in Accounts : AllocationOf(Lottery, b)' =
            IF b = a THEN AllocationOf(Lottery, b) + rec.prize_locked
                     ELSE AllocationOf(Lottery, b)
  BY <1>a, <1>1, ResolveOwes DEF ResolveLottery
<1>5. who = a /\ who \in Accounts
  BY <1>2, <1>3, <1>4 DEF Holders
<1>6. /\ play'.at = "after" /\ play'.winner = who
      /\ play'.todo = Everyone(play) /\ play'.locked = play.locked
      /\ play'.base = play.base /\ play'.after = play.after
      /\ play'.words = play.words /\ play'.count = play.count
  BY <1>1, <1>3 DEF PlayFields
<1>7. PICK owed : owed = Allocations(Lottery)'
  OBVIOUS
<1>8. \A b \in all : /\ play.base[b] \in Nat /\ play.locked \in Nat
                     /\ owed[b] = play.base[b] +
                          (IF b = who THEN play.locked ELSE 0)
  <2> SUFFICES ASSUME NEW b \in all
               PROVE  /\ play.base[b] \in Nat /\ play.locked \in Nat
                      /\ owed[b] = play.base[b] +
                           (IF b = who THEN play.locked ELSE 0)
    OBVIOUS
  <2>1. b \in Accounts
    BY <1>1
  <2>2. play.base[b] = AllocationOf(Lottery, b)
    <3>1. b \in DOMAIN play.base /\ Told(play.base, owes)
      BY <1>1 DEF Accounted
    <3>2. owes[b] = AllocationOf(Lottery, b)
      BY <1>a, <2>1 DEF Allocations
    <3> QED
      BY <3>1, <3>2 DEF Told
  <2>3. owed[b] = AllocationOf(Lottery, b)'
    BY <1>7, <2>1 DEF Allocations
  <2> QED
    BY <1>1, <1>2, <1>4, <1>5, <2>1, <2>2, <2>3
<1>9. play.after = <<>> /\ DOMAIN play.base = all /\ DOMAIN <<>> = {}
  BY <1>1 DEF Accounted
<1>10. Accounted(play', all, owed)
  BY <1>a, <1>6, <1>8, <1>9 DEF Accounted, Told
<1>11. \A n : Judged(play', all, n)
  BY <1>6 DEF Judged
<1>12. Everyone(play') = Everyone(play)
  BY <1>6 DEF Everyone, Players
<1> QED
  BY <1>a, <1>6, <1>7, <1>10, <1>11, <1>12 DEF WatchedNow, Watched

LEMMA CheckWatched ==
  ASSUME WatchFits, Check
  PROVE  WatchedNow'
<1>a. PICK rec, owes, all :
         /\ rec = rains[Lottery] /\ owes = Allocations(Lottery)
         /\ all = ToSet(Everyone(play))
  OBVIOUS
<1>1. /\ Accounted(play, all, owes) /\ play.at = "check"
      /\ {"at", "words", "count", "todo", "left", "late"} \subseteq DOMAIN play
      /\ PlayFields \subseteq DOMAIN play
  BY <1>a, WatchFacts DEF WatchFits, WatchedNow, Watched, Check, PlayAt
<1>2. /\ rains'[Lottery] = rec /\ Allocations(Lottery)' = owes
      /\ cursor' = cursor /\ next_rain_id' = next_rain_id /\ round' = round
  BY <1>a, QuietWatch DEF Check, HubQuiet
<1>3. /\ DOMAIN play.base = all /\ DOMAIN play.after = all
      /\ Told(play.after, owes)
      /\ \A who \in all :
            /\ play.base[who] \in Nat /\ play.locked \in Nat
            /\ play.after[who] = play.base[who] +
                 (IF who = play.winner THEN play.locked ELSE 0)
  BY <1>1 DEF Accounted, Told
<1>4. play.winner \in all => GainsRight(play)
  <2> SUFFICES ASSUME play.winner \in all  PROVE GainsRight(play)
    OBVIOUS
  <2>1. Gain(play.winner, play.after, play.base) = play.locked
    BY <1>3 DEF Gain
  <2>2. \A who \in DOMAIN play.after \ {play.winner} :
            Gain(who, play.after, play.base) = 0
    BY <1>3 DEF Gain
  <2> QED
    BY <1>3, <2>1, <2>2 DEF GainsRight
<1>5. CASE ~GainsRight(play)
  <2>1. play' = [play EXCEPT !.at = "wrong_gain"]
    BY <1>5 DEF Check, Become
  <2>2. /\ play'.at = "wrong_gain" /\ play'.winner = play.winner
        /\ play'.words = play.words /\ play'.count = play.count
    BY <1>1, <2>1 DEF PlayFields
  <2>3. Accounted(play', all, owes) /\ \A n : Judged(play', all, n)
    BY <1>4, <1>5, <2>2 DEF Accounted, Judged
  <2>4. Everyone(play') = Everyone(play)
    BY <2>2 DEF Everyone, Players
  <2> QED
    BY <1>a, <1>2, <2>2, <2>3, <2>4 DEF WatchedNow, Watched
<1>6. CASE play' = ToClaims(play)
  <2>1. play'.at = "owed"
    BY <1>1, <1>6 DEF ToClaims
  <2> QED
    BY <2>1, Unwatched DEF WatchedNow, Watching, Verdicts
<1>7. CASE GainsRight(play) /\ play' # ToClaims(play)
  <2>1. play' = [play EXCEPT !.at = "cycle", !.base = play.after,
                             !.after = <<>>]
    BY <1>7 DEF Check, Become
  <2>2. /\ play'.at = "cycle" /\ play'.base = play.after /\ play'.after = <<>>
        /\ play'.words = play.words /\ play'.count = play.count
    BY <1>1, <2>1 DEF PlayFields
  <2>3. Accounted(play', all, owes) /\ \A n : Judged(play', all, n)
    BY <1>3, <2>2 DEF Accounted, Judged
  <2>4. Everyone(play') = Everyone(play)
    BY <2>2 DEF Everyone, Players
  <2> QED
    BY <1>a, <1>2, <2>2, <2>3, <2>4 DEF WatchedNow, Watched
<1> QED
  BY <1>5, <1>6, <1>7

LEMMA ElseWatched ==
  ASSUME WatchFits, Else, alone'
  PROVE  WatchedNow'
<1>a. PICK rec, new, owes, owed :
         /\ rec = rains[Lottery] /\ new = rains'[Lottery]
         /\ owes = Allocations(Lottery) /\ owed = Allocations(Lottery)'
  OBVIOUS
<1>1. /\ Watched(play, rec, owes, cursor, next_rain_id, round)
      /\ {"at", "words", "count", "todo", "left", "late"} \subseteq DOMAIN play
      /\ PlayFields \subseteq DOMAIN play /\ play.due \in Nat /\ round \in Nat
      /\ rec \in RainRec /\ rec.mode = ONE /\ TypeOK /\ Lottery \in DOMAIN rains
      /\ rec.tickets \in Nat /\ rec.prize_locked \in Nat
  BY <1>a, WatchFacts DEF WatchFits, WatchedNow, RainRec
<1>2. /\ play'.at = play.at /\ play'.words = play.words
      /\ play'.count = play.count /\ play'.todo = play.todo
      /\ play'.base = play.base /\ play'.after = play.after
      /\ play'.tries = play.tries /\ play'.due = play.due
      /\ play'.commit = play.commit /\ play'.tickets = play.tickets
      /\ play'.locked = play.locked /\ play'.winner = play.winner
  <2>1. play' = [play EXCEPT !.late = @ \cup (play.left \cap Credited)]
    BY DEF Else, Become
  <2> QED
    BY <1>1, <2>1 DEF PlayFields
<1>3. Stands(rec, rec)
  BY DEF Stands
<1>4. ASSUME Stands(new, rec), round' \in Nat, round <= round',
             cursor' = cursor, next_rain_id' = next_rain_id,
             \A b \in Accounts \ Others :
                AllocationOf(Lottery, b)' = AllocationOf(Lottery, b)
      PROVE  WatchedNow'
  <2>1. CASE play.at \in Watching
    <3>1. ToSet(Everyone(play)) \subseteq Accounts \ Others
      BY <2>1, AllFacts DEF Others
    <3>2. \A who \in ToSet(Everyone(play)) : owed[who] = owes[who]
      <4> TAKE who \in ToSet(Everyone(play))
      <4>1. who \in Accounts \ Others /\ who \in Accounts
        BY <3>1
      <4>2. owes[who] = AllocationOf(Lottery, who)
            /\ owed[who] = AllocationOf(Lottery, who)'
        BY <1>a, <4>1 DEF Allocations
      <4> QED
        BY <1>4, <4>1, <4>2
    <3>3. Watched(play', new, owed, cursor, next_rain_id, round')
      BY <1>1, <1>2, <1>4, <3>2, WatchedStays
    <3> QED
      BY <1>a, <1>4, <3>3 DEF WatchedNow
  <2>2. CASE play.at \notin Watching
    BY <1>2, <2>2, Unwatched DEF WatchedNow
  <2> QED
    BY <2>1, <2>2
<1>5. CASE Tick
  <2>1. /\ new = rec /\ round' = round + 1 /\ cursor' = cursor
        /\ next_rain_id' = next_rain_id
        /\ \A b \in Accounts :
              AllocationOf(Lottery, b)' = AllocationOf(Lottery, b)
    BY <1>a, <1>5 DEF Tick, boxes, hub, AllocationOf
  <2> QED
    BY <1>1, <1>3, <1>4, <2>1
<1>6. ASSUME NEW a \in Others, NEW mbr \in MbrPayments, Enter(a, Lottery, mbr)
      PROVE  WatchedNow'
  <2>1. a \in Accounts
    BY <1>6 DEF Others
  <2>2. \A b \in Accounts : AllocationOf(Lottery, b)' = AllocationOf(Lottery, b)
    BY <1>1, <1>6, <2>1, EnterOwes
  <2>3. rec.prize_locked = 0
    BY <1>a, <1>1, <1>6 DEF Enter, EntryOpen
  <2>4. new = [rec EXCEPT !.tickets = @ + 1,
                  !.wave_count = IF SeatFree(rec) THEN @ + 1 ELSE @]
    BY <1>a, <1>1, <1>6 DEF Enter
  <2>5. Stands(new, rec)
    BY <1>1, <2>3, <2>4 DEF Stands, RainRec
  <2>6. round' = round /\ cursor' = cursor /\ next_rain_id' = next_rain_id
    BY <1>6 DEF Enter
  <2> QED
    BY <1>1, <1>4, <2>2, <2>5, <2>6
<1>7. ASSUME NEW a \in Others, Claim(a, Lottery)
      PROVE  WatchedNow'
  <2>1. a \in Accounts
    BY <1>7 DEF Others
  <2>2. \A b \in Accounts \ Others :
            AllocationOf(Lottery, b)' = AllocationOf(Lottery, b)
    BY <1>1, <1>7, <2>1, ClaimPays
  <2>3. new = rec
    BY <1>a, <1>1, <1>7 DEF Claim, SettledRec, Unsettled
  <2>4. round' = round /\ cursor' = cursor /\ next_rain_id' = next_rain_id
    BY <1>7 DEF Claim, hub
  <2> QED
    BY <1>1, <1>3, <1>4, <2>2, <2>3, <2>4
<1> QED
  BY <1>5, <1>6, <1>7 DEF Else

LEMMA WatchedStep ==
  ASSUME KeyInv, Prepared(play, keyfile, rains[Lottery]), alone => WatchedNow,
         OneDrawNext, alone'
  PROVE  WatchedNow'
<1>1. CASE FillPot
  BY <1>1, PotWatched
<1>2. CASE ~FillPot
  <2>1. alone
    BY <1>2 DEF OneDrawNext, Script, Begin, Load, Truncate, WriteKeys, Fund,
       EnterPlayer, Ask, ReadTerms, DrawLottery, ReadFired, ResolveLottery,
       Check, AskOwed, ClaimOwed, Close, Unlink, PlayRefused, Dies, Else, HubQuiet
  <2>2. WatchFits
    BY <2>1 DEF WatchFits
  <2>3. {"at", "words", "count", "todo", "left", "late"} \subseteq DOMAIN play
    BY <2>2, WatchFacts
  <2>4. CASE \/ Begin \/ Load \/ Truncate \/ WriteKeys \/ Fund \/ EnterPlayer
             \/ AskOwed \/ ClaimOwed \/ Close \/ Unlink \/ PlayRefused \/ Dies
    <3>1. NoPlay.at = "idle" /\ {"at", "count"} \subseteq DOMAIN NoPlay
      BY DEF NoPlay
    <3>2. play'.at \notin Watching
      BY <2>3, <2>4, <3>1 DEF Begin, Load, Truncate, WriteKeys, Fund,
         EnterPlayer, NextPlayer, AskOwed, ClaimOwed, Close, Unlink,
         PlayRefused, Dies, NextClaim, Leaves, Become, Watching, Verdicts
    <3> QED
      BY <3>2, Unwatched DEF WatchedNow
  <2> QED
    BY <1>2, <2>2, <2>4, AskWatched, TermsWatched, DrawWatched, FiredWatched,
       ResolveWatched, CheckWatched, ElseWatched DEF OneDrawNext, Script
<1> QED
  BY <1>1, <1>2

\* For whatever players, hub and callers: the script finds fault with a hub
\* nobody else drew, resolved or abandoned on only where it could not know
\* better: the winner is none of its accounts, or the hub has more rains than
\* its draws visit (rain_one_draw.py:115, 120, 178 and 299).
THEOREM VerdictAlwaysTrue == OneDrawSpec => []VerdictTrue
<1>1. OneDrawFound /\ OneDrawInit => VerdictInv
  <2> SUFFICES ASSUME OneDrawFound, OneDrawInit  PROVE VerdictInv
    OBVIOUS
  <2>1. KeyInv
    <3>1. HubKeeps
      BY DEF OneDrawFound, HubKeeps, SeatsInv
    <3>2. <<>> \in Seq(Accounts)
      BY EmptySeq
    <3>3. KeysKeep /\ play.left = {}
      BY <3>2, NoPlayFits DEF OneDrawInit, KeysKeep
    <3> QED
      BY <3>1, <3>3 DEF KeyInv, OwedLate
  <2>2. /\ NoPlay.at = "idle" /\ NoPlay.words = <<>> /\ NoPlay.tries = 0
        /\ NoPlay.due = 0 /\ PlayFields \subseteq DOMAIN NoPlay
    BY DEF NoPlay, PlayFields
  <2>3. ToSet(<<>>) = {}
    BY DEF ToSet
  <2>4. Prepared(play, keyfile, rains[Lottery])
    BY <2>2, <2>3 DEF OneDrawFound, OneDrawInit, Prepared, PlayFields, Early,
       Entered
  <2> QED
    BY <2>1, <2>4 DEF VerdictInv, OneDrawInit
<1>2. ASSUME VerdictInv, [OneDrawNext]_oneDrawVars
      PROVE  VerdictInv'
  <2>1. KeyInv'
    BY <1>2, KeyStep DEF VerdictInv
  <2>2. CASE OneDrawNext
    <3>1. Prepared(play, keyfile, rains[Lottery])'
      BY <1>2, <2>2, PreparedStep DEF VerdictInv
    <3>2. alone' => WatchedNow'
      BY <1>2, <2>2, WatchedStep DEF VerdictInv
    <3> QED
      BY <2>1, <3>1, <3>2 DEF VerdictInv
  <2>3. CASE UNCHANGED oneDrawVars
    <3>1. /\ UNCHANGED vars /\ play' = play /\ keyfile' = keyfile
          /\ alone' = alone
      BY <2>3 DEF oneDrawVars, playerVars
    <3>2. Prepared(play', keyfile', rains'[Lottery])
      BY <1>2, <3>1, QuietWatch DEF VerdictInv
    <3>3. alone' => WatchedNow'
      BY <1>2, <3>1, QuietWatch DEF VerdictInv, WatchedNow
    <3> QED
      BY <2>1, <3>2, <3>3 DEF VerdictInv
  <2> QED
    BY <1>2, <2>2, <2>3
<1>3. VerdictInv => VerdictTrue
  BY DEF VerdictInv, VerdictTrue, WatchedNow, Watched, Judged, Verdicts, PlayAt
<1> QED
  BY <1>1, <1>2, <1>3, PTL DEF OneDrawSpec
=============================================================================
