------------------------------- MODULE Tills --------------------------------
(***************************************************************************)
(* What depositors and ticket holders may rely on, whatever the hub does   *)
(* with tickets, waves, seats, numbers and locks: each rain is a till of   *)
(* its own and a list of what is due from it.  Deposits fill the till, and *)
(* only a payment of all that is due to somebody empties it.  Something    *)
(* becomes due by a drop alone, out of what the till has over, to several  *)
(* by one share each or to the winner of a lottery, and only a WAVE drop   *)
(* takes back a share that was not settled.                                *)
(***************************************************************************)
EXTENDS Integers, Sums

CONSTANTS Accounts, Rains, Amounts, SPLIT, ONE, WAVE

VARIABLES
    till,    \* till[r]: what rain r holds
    due,     \* due[r][a]: what account a could take out of it now
    mode     \* mode[r]: how it rains

tillVars == <<till, due, mode>>

Free(r) == till[r] - Total(due[r])

Opened(f, r, v) == [q \in DOMAIN f \cup {r} |-> IF q = r THEN v ELSE f[q]]

Init ==
    /\ till = [r \in {} |-> 0] /\ due = [r \in {} |-> 0]
    /\ mode = [r \in {} |-> 0]

Open(r, m) ==
    /\ r \notin DOMAIN till
    /\ till' = Opened(till, r, 0)
    /\ due' = Opened(due, r, [a \in Accounts |-> 0])
    /\ mode' = Opened(mode, r, m)

Deposit(r, amount) ==
    /\ till' = [till EXCEPT ![r] = @ + amount]
    /\ UNCHANGED <<due, mode>>

Pay(r, a) ==
    /\ till' = [till EXCEPT ![r] = @ - due[r][a]]
    /\ due' = [due EXCEPT ![r][a] = 0]
    /\ UNCHANGED mode

Award(r, a, prize) ==
    /\ mode[r] = ONE /\ prize <= Free(r)
    /\ due' = [due EXCEPT ![r][a] = @ + prize]
    /\ UNCHANGED <<till, mode>>

\* What is due after a drop: one share more to some, the last share no longer
\* to others.
Fallen(r, new) ==
    \E share, last \in 0 .. till[r] :
        /\ mode[r] = ONE => new = due[r]
        /\ mode[r] = SPLIT => last = 0
        /\ new \in [Accounts -> Nat]
        /\ \A a \in Accounts :
              new[a] \in {due[r][a], due[r][a] + share, due[r][a] - last}
        /\ Total(new) <= till[r]

\* One call may make it rain on several.
Fall ==
    /\ due' = [r \in DOMAIN due |-> due'[r]]
    /\ \A r \in DOMAIN due : Fallen(r, due'[r])
    /\ UNCHANGED <<till, mode>>

Next ==
    \/ \E r \in Rains, m \in {SPLIT, ONE, WAVE} : Open(r, m)
    \/ \E r \in DOMAIN till :
          \/ \E amount \in Amounts : Deposit(r, amount)
          \/ \E a \in Accounts :
                Pay(r, a) \/ \E prize \in 1 .. Free(r) : Award(r, a, prize)
    \/ Fall

Spec == Init /\ [][Next]_tillVars
=============================================================================
