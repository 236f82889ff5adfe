----------------------------- MODULE Submission -----------------------------
(***************************************************************************)
(* What a caller may rely on when it sends requests through a node that    *)
(* refuses some, loses some and answers some late: a request that is       *)
(* answered with success was carried out, a transaction lands only if      *)
(* somebody submitted it, and a failure says nothing of what landed.       *)
(***************************************************************************)
CONSTANTS Calls, Txns, NoReq

\* simulate carries a signed transaction to the node as submit does; get
\* stands for every read.
Requests ==
    [verb : {"submit", "simulate"}, txn : Txns] \cup {[verb |-> "get"]}

Submit(x) == [verb |-> "submit", txn |-> x]

VARIABLES
    asked,    \* asked[c]: what call c was made with, NoReq before that
    ended,    \* ended[c]: how it ended, if it did
    landed    \* the transactions in the pool or the ledger

subVars == <<asked, ended, landed>>

Init ==
    /\ asked = [c \in Calls |-> NoReq]
    /\ ended = [c \in Calls |-> "open"]
    /\ landed = {}

Ask(c, req) ==
    /\ asked[c] = NoReq
    /\ asked' = [asked EXCEPT ![c] = req]
    /\ UNCHANGED <<ended, landed>>

Land(x) ==
    /\ \E c \in Calls : asked[c] = Submit(x)
    /\ landed' = landed \cup {x}
    /\ UNCHANGED <<asked, ended>>

Succeed(c) ==
    /\ asked[c] # NoReq /\ ended[c] = "open"
    /\ \A x \in Txns : asked[c] = Submit(x) => x \in landed
    /\ ended' = [ended EXCEPT ![c] = "done"]
    /\ UNCHANGED <<asked, landed>>

Fail(c) ==
    /\ asked[c] # NoReq /\ ended[c] = "open"
    /\ ended' = [ended EXCEPT ![c] = "failed"]
    /\ UNCHANGED <<asked, landed>>

Next ==
    \/ \E c \in Calls :
          (\E req \in Requests : Ask(c, req)) \/ Succeed(c) \/ Fail(c)
    \/ \E x \in Txns : Land(x)

Spec == Init /\ [][Next]_subVars
=============================================================================
