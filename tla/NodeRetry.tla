----------------------------- MODULE NodeRetry ------------------------------
(***************************************************************************)
(* The retry around every request to a public node (scripts/node_retry.py) *)
(* and the node it talks to: an edge that refuses a request, and may have  *)
(* passed it on all the same, and a node behind it that takes a signed     *)
(* transaction once and knows it again.                                    *)
(*                                                                         *)
(* A call is one use of the wrapped function; several may be under way, of *)
(* one process or of many, and two of them may carry the same transaction. *)
(***************************************************************************)
EXTENDS Naturals

CONSTANTS
    Calls, Txns, NoReq,
    Nameable,      \* the transactions whose id can be read out of the blob
    MaxAttempts

ASSUME RetryAssumption ==
    /\ MaxAttempts \in Nat \ {0}
    /\ Nameable \subseteq Txns

VARIABLES
    call,       \* call[c]: the local variables of wrapper, and where it is
    inflight,   \* copies that the edge passed on and the node has not seen
    landed      \* the transactions in the pool or the ledger

vars == <<call, inflight, landed>>

S == INSTANCE Submission WITH
        asked <- [c \in Calls |-> call[c].req],
        ended <- [c \in Calls |->
                     CASE call[c].at = "returned" -> "done"
                       [] call[c].at = "raised"   -> "failed"
                       [] OTHER                   -> "open"]

ASSUME NoReqAssumption == NoReq \notin S!Requests

\* What one attempt ends with: the node's answers, and the edge's.  refused is
\* a 403 or a 429, server a 5xx; lost is an error with no status.
NodeSays == {"ok", "duplicate", "invalid"}
EdgeSays == {"refused", "server", "lost"}

Wrapper == [req : S!Requests \cup {NoReq},
            at : {"new", "waiting", "answered", "sleeping", "returned",
                  "raised"},
            attempt : 0 .. MaxAttempts, replayed : BOOLEAN,
            answer : NodeSays \cup EdgeSays \cup {"none"}]

Init ==
    /\ call = [c \in Calls |-> [req |-> NoReq, at |-> "new", attempt |-> 0,
                                replayed |-> FALSE, answer |-> "none"]]
    /\ inflight = {}
    /\ landed = {}

-----------------------------------------------------------------------------
(* What the wrapper makes of an error *)

IsSubmission(req) == req.verb = "submit"

\* Mutant: told by its status, which a logic error has too.
IsDuplicateByStatus(answer) == answer \in {"duplicate", "invalid"}

IsDuplicate(answer) == answer = "duplicate"

ShouldRetry(req, answer) ==
    \/ answer = "refused"
    \/ answer = "server" /\ req.verb = "get"

\* submitted_txid hashes the id out of the blob, or says nothing.
HasTxid(req) == req.txn \in Nameable

\* The answer to a replay of one's own submission.
\* Mutant: whoever sent the first copy.
RecognisedAlways(w) ==
    IsSubmission(w.req) /\ IsDuplicate(w.answer) /\ HasTxid(w.req)

Recognised(w) ==
    /\ w.replayed
    /\ IsSubmission(w.req)
    /\ IsDuplicate(w.answer)
    /\ HasTxid(w.req)

TriesAgain(w) == w.attempt < MaxAttempts /\ ShouldRetry(w.req, w.answer)

-----------------------------------------------------------------------------
(* The node *)

Answer(c, answer) ==
    call' = [call EXCEPT ![c].at = "answered", ![c].answer = answer]

\* The edge writes the answer.  It may have passed a submission on.
EdgeAnswers(c, answer) ==
    /\ call[c].at = "waiting"
    /\ Answer(c, answer)
    /\ \/ UNCHANGED inflight
       \/ /\ IsSubmission(call[c].req)
          /\ inflight' = inflight \cup {call[c].req.txn}
    /\ UNCHANGED landed

\* The node writes it: a transaction it holds is a duplicate, another one it
\* takes or finds invalid.
NodeSubmits(c) ==
    /\ call[c].at = "waiting" /\ IsSubmission(call[c].req)
    /\ LET x == call[c].req.txn IN
        \/ x \in landed /\ Answer(c, "duplicate") /\ UNCHANGED landed
        \/ x \notin landed /\ Answer(c, "ok") /\ landed' = landed \cup {x}
        \/ x \notin landed /\ Answer(c, "invalid") /\ UNCHANGED landed
    /\ UNCHANGED inflight

NodeReads(c) ==
    /\ call[c].at = "waiting" /\ ~IsSubmission(call[c].req)
    /\ \/ Answer(c, "ok") \/ Answer(c, "invalid")
       \/ /\ call[c].req.verb = "simulate" /\ call[c].req.txn \in landed
          /\ Answer(c, "duplicate")
    /\ UNCHANGED <<inflight, landed>>

\* A copy that was passed on arrives, at any time or never.
Deliver(x) ==
    /\ x \in inflight
    /\ inflight' = inflight \ {x}
    /\ landed' \in {landed, landed \cup {x}}
    /\ UNCHANGED call

-----------------------------------------------------------------------------
(* wrapper *)

Begin(c, req) ==
    /\ call[c].at = "new"
    /\ call' = [call EXCEPT ![c].req = req, ![c].at = "waiting",
                            ![c].attempt = 1]
    /\ UNCHANGED <<inflight, landed>>

Return(c) ==
    /\ call[c].at = "answered"
    /\ call[c].answer = "ok" \/ Recognised(call[c])
    /\ call' = [call EXCEPT ![c].at = "returned"]
    /\ UNCHANGED <<inflight, landed>>

Raise(c) ==
    /\ call[c].at = "answered"
    /\ call[c].answer # "ok" /\ ~Recognised(call[c]) /\ ~TriesAgain(call[c])
    /\ call' = [call EXCEPT ![c].at = "raised"]
    /\ UNCHANGED <<inflight, landed>>

\* Mutant: a replay is not remembered as one.
RetryUnmarked(c) ==
    /\ call[c].at = "answered"
    /\ call[c].answer # "ok" /\ ~Recognised(call[c]) /\ TriesAgain(call[c])
    /\ call' = [call EXCEPT ![c].at = "sleeping"]
    /\ UNCHANGED <<inflight, landed>>

Retry(c) ==
    /\ call[c].at = "answered"
    /\ call[c].answer # "ok" /\ ~Recognised(call[c]) /\ TriesAgain(call[c])
    /\ call' = [call EXCEPT ![c].at = "sleeping", ![c].replayed = TRUE]
    /\ UNCHANGED <<inflight, landed>>

\* Mutant: the attempt is not counted.
ResendUncounted(c) ==
    /\ call[c].at = "sleeping"
    /\ call' = [call EXCEPT ![c].at = "waiting", ![c].answer = "none"]
    /\ UNCHANGED <<inflight, landed>>

Resend(c) ==
    /\ call[c].at = "sleeping"
    /\ call' = [call EXCEPT ![c].at = "waiting", ![c].answer = "none",
                            ![c].attempt = @ + 1]
    /\ UNCHANGED <<inflight, landed>>

Answered(c) ==
    \/ \E answer \in EdgeSays : EdgeAnswers(c, answer)
    \/ NodeSubmits(c) \/ NodeReads(c)

Step(c) == Answered(c) \/ Return(c) \/ Raise(c) \/ Retry(c) \/ Resend(c)

Next ==
    \/ \E c \in Calls : (\E req \in S!Requests : Begin(c, req)) \/ Step(c)
    \/ \E x \in Txns : Deliver(x)

Spec == Init /\ [][Next]_vars

\* Every attempt ends in an answer or an error, and the process runs.
FairSpec == Spec /\ \A c \in Calls : WF_vars(Step(c))
-----------------------------------------------------------------------------
(* Properties *)

\* The attempt counter stays within its limit, and what a call knows of its own
\* past agrees with it.
RetryTypeOK ==
    /\ call \in [Calls -> Wrapper]
    /\ inflight \in SUBSET Txns
    /\ landed \in SUBSET Txns
    /\ \A c \in Calls : call[c].at = "new" <=> call[c].req = NoReq

\* The retry keeps the promise made to the caller: no success is reported of a
\* transaction that did not land, and none lands that nobody submitted.
KeepsPromise == S!Spec

\* A duplicate that reaches a caller is somebody else's copy: a call never
\* hears its own replay reported as a failure (node_retry.py:128-138), unless
\* the transaction cannot be named.
OwnReplayNotRaised ==
    \A c \in Calls, x \in Nameable :
        /\ call[c].at = "raised"
        /\ call[c].answer = "duplicate"
        /\ call[c].req = S!Submit(x)
        => \E d \in Calls \ {c} : call[d].req = S!Submit(x)

\* Nor is a double submission hidden from the caller that makes it: of two calls
\* with one transaction both return only if one of them was refused and sent it
\* again (node_retry.py:404-408).
DoubleSubmissionHeard ==
    \A c, d \in Calls, x \in Txns :
        /\ c # d
        /\ call[c].at = "returned" /\ call[c].req = S!Submit(x)
        /\ call[d].at = "returned" /\ call[d].req = S!Submit(x)
        => call[c].attempt > 1 \/ call[d].attempt > 1

\* However often the node refuses, a call comes to an end.
EveryCallEnds ==
    \A c \in Calls :
        call[c].at # "new" ~> call[c].at \in {"returned", "raised"}
=============================================================================
