--------------------------- MODULE NodeRetryProofs --------------------------
(* Theorems about the retry, for any number of calls, transactions and       *)
(* attempts.                                                                 *)
EXTENDS NodeRetry, TLAPS

Done(w) == w.at \in {"answered", "returned", "raised"}

\* The counter and the flag of each call tell how often it was sent.
Counted ==
    \A c \in Calls :
        LET w == call[c] IN
        /\ w.at \in {"waiting", "sleeping"} \/ Done(w) => w.attempt >= 1
        /\ w.at = "waiting" \/ Done(w) => (w.replayed <=> w.attempt > 1)
        /\ w.at = "sleeping" => w.replayed /\ w.attempt < MaxAttempts
        /\ w.at = "new" => ~w.replayed
        /\ w.at = "returned" => w.answer = "ok" \/ Recognised(w)
        /\ w.at = "raised" => ~Recognised(w)

\* The submission of x was answered in words of the node's own about x.
Told(w, x, answer) ==
    Done(w) /\ w.req = S!Submit(x) /\ w.answer = answer

\* What the node answered for is in the pool or the ledger.
AnswersTrue ==
    \A c \in Calls, x \in Txns :
        Told(call[c], x, "ok") \/ Told(call[c], x, "duplicate") => x \in landed

\* A copy of x has left call c.
Sent(c, x) ==
    /\ call[c].req = S!Submit(x)
    /\ call[c].at # "waiting" \/ call[c].attempt > 1

\* Every copy has left some call.
CopiesSent == \A x \in inflight \cup landed : \E c \in Calls : Sent(c, x)

\* A duplicate told to a call that sent one copy is another call's.
DuplicatesOfOthers ==
    \A c \in Calls, x \in Txns :
        Told(call[c], x, "duplicate") /\ ~call[c].replayed =>
            \E d \in Calls \ {c} : call[d].req = S!Submit(x)

\* The node takes a transaction once.
TakenOnce ==
    \A c, d \in Calls, x \in Txns :
        Told(call[c], x, "ok") /\ Told(call[d], x, "ok") => c = d

RetryInv ==
    /\ RetryTypeOK /\ Counted /\ AnswersTrue /\ CopiesSent
    /\ DuplicatesOfOthers /\ TakenOnce
-----------------------------------------------------------------------------
\* A submission is known by its transaction.
LEMMA Submissions ==
    ASSUME NEW req \in S!Requests
    PROVE  /\ IsSubmission(req) => req.txn \in Txns /\ req = S!Submit(req.txn)
           /\ \A x \in Txns : req = S!Submit(x) =>
                                IsSubmission(req) /\ req.txn = x
BY DEF S!Requests, S!Submit, IsSubmission

LEMMA NoSubmission == \A x \in Txns : NoReq # S!Submit(x)
BY NoReqAssumption DEF S!Requests, S!Submit

\* An answered call is typed.
LEMMA AnswerTyped ==
    ASSUME NEW w \in Wrapper, NEW a \in NodeSays \cup EdgeSays
    PROVE  [w EXCEPT !.at = "answered", !.answer = a] \in Wrapper
BY DEF Wrapper

\* Each step of a call keeps the types.
LEMMA TypeStep ==
    ASSUME RetryTypeOK, Counted, Next
    PROVE  RetryTypeOK'
<1> USE RetryAssumption, NoReqAssumption
<1>1. ASSUME NEW c \in Calls, NEW req \in S!Requests, Begin(c, req)
      PROVE  RetryTypeOK'
    BY <1>1 DEF RetryTypeOK, Begin, Wrapper
<1>2. ASSUME NEW c \in Calls, NEW answer \in EdgeSays, EdgeAnswers(c, answer)
      PROVE  RetryTypeOK'
  <2>1. call[c].req \in S!Requests
      BY <1>2 DEF RetryTypeOK, Wrapper, EdgeAnswers
  <2>2. call' \in [Calls -> Wrapper]
    <3>1. call[c] \in Wrapper
        BY DEF RetryTypeOK
    <3>2. [call[c] EXCEPT !.at = "answered", !.answer = answer] \in Wrapper
        BY <3>1, AnswerTyped
    <3> QED
        BY <1>2, <3>2 DEF RetryTypeOK, EdgeAnswers, Answer
  <2>3. \A d \in Calls : call'[d].at = "new" <=> call'[d].req = NoReq
      BY <1>2 DEF RetryTypeOK, EdgeAnswers, Answer, Wrapper
  <2>4. inflight' \subseteq Txns /\ landed' \subseteq Txns
      BY <1>2, <2>1, Submissions DEF RetryTypeOK, EdgeAnswers
  <2> QED
      BY <2>2, <2>3, <2>4 DEF RetryTypeOK
<1>3. ASSUME NEW c \in Calls, NodeSubmits(c) PROVE RetryTypeOK'
  <2>1. call[c].req \in S!Requests
      BY <1>3 DEF RetryTypeOK, Wrapper, NodeSubmits
  <2>2. call' \in [Calls -> Wrapper]
      BY <1>3 DEF RetryTypeOK, NodeSubmits, Answer, Wrapper, NodeSays
  <2>3. \A d \in Calls : call'[d].at = "new" <=> call'[d].req = NoReq
      BY <1>3 DEF RetryTypeOK, NodeSubmits, Answer, Wrapper
  <2>4. inflight' \subseteq Txns /\ landed' \subseteq Txns
      BY <1>3, <2>1, Submissions DEF RetryTypeOK, NodeSubmits
  <2> QED
      BY <2>2, <2>3, <2>4 DEF RetryTypeOK
<1>4. ASSUME NEW c \in Calls, NodeReads(c) PROVE RetryTypeOK'
    BY <1>4 DEF RetryTypeOK, NodeReads, Answer, Wrapper, NodeSays
<1>5. ASSUME NEW c \in Calls, Return(c) PROVE RetryTypeOK'
    BY <1>5 DEF RetryTypeOK, Return, Wrapper
<1>6. ASSUME NEW c \in Calls, Raise(c) PROVE RetryTypeOK'
    BY <1>6 DEF RetryTypeOK, Raise, Wrapper
<1>7. ASSUME NEW c \in Calls, Retry(c) PROVE RetryTypeOK'
    BY <1>7, ZenonT(60) DEF RetryTypeOK, Retry, Wrapper
<1>8. ASSUME NEW c \in Calls, Resend(c) PROVE RetryTypeOK'
  <2>1. call[c].attempt + 1 \in 0 .. MaxAttempts
      BY <1>8 DEF RetryTypeOK, Counted, Resend, Wrapper
  <2> QED
      BY <1>8, <2>1 DEF RetryTypeOK, Resend, Wrapper
<1>9. ASSUME NEW x \in Txns, Deliver(x) PROVE RetryTypeOK'
    BY <1>9 DEF RetryTypeOK, Deliver
<1> QED
    BY <1>1, <1>2, <1>3, <1>4, <1>5, <1>6, <1>7, <1>8, <1>9
    DEF Next, Step, Answered

\* What a step of call c must keep for the node's answers to stay true.
LEMMA AnswersKept ==
    ASSUME RetryInv, NEW c \in Calls,
           \A d \in Calls \ {c} : call'[d] = call[d],
           landed \subseteq landed',
           \A x \in Txns : call[c].req = S!Submit(x) =>
                             call'[c].req = S!Submit(x),
           \A x \in Txns, answer \in {"ok", "duplicate"} :
               Told(call'[c], x, answer) =>
                   Told(call[c], x, answer)
                   /\ call'[c].replayed = call[c].replayed
    PROVE  AnswersTrue' /\ DuplicatesOfOthers' /\ TakenOnce'
<1>1. \A d \in Calls, x \in Txns, answer \in {"ok", "duplicate"} :
          Told(call'[d], x, answer) =>
              Told(call[d], x, answer) /\ call'[d].replayed = call[d].replayed
    OBVIOUS
<1>2. \A d \in Calls, x \in Txns :
          call[d].req = S!Submit(x) => call'[d].req = S!Submit(x)
    OBVIOUS
<1>3. AnswersTrue'
    BY <1>1 DEF RetryInv, AnswersTrue
<1>4. DuplicatesOfOthers'
    BY <1>1, <1>2 DEF RetryInv, DuplicatesOfOthers
<1>5. TakenOnce'
    BY <1>1 DEF RetryInv, TakenOnce
<1> QED
    BY <1>3, <1>4, <1>5

\* And for every copy to have left some call.
LEMMA CopiesKept ==
    ASSUME CopiesSent, NEW c \in Calls,
           \A d \in Calls \ {c} : call'[d] = call[d],
           \A x \in Txns : Sent(c, x) => Sent(c, x)',
           \A x \in inflight' \cup landed' :
               x \in Txns /\ (x \in inflight \cup landed \/ Sent(c, x)')
    PROVE  CopiesSent'
<1>1. ASSUME NEW x \in inflight' \cup landed' PROVE \E d \in Calls : Sent(d, x)'
  <2>1. CASE Sent(c, x)'
      BY <2>1
  <2>2. CASE x \in inflight \cup landed
    <3>1. PICK d \in Calls : Sent(d, x)
        BY <2>2 DEF CopiesSent
    <3>2. CASE d = c
        BY <1>1, <3>1, <3>2
    <3>3. CASE d # c
        BY <3>1, <3>3 DEF Sent
    <3> QED
        BY <3>2, <3>3
  <2> QED
      BY <1>1, <2>1, <2>2
<1> QED
    BY <1>1 DEF CopiesSent

\* Each step keeps the strengthened invariant.
LEMMA InvStep ==
    ASSUME RetryInv, Next
    PROVE  RetryInv'
<1> USE RetryAssumption, NoReqAssumption
<1>0. /\ RetryTypeOK /\ Counted /\ AnswersTrue /\ CopiesSent
      /\ DuplicatesOfOthers /\ TakenOnce
    BY DEF RetryInv
<1> USE <1>0
<1>1. ASSUME NEW c \in Calls, NEW req \in S!Requests, Begin(c, req)
      PROVE  RetryInv'
  <2>1. /\ \A d \in Calls : d # c => call'[d] = call[d]
        /\ inflight' = inflight /\ landed' = landed
        /\ call'[c].req = req
        /\ call'[c].at = "waiting"
        /\ call'[c].attempt = 1
        /\ call'[c].replayed = call[c].replayed
        /\ call'[c].answer = call[c].answer
      BY <1>1 DEF Begin, RetryTypeOK, Wrapper
  <2>2. Counted'
      BY <1>1, <2>1
      DEF Begin, Counted, Done, Recognised, HasTxid, TriesAgain, RetryTypeOK, Wrapper
  <2>3. \A x \in Txns, answer \in {"ok", "duplicate"} :
            Told(call'[c], x, answer) =>
                Told(call[c], x, answer)
                /\ call'[c].replayed = call[c].replayed
      BY <1>1, <2>1, Submissions
      DEF Begin, Told, Done, EdgeSays, RetryTypeOK, Wrapper
  <2>4. AnswersTrue' /\ DuplicatesOfOthers' /\ TakenOnce'
    <3>1. \A x \in Txns : call[c].req = S!Submit(x) =>
                           call'[c].req = S!Submit(x)
        BY <1>1, <2>1, NoSubmission DEF Begin, RetryTypeOK
    <3> QED
        BY <2>1, <2>3, <3>1, AnswersKept
  <2>5. CopiesSent'
    <3>1. \A x \in Txns : Sent(c, x) => Sent(c, x)'
        BY <1>1, NoSubmission, <2>1
        DEF Begin, Sent, Counted, Done, RetryTypeOK, Wrapper
    <3>2. \A x \in inflight' \cup landed' :
              x \in Txns /\ (x \in inflight \cup landed \/ Sent(c, x)')
        BY <2>1 DEF RetryTypeOK
    <3> QED
        BY <2>1, <3>1, <3>2, CopiesKept
  <2> QED
      BY <2>2, <2>4, <2>5, TypeStep DEF RetryInv
<1>2. ASSUME NEW c \in Calls, NEW answer \in EdgeSays, EdgeAnswers(c, answer)
      PROVE  RetryInv'
  <2>1. /\ \A d \in Calls : d # c => call'[d] = call[d]
        /\ landed' = landed
        /\ call'[c].req = call[c].req
        /\ call'[c].at = "answered"
        /\ call'[c].attempt = call[c].attempt
        /\ call'[c].replayed = call[c].replayed
        /\ call'[c].answer = answer
      BY <1>2 DEF EdgeAnswers, Answer, RetryTypeOK, Wrapper
  <2>2. Counted'
      BY <1>2, <2>1
      DEF EdgeAnswers, Counted, Done, Recognised, HasTxid, TriesAgain, RetryTypeOK,
          Wrapper
  <2>3. \A x \in Txns, says \in {"ok", "duplicate"} :
            Told(call'[c], x, says) =>
                Told(call[c], x, says)
                /\ call'[c].replayed = call[c].replayed
      BY <1>2, <2>1, Submissions
      DEF EdgeAnswers, Told, Done, EdgeSays, RetryTypeOK, Wrapper
  <2>4. AnswersTrue' /\ DuplicatesOfOthers' /\ TakenOnce'
    <3>1. \A x \in Txns : call[c].req = S!Submit(x) =>
                           call'[c].req = S!Submit(x)
        BY <1>2, <2>1, NoSubmission DEF EdgeAnswers, RetryTypeOK
    <3> QED
        BY <2>1, <2>3, <3>1, AnswersKept
  <2>5. CopiesSent'
    <3>1. \A x \in Txns : Sent(c, x) => Sent(c, x)'
        BY <1>2, <2>1 DEF Sent, Counted, Done, RetryTypeOK, Wrapper
    <3>2. \A x \in inflight' \cup landed' :
              x \in Txns /\ (x \in inflight \cup landed \/ Sent(c, x)')
        BY <1>2, <2>1, Submissions DEF EdgeAnswers, Sent, RetryTypeOK, Wrapper
    <3> QED
        BY <2>1, <3>1, <3>2, CopiesKept
  <2> QED
      BY <2>2, <2>4, <2>5, TypeStep DEF RetryInv
<1>3. ASSUME NEW c \in Calls, NodeSubmits(c)
      PROVE  RetryInv'
  <2>1. /\ \A d \in Calls : d # c => call'[d] = call[d]
        /\ inflight' = inflight /\ landed \subseteq landed'
        /\ call'[c].req = call[c].req
        /\ call'[c].at = "answered"
        /\ call'[c].attempt = call[c].attempt
        /\ call'[c].replayed = call[c].replayed
      BY <1>3 DEF NodeSubmits, Answer, RetryTypeOK, Wrapper
  <2>2. Counted'
      BY <1>3, <2>1
      DEF NodeSubmits, Counted, Done, Recognised, HasTxid, TriesAgain, RetryTypeOK,
          Wrapper
  <2> DEFINE x == call[c].req.txn
  <2>3. /\ x \in Txns /\ call[c].req = S!Submit(x)
        /\ \A y \in Txns : call[c].req = S!Submit(y) => y = x
    <3>1. call[c].req \in S!Requests
        BY <1>3 DEF NodeSubmits, RetryTypeOK, Wrapper
    <3> QED
        BY <1>3, <3>1, Submissions DEF NodeSubmits
  <2> HIDE DEF x
  <2>4. AnswersTrue' /\ DuplicatesOfOthers' /\ TakenOnce'
    <3>1. CASE x \in landed /\ call'[c].answer = "duplicate"
      <4>1. AnswersTrue'
          BY <2>1, <2>3, <3>1 DEF AnswersTrue, Told
      <4>2. DuplicatesOfOthers'
        <5>1. ASSUME ~call[c].replayed
              PROVE  \E d \in Calls \ {c} : call[d].req = S!Submit(x)
          <6>1. ~Sent(c, x)
              BY <1>3, <5>1 DEF NodeSubmits, Sent, Counted, Done
          <6> QED
              BY <3>1, <6>1 DEF CopiesSent, Sent
        <5> QED
            BY <2>1, <2>3, <5>1 DEF DuplicatesOfOthers, Told
      <4>3. TakenOnce'
          BY <2>1, <3>1 DEF TakenOnce, Told
      <4> QED
          BY <4>1, <4>2, <4>3
    <3>2. CASE x \notin landed /\ call'[c].answer = "ok" /\ x \in landed'
      <4>1. AnswersTrue'
          BY <2>1, <2>3, <3>2 DEF AnswersTrue, Told
      <4>2. DuplicatesOfOthers'
          BY <2>1, <2>3, <3>2 DEF DuplicatesOfOthers, Told
      <4>3. TakenOnce'
          BY <2>1, <2>3, <3>2 DEF TakenOnce, AnswersTrue, Told
      <4> QED
          BY <4>1, <4>2, <4>3
    <3>3. CASE call'[c].answer = "invalid"
        BY <2>1, <3>3, AnswersKept DEF Told
    <3> QED
        BY <1>3, <3>1, <3>2, <3>3
        DEF NodeSubmits, Answer, RetryTypeOK, Wrapper, x
  <2>5. CopiesSent'
    <3>1. \A y \in Txns : Sent(c, y) => Sent(c, y)'
        BY <1>3, <2>1 DEF Sent, Counted, Done, RetryTypeOK, Wrapper
    <3>2. \A y \in inflight' \cup landed' :
              y \in Txns /\ (y \in inflight \cup landed \/ Sent(c, y)')
        BY <1>3, <2>1, Submissions DEF NodeSubmits, Sent, RetryTypeOK, Wrapper
    <3> QED
        BY <2>1, <3>1, <3>2, CopiesKept
  <2> QED
      BY <2>2, <2>4, <2>5, TypeStep DEF RetryInv
<1>4. ASSUME NEW c \in Calls, NodeReads(c)
      PROVE  RetryInv'
  <2>1. /\ \A d \in Calls : d # c => call'[d] = call[d]
        /\ inflight' = inflight /\ landed' = landed
        /\ call'[c].req = call[c].req
        /\ call'[c].at = "answered"
        /\ call'[c].attempt = call[c].attempt
        /\ call'[c].replayed = call[c].replayed
      BY <1>4 DEF NodeReads, Answer, RetryTypeOK, Wrapper
  <2>2. Counted'
      BY <1>4, <2>1
      DEF NodeReads, Counted, Done, Recognised, HasTxid, TriesAgain, RetryTypeOK,
          Wrapper
  <2>0. call[c].req \in S!Requests
      BY <1>4 DEF NodeReads, RetryTypeOK, Wrapper
  <2>3. \A x \in Txns, answer \in {"ok", "duplicate"} :
            Told(call'[c], x, answer) =>
                Told(call[c], x, answer)
                /\ call'[c].replayed = call[c].replayed
      BY <1>4, <2>0, <2>1, Submissions
      DEF NodeReads, Told, Done, EdgeSays, RetryTypeOK, Wrapper
  <2>4. AnswersTrue' /\ DuplicatesOfOthers' /\ TakenOnce'
    <3>1. \A x \in Txns : call[c].req = S!Submit(x) =>
                           call'[c].req = S!Submit(x)
        BY <1>4, <2>1, NoSubmission DEF NodeReads, RetryTypeOK
    <3> QED
        BY <2>1, <2>3, <3>1, AnswersKept
  <2>5. CopiesSent'
    <3>1. \A x \in Txns : Sent(c, x) => Sent(c, x)'
        BY <1>4, <2>1 DEF Sent, Counted, Done, RetryTypeOK, Wrapper
    <3>2. \A x \in inflight' \cup landed' :
              x \in Txns /\ (x \in inflight \cup landed \/ Sent(c, x)')
        BY <2>1 DEF RetryTypeOK
    <3> QED
        BY <2>1, <3>1, <3>2, CopiesKept
  <2> QED
      BY <2>2, <2>4, <2>5, TypeStep DEF RetryInv
<1>5. ASSUME NEW c \in Calls, Return(c)
      PROVE  RetryInv'
  <2>1. /\ \A d \in Calls : d # c => call'[d] = call[d]
        /\ inflight' = inflight /\ landed' = landed
        /\ call'[c].req = call[c].req
        /\ call'[c].at = "returned"
        /\ call'[c].attempt = call[c].attempt
        /\ call'[c].replayed = call[c].replayed
        /\ call'[c].answer = call[c].answer
      BY <1>5 DEF Return, RetryTypeOK, Wrapper
  <2>2. Counted'
      BY <1>5, <2>1
      DEF Return, Counted, Done, Recognised, HasTxid, TriesAgain, RetryTypeOK, Wrapper
  <2>3. \A x \in Txns, answer \in {"ok", "duplicate"} :
            Told(call'[c], x, answer) =>
                Told(call[c], x, answer)
                /\ call'[c].replayed = call[c].replayed
      BY <1>5, <2>1, Submissions
      DEF Return, Told, Done, EdgeSays, RetryTypeOK, Wrapper
  <2>4. AnswersTrue' /\ DuplicatesOfOthers' /\ TakenOnce'
    <3>1. \A x \in Txns : call[c].req = S!Submit(x) =>
                           call'[c].req = S!Submit(x)
        BY <1>5, <2>1, NoSubmission DEF Return, RetryTypeOK
    <3> QED
        BY <2>1, <2>3, <3>1, AnswersKept
  <2>5. CopiesSent'
    <3>1. \A x \in Txns : Sent(c, x) => Sent(c, x)'
        BY <1>5, <2>1 DEF Sent, Counted, Done, RetryTypeOK, Wrapper
    <3>2. \A x \in inflight' \cup landed' :
              x \in Txns /\ (x \in inflight \cup landed \/ Sent(c, x)')
        BY <2>1 DEF RetryTypeOK
    <3> QED
        BY <2>1, <3>1, <3>2, CopiesKept
  <2> QED
      BY <2>2, <2>4, <2>5, TypeStep DEF RetryInv
<1>6. ASSUME NEW c \in Calls, Raise(c)
      PROVE  RetryInv'
  <2>1. /\ \A d \in Calls : d # c => call'[d] = call[d]
        /\ inflight' = inflight /\ landed' = landed
        /\ call'[c].req = call[c].req
        /\ call'[c].at = "raised"
        /\ call'[c].attempt = call[c].attempt
        /\ call'[c].replayed = call[c].replayed
        /\ call'[c].answer = call[c].answer
      BY <1>6 DEF Raise, RetryTypeOK, Wrapper
  <2>2. Counted'
      BY <1>6, <2>1
      DEF Raise, Counted, Done, Recognised, HasTxid, TriesAgain, RetryTypeOK, Wrapper
  <2>3. \A x \in Txns, answer \in {"ok", "duplicate"} :
            Told(call'[c], x, answer) =>
                Told(call[c], x, answer)
                /\ call'[c].replayed = call[c].replayed
      BY <1>6, <2>1, Submissions
      DEF Raise, Told, Done, EdgeSays, RetryTypeOK, Wrapper
  <2>4. AnswersTrue' /\ DuplicatesOfOthers' /\ TakenOnce'
    <3>1. \A x \in Txns : call[c].req = S!Submit(x) =>
                           call'[c].req = S!Submit(x)
        BY <1>6, <2>1, NoSubmission DEF Raise, RetryTypeOK
    <3> QED
        BY <2>1, <2>3, <3>1, AnswersKept
  <2>5. CopiesSent'
    <3>1. \A x \in Txns : Sent(c, x) => Sent(c, x)'
        BY <1>6, <2>1 DEF Sent, Counted, Done, RetryTypeOK, Wrapper
    <3>2. \A x \in inflight' \cup landed' :
              x \in Txns /\ (x \in inflight \cup landed \/ Sent(c, x)')
        BY <2>1 DEF RetryTypeOK
    <3> QED
        BY <2>1, <3>1, <3>2, CopiesKept
  <2> QED
      BY <2>2, <2>4, <2>5, TypeStep DEF RetryInv
<1>7. ASSUME NEW c \in Calls, Retry(c)
      PROVE  RetryInv'
  <2>1. /\ \A d \in Calls : d # c => call'[d] = call[d]
        /\ inflight' = inflight /\ landed' = landed
        /\ call'[c].req = call[c].req
        /\ call'[c].at = "sleeping"
        /\ call'[c].attempt = call[c].attempt
        /\ call'[c].replayed = TRUE
        /\ call'[c].answer = call[c].answer
      BY <1>7 DEF Retry, RetryTypeOK, Wrapper
  <2>2. Counted'
      BY <1>7, <2>1
      DEF Retry, Counted, Done, Recognised, HasTxid, TriesAgain, RetryTypeOK, Wrapper
  <2>3. \A x \in Txns, answer \in {"ok", "duplicate"} :
            Told(call'[c], x, answer) =>
                Told(call[c], x, answer)
                /\ call'[c].replayed = call[c].replayed
      BY <1>7, <2>1, Submissions
      DEF Retry, Told, Done, EdgeSays, RetryTypeOK, Wrapper
  <2>4. AnswersTrue' /\ DuplicatesOfOthers' /\ TakenOnce'
    <3>1. \A x \in Txns : call[c].req = S!Submit(x) =>
                           call'[c].req = S!Submit(x)
        BY <1>7, <2>1, NoSubmission DEF Retry, RetryTypeOK
    <3> QED
        BY <2>1, <2>3, <3>1, AnswersKept
  <2>5. CopiesSent'
    <3>1. \A x \in Txns : Sent(c, x) => Sent(c, x)'
        BY <1>7, <2>1 DEF Sent, Counted, Done, RetryTypeOK, Wrapper
    <3>2. \A x \in inflight' \cup landed' :
              x \in Txns /\ (x \in inflight \cup landed \/ Sent(c, x)')
        BY <2>1 DEF RetryTypeOK
    <3> QED
        BY <2>1, <3>1, <3>2, CopiesKept
  <2> QED
      BY <2>2, <2>4, <2>5, TypeStep DEF RetryInv
<1>8. ASSUME NEW c \in Calls, Resend(c)
      PROVE  RetryInv'
  <2>1. /\ \A d \in Calls : d # c => call'[d] = call[d]
        /\ inflight' = inflight /\ landed' = landed
        /\ call'[c].req = call[c].req
        /\ call'[c].at = "waiting"
        /\ call'[c].attempt = call[c].attempt + 1
        /\ call'[c].replayed = call[c].replayed
        /\ call'[c].answer = "none"
      BY <1>8 DEF Resend, RetryTypeOK, Wrapper
  <2>2. Counted'
      BY <1>8, <2>1
      DEF Resend, Counted, Done, Recognised, HasTxid, TriesAgain, RetryTypeOK, Wrapper
  <2>3. \A x \in Txns, answer \in {"ok", "duplicate"} :
            Told(call'[c], x, answer) =>
                Told(call[c], x, answer)
                /\ call'[c].replayed = call[c].replayed
      BY <1>8, <2>1, Submissions
      DEF Resend, Told, Done, EdgeSays, RetryTypeOK, Wrapper
  <2>4. AnswersTrue' /\ DuplicatesOfOthers' /\ TakenOnce'
    <3>1. \A x \in Txns : call[c].req = S!Submit(x) =>
                           call'[c].req = S!Submit(x)
        BY <1>8, <2>1, NoSubmission DEF Resend, RetryTypeOK
    <3> QED
        BY <2>1, <2>3, <3>1, AnswersKept
  <2>5. CopiesSent'
    <3>1. \A x \in Txns : Sent(c, x) => Sent(c, x)'
        BY <1>8, <2>1 DEF Resend, Sent, Counted, Done, RetryTypeOK, Wrapper
    <3>2. \A x \in inflight' \cup landed' :
              x \in Txns /\ (x \in inflight \cup landed \/ Sent(c, x)')
        BY <2>1 DEF RetryTypeOK
    <3> QED
        BY <2>1, <3>1, <3>2, CopiesKept
  <2> QED
      BY <2>2, <2>4, <2>5, TypeStep DEF RetryInv
<1>9. ASSUME NEW x \in Txns, Deliver(x) PROVE RetryInv'
    BY <1>9, TypeStep
    DEF Deliver, RetryInv, Counted, AnswersTrue, CopiesSent, Sent,
        DuplicatesOfOthers, TakenOnce, Done
<1> QED
    BY <1>1, <1>2, <1>3, <1>4, <1>5, <1>6, <1>7, <1>8, <1>9
    DEF Next, Step, Answered

THEOREM RetryInvariant == Spec => []RetryInv
<1>1. Init => RetryInv
  <2> SUFFICES ASSUME Init PROVE RetryInv
      OBVIOUS
  <2> USE RetryAssumption
  <2>1. RetryTypeOK
      BY DEF Init, RetryTypeOK, Wrapper
  <2>2. \A c \in Calls : call[c].at = "new" /\ ~call[c].replayed
      BY DEF Init
  <2>3. Counted
      BY <2>2 DEF Counted, Done
  <2>4. AnswersTrue /\ DuplicatesOfOthers /\ TakenOnce
      BY <2>2 DEF AnswersTrue, DuplicatesOfOthers, TakenOnce, Told, Done
  <2>5. CopiesSent
      BY DEF Init, CopiesSent
  <2> QED
      BY <2>1, <2>3, <2>4, <2>5 DEF RetryInv
<1>2. RetryInv /\ [Next]_vars => RetryInv'
  <2>1. CASE UNCHANGED vars
      BY <2>1 DEF vars, RetryInv, RetryTypeOK, Counted, AnswersTrue,
                  CopiesSent, Sent, DuplicatesOfOthers, TakenOnce
  <2> QED
      BY <2>1, InvStep
<1> QED
    BY <1>1, <1>2, PTL DEF Spec

\* A call's counter never passes the limit, and its variables agree.
THEOREM RetryTypeCorrect == Spec => []RetryTypeOK
<1>1. RetryInv => RetryTypeOK
    BY DEF RetryInv
<1> QED
    BY <1>1, RetryInvariant, PTL

\* No call hears its own replay as a failure, if its transaction can be named.
THEOREM OwnReplaysRecognised == Spec => []OwnReplayNotRaised
<1>1. RetryInv => OwnReplayNotRaised
  <2> SUFFICES ASSUME RetryInv, NEW c \in Calls, NEW x \in Nameable,
                      call[c].at = "raised", call[c].answer = "duplicate",
                      call[c].req = S!Submit(x)
               PROVE  \E d \in Calls \ {c} : call[d].req = S!Submit(x)
      BY DEF OwnReplayNotRaised
  <2>1. x \in Txns /\ S!Submit(x) \in S!Requests
      BY RetryAssumption DEF S!Submit, S!Requests
  <2>2. ~call[c].replayed
      BY <2>1, Submissions DEF RetryInv, Counted, Recognised, HasTxid, IsDuplicate
  <2> QED
      BY <2>1, <2>2 DEF RetryInv, DuplicatesOfOthers, Told, Done
<1> QED
    BY <1>1, RetryInvariant, PTL

\* Two calls with one transaction both return only if one of them was refused.
THEOREM DoubleSubmissionsHeard == Spec => []DoubleSubmissionHeard
<1>1. RetryInv => DoubleSubmissionHeard
  <2> SUFFICES ASSUME RetryInv, NEW c \in Calls, NEW d \in Calls, c # d,
                      NEW x \in Txns,
                      call[c].at = "returned", call[c].req = S!Submit(x),
                      call[d].at = "returned", call[d].req = S!Submit(x),
                      ~(call[c].attempt > 1), ~(call[d].attempt > 1)
               PROVE  FALSE
      BY DEF DoubleSubmissionHeard
  <2>1. call[c].answer = "ok" /\ call[d].answer = "ok"
      BY DEF RetryInv, Counted, Recognised, HasTxid, Done
  <2> QED
      BY <2>1 DEF RetryInv, TakenOnce, Told, Done
<1> QED
    BY <1>1, RetryInvariant, PTL

-----------------------------------------------------------------------------
\* A step of the retry is a step of Submission or none of it.
LEMMA PromiseStep ==
    ASSUME RetryInv, RetryInv', Next
    PROVE  S!Next \/ UNCHANGED S!subVars
<1>0. call \in [Calls -> Wrapper]
    BY DEF RetryInv, RetryTypeOK
<1>1. ASSUME NEW c \in Calls, NEW req \in S!Requests, Begin(c, req)
      PROVE  S!Ask(c, req)
    BY <1>0, <1>1 DEF Begin, S!Ask, RetryInv, RetryTypeOK, Wrapper
<1>2. ASSUME NEW c \in Calls, NEW answer \in EdgeSays, EdgeAnswers(c, answer)
      PROVE  UNCHANGED S!subVars
    BY <1>0, <1>2 DEF EdgeAnswers, Answer, S!subVars, Wrapper
<1>3. ASSUME NEW c \in Calls, NodeSubmits(c)
      PROVE  (\E x \in Txns : S!Land(x)) \/ UNCHANGED S!subVars
    BY <1>0, <1>3, Submissions
    DEF NodeSubmits, Answer, S!subVars, S!Land, Wrapper, RetryInv, RetryTypeOK
<1>4. ASSUME NEW c \in Calls, NodeReads(c)
      PROVE  UNCHANGED S!subVars
    BY <1>0, <1>4 DEF NodeReads, Answer, S!subVars, Wrapper
<1>5. ASSUME NEW c \in Calls, Return(c)
      PROVE  S!Succeed(c)
    BY <1>0, <1>5, Submissions, ZenonT(60)
    DEF Return, S!Succeed, RetryInv, RetryTypeOK, Wrapper, AnswersTrue, Told,
        Done, Recognised, HasTxid, IsDuplicate
<1>6. ASSUME NEW c \in Calls, Raise(c)
      PROVE  S!Fail(c)
    BY <1>0, <1>6, ZenonT(60) DEF Raise, S!Fail, RetryInv, RetryTypeOK, Wrapper
<1>7. ASSUME NEW c \in Calls, Retry(c) \/ Resend(c)
      PROVE  UNCHANGED S!subVars
    BY <1>0, <1>7 DEF Retry, Resend, S!subVars, Wrapper
<1>8. ASSUME NEW x \in Txns, Deliver(x)
      PROVE  S!Land(x) \/ UNCHANGED S!subVars
    BY <1>0, <1>8 DEF Deliver, S!Land, S!subVars, RetryInv, CopiesSent, Sent
<1> QED
    BY <1>1, <1>2, <1>3, <1>4, <1>5, <1>6, <1>7, <1>8
    DEF Next, Step, Answered, S!Next

\* The retry implements Submission: what it reports as done has landed, and
\* nothing lands that nobody submitted.
THEOREM PromiseKept == Spec => KeepsPromise
<1>1. Init => S!Init
    BY DEF Init, S!Init
<1>2. RetryInv /\ RetryInv' /\ [Next]_vars => [S!Next]_(S!subVars)
  <2>1. CASE UNCHANGED vars
      BY <2>1 DEF vars, S!subVars
  <2> QED
      BY <2>1, PromiseStep
<1> QED
    BY <1>1, <1>2, RetryInvariant, PTL DEF Spec, KeepsPromise, S!Spec
=============================================================================
