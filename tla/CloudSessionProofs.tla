------------------------- MODULE CloudSessionProofs -------------------------
(***************************************************************************)
(* Proofs about CloudSession, for every set of calls and every choice of   *)
(* its delays.  Most of it is about one call at a time, Good and Patient;  *)
(* the lock is about all of them.                                          *)
(***************************************************************************)
EXTENDS CloudSession, SequenceTheorems, TLAPS

\* What holds of a call wherever it is.
Good(call) ==
    /\ call \in Call
    /\ call.pc # "done" => call.result = "none"
    /\ call.pc \notin {"idle", "done"} => call.kind # "none"
    /\ call.pc = "idle" => ~call.force
    /\ call.pc = "sent" => call.using # "none" /\ call.kind \in Request
    /\ call.pc = "sleep" => call.kind \in Request
    \* a renewal is forced because a token was refused ...
    /\ call.kind \in Request /\ call.force => call.refused # "none"
    \* ... and a request is repeated only when that one has been replaced
    /\ call.retried => call.refused = "replaced"
    /\ call.result \in AuthFailure => call.failed \cap {"login", "proactive"} # {}

\* During a pause, a call on its way to be sent has passed its check before it.
Patient(call, pause) == Underway(call) /\ pause > 0 => call.early

-----------------------------------------------------------------------------
\* What the helpers do to a call

\* A call that has not begun.
LEMMA IdleGood == Good(Idle) /\ ~Underway(Idle)
<1>1. 0 \in 0..ShortThreshold
  BY RetryAssumption
<1>2. Idle \in Call
  BY <1>1 DEF Idle, Call, Token, Result
<1>3. QED
  BY <1>2 DEF Good, Idle, Underway, AuthFailure, Request

\* A finished call keeps the failures that explain its result.
LEMMA FinishGood ==
    ASSUME NEW call \in Call, NEW result \in Result \ {"none"},
           result \in AuthFailure => call.failed \cap {"login", "proactive"} # {}
    PROVE  /\ Good(Finish(call, result))
           /\ Finish(call, result).pc = "done"
           /\ Finish(call, result).result = result
           /\ ~Underway(Finish(call, result))
<1>1. 0 \in 0..ShortThreshold
  BY RetryAssumption
<1> DEFINE kept == IF result \in AuthFailure THEN call.failed ELSE {}
<1>2. kept \in SUBSET Operation
  BY DEF Call
<1>3. Idle \in Call
  BY <1>1 DEF Idle, Call, Token, Result
<1>4. Finish(call, result) = [Idle EXCEPT !.pc = "done", !.result = result, !.failed = kept]
  BY DEF Finish
<1> HIDE DEF kept
<1>5. Finish(call, result) \in Call
  BY <1>2, <1>3, <1>4 DEF Call
<1>6. /\ Finish(call, result).pc = "done" /\ Finish(call, result).result = result
      /\ Finish(call, result).failed = kept
      /\ Finish(call, result).kind = "none" /\ ~Finish(call, result).retried
  BY <1>4 DEF Idle
<1>7. result \in AuthFailure => kept \cap {"login", "proactive"} # {}
  BY DEF kept
<1>8. QED
  BY <1>5, <1>6, <1>7 DEF Good, Underway, Request

\* A 429, or the deadline of an earlier one.
LEMMA RateLimitedGood ==
    ASSUME NEW call, Good(call), call.pc # "done", NEW r \in Nat
    PROVE  /\ Good(RateLimited(call, r))
           /\ RateLimited(call, r).pc \in {"sleep", "done"}
           /\ RateLimited(call, r).result \in {"none", "rate_limited"}
           /\ ~Underway(RateLimited(call, r))
<1>1. CASE call.kind = "patch" /\ ~call.resent /\ r <= ShortThreshold
  <2>1. r \in 0..ShortThreshold
    BY <1>1, RetryAssumption
  <2>2. RateLimited(call, r) = [call EXCEPT !.pc = "sleep", !.sleep = r, !.resent = TRUE]
    BY <1>1 DEF RateLimited
  <2>3. RateLimited(call, r) \in Call
    BY <2>1, <2>2 DEF Good, Call
  <2>4. /\ RateLimited(call, r).pc = "sleep" /\ RateLimited(call, r).kind = "patch"
        /\ RateLimited(call, r).result = "none" /\ RateLimited(call, r).force = call.force
        /\ RateLimited(call, r).retried = call.retried
        /\ RateLimited(call, r).refused = call.refused
    BY <1>1, <2>2 DEF Good, Call
  <2>5. QED
    BY <2>3, <2>4, <1>1 DEF Good, Underway, Request, AuthFailure
<1>2. CASE ~(call.kind = "patch" /\ ~call.resent /\ r <= ShortThreshold)
  <2>1. RateLimited(call, r) = Finish(call, "rate_limited")
    BY <1>2 DEF RateLimited
  <2>2. QED
    BY <2>1, FinishGood DEF Good, Result, AuthFailure
<1>3. QED
  BY <1>1, <1>2

\* Asking for a token: by force only to replace a refused one, or for a socket.
LEMMA AskTokenGood ==
    ASSUME NEW call, Good(call), call.pc # "done", call.kind # "none", NEW force \in BOOLEAN,
           call.kind \in Request /\ force => call.refused # "none"
    PROVE  /\ Good(AskToken(call, force))
           /\ AskToken(call, force).pc = "queued"
           /\ AskToken(call, force).result = "none"
           /\ AskToken(call, force).force = force
           /\ AskToken(call, force).kind = call.kind
BY DEF AskToken, Good, Call, AuthFailure

\* The head of a request: it goes on only when no pause is on.
LEMMA BeginRequestGood ==
    ASSUME NEW call, Good(call), call.pc # "done", call.kind \in Request,
           NEW retried \in BOOLEAN, retried => call.refused = "replaced",
           limit \in Nat
    PROVE  /\ Good(BeginRequest(call, retried))
           /\ BeginRequest(call, retried).pc \in {"queued", "sleep", "done"}
           /\ BeginRequest(call, retried).result \in {"none", "rate_limited"}
           /\ Patient(BeginRequest(call, retried), limit)
<1>1. CASE limit > 0
  <2>1. BeginRequest(call, retried) = RateLimited(call, limit)
    BY <1>1 DEF BeginRequest
  <2>2. QED
    BY <2>1, RateLimitedGood DEF Patient
<1>2. CASE ~(limit > 0)
  <2> DEFINE fresh == [call EXCEPT !.retried = retried, !.early = FALSE]
  <2>a. fresh \in Call
    BY DEF Good, Call
  <2>b. /\ fresh.pc = call.pc /\ fresh.kind = call.kind /\ fresh.result = call.result
        /\ fresh.using = call.using /\ fresh.force = call.force
        /\ fresh.refused = call.refused /\ fresh.failed = call.failed
        /\ fresh.retried = retried
    BY DEF Good, Call
  <2>1. Good(fresh) /\ fresh.pc # "done" /\ fresh.kind = call.kind
    <3> HIDE DEF fresh
    <3>1. QED
      BY <2>a, <2>b DEF Good
  <2>2. BeginRequest(call, retried) = AskToken(fresh, FALSE)
    BY <1>2 DEF BeginRequest
  <2> HIDE DEF fresh
  <2>3. /\ Good(AskToken(fresh, FALSE)) /\ AskToken(fresh, FALSE).pc = "queued"
        /\ AskToken(fresh, FALSE).result = "none"
    <3>1. fresh.kind # "none"
      BY <2>1 DEF Request
    <3>2. QED
      BY <2>1, <3>1, AskTokenGood, Zenon
  <2>4. Patient(BeginRequest(call, retried), limit)
    BY <1>2 DEF Patient
  <2>5. QED
    BY <2>2, <2>3, <2>4
<1>3. QED
  BY <1>1, <1>2

\* A token for a call: it is sent, or, when it was forced, begun again.
LEMMA WithTokenGood ==
    ASSUME NEW call, Good(call), call.pc # "done", call.kind # "none", limit \in Nat,
           call.force => call.refused # "current"
    PROVE  /\ Good(WithToken(call))
           /\ WithToken(call).pc \in {"queued", "sleep", "sent", "done"}
           /\ WithToken(call).result \in {"none", "rate_limited", "ok"}
           /\ Patient(WithToken(call), limit)
<1>1. CASE call.kind \notin Request
  <2>1. WithToken(call) = Finish(call, "ok")
    BY <1>1 DEF WithToken
  <2>2. QED
    BY <2>1, FinishGood DEF Good, Result, AuthFailure, Patient
<1>2. CASE call.kind \in Request /\ call.force
  <2> DEFINE next == [call EXCEPT !.operation = "none"]
  <2>1. call.refused = "replaced"
    BY <1>2 DEF Good, Call, Token
  <2>2. WithToken(call) = BeginRequest([call EXCEPT !.operation = "none"], TRUE)
    BY <1>2 DEF WithToken
  <2>3. Good(next) /\ next.pc # "done" /\ next.kind \in Request /\ next.refused = "replaced"
    BY <1>2, <2>1 DEF Good, Call
  <2> HIDE DEF next
  <2>4. QED
    BY <2>2, <2>3, BeginRequestGood DEF next
<1>3. CASE call.kind \in Request /\ ~call.force
  <2>1. WithToken(call) = [call EXCEPT !.pc = "sent", !.operation = "none",
                                       !.using = "current", !.early = FALSE]
    BY <1>3 DEF WithToken
  <2>2. QED
    BY <1>3, <2>1 DEF Good, Call, Operation, Token, Patient, Underway
<1>4. QED
  BY <1>1, <1>2, <1>3

\* A token stored by one call outdates what all of them hold.
LEMMA OutdatedGood ==
    ASSUME NEW call, Good(call)
    PROVE  /\ Good(Outdated(call))
           /\ Outdated(call).refused # "current"
           /\ Outdated(call).pc = call.pc /\ Outdated(call).kind = call.kind
           /\ Outdated(call).result = call.result
           /\ Outdated(call).force = call.force /\ Outdated(call).early = call.early
<1>1. \A t \in Token : /\ Outdate(t) \in Token
                       /\ Outdate(t) # "current"
                       /\ Outdate(t) = "none" <=> t = "none"
                       /\ t = "replaced" => Outdate(t) = "replaced"
  BY DEF Token, Outdate
<1>2. QED
  BY <1>1 DEF Outdated, Good, Call
-----------------------------------------------------------------------------
\* The lock's queue

\* No call is in the queue twice.
Distinct(line) == \A i, j \in 1..Len(line) : line[i] = line[j] => i = j

\* A call that leaves the queue leaves the others in their order.
LEMMA WithoutKeepsOthers ==
    ASSUME queue \in Seq(Caller), Distinct(queue), NEW c \in Caller
    PROVE  /\ Without(c) \in Seq(Caller)
           /\ Distinct(Without(c))
           /\ \A d \in Caller : (\E i \in DOMAIN Without(c) : Without(c)[i] = d)
                                <=> d # c /\ (\E i \in DOMAIN queue : queue[i] = d)
           /\ \A d \in Caller : d # c /\ queue # <<>> /\ Head(queue) = d
                                => Without(c) # <<>> /\ Head(Without(c)) = d
<1>1. /\ Len(queue) \in Nat /\ DOMAIN queue = 1..Len(queue)
      /\ \A i \in 1..Len(queue) : queue[i] \in Caller
  BY LenProperties, ElementOfSeq
<1>2. CASE ~\E i \in DOMAIN queue : queue[i] = c
  BY <1>2 DEF Without
<1>3. CASE \E i \in DOMAIN queue : queue[i] = c
  <2> DEFINE n == Len(queue) - 1
             p == Place(c)
             rest == [i \in 1..n |-> IF i < p THEN queue[i] ELSE queue[i + 1]]
  <2>1. p \in 1..Len(queue) /\ queue[p] = c
    BY <1>1, <1>3 DEF Place
  <2>2. n \in Nat
    BY <1>1, <2>1
  <2>3. Without(c) = rest
    BY <1>3 DEF Without
  <2>4. \A i \in 1..n : /\ i < p => i \in 1..Len(queue) /\ rest[i] = queue[i]
                        /\ ~(i < p) => i + 1 \in 1..Len(queue) /\ rest[i] = queue[i + 1]
    BY <1>1, <2>1
  <2>5. \A i \in 1..n : rest[i] \in Caller
    BY <1>1, <2>4
  <2> HIDE DEF p
  <2>6. rest \in [1..n -> Caller]
    BY <2>5
  <2>7. rest \in Seq(Caller) /\ Len(rest) = n /\ DOMAIN rest = 1..n
    BY <2>2, <2>6, LenProperties, SeqDef
  <2> HIDE DEF rest
  <2>8. Distinct(rest)
    BY <1>1, <2>1, <2>2, <2>4, <2>7 DEF Distinct
  <2>9. ASSUME NEW d \in Caller
        PROVE  (\E i \in DOMAIN rest : rest[i] = d) <=> d # c /\ (\E i \in DOMAIN queue : queue[i] = d)
    <3>1. ASSUME NEW i \in 1..n, rest[i] = d
          PROVE  d # c /\ (\E j \in DOMAIN queue : queue[j] = d)
      BY <1>1, <2>1, <2>4, <3>1 DEF Distinct
    <3>2. ASSUME d # c, NEW j \in 1..Len(queue), queue[j] = d
          PROVE  \E i \in 1..n : rest[i] = d
      <4>1. CASE j < p
        <5>1. j \in 1..n /\ rest[j] = d
          BY <1>1, <2>1, <2>4, <3>2, <4>1
        <5>2. QED
          BY <5>1
      <4>2. CASE ~(j < p)
        <5>1. j # p
          BY <2>1, <3>2
        <5>2. j - 1 \in 1..n /\ ~(j - 1 < p)
          BY <1>1, <2>1, <4>2, <5>1
        <5>3. rest[j - 1] = queue[(j - 1) + 1] /\ (j - 1) + 1 = j
          BY <2>4, <5>2
        <5>4. QED
          BY <3>2, <5>2, <5>3
      <4>3. QED
        BY <4>1, <4>2
    <3>3. QED
      BY <1>1, <2>7, <3>1, <3>2
  <2>10. ASSUME NEW d \in Caller, d # c, queue # <<>>, Head(queue) = d
         PROVE  rest # <<>> /\ Head(rest) = d
    <3>1. queue[1] = d
      BY <2>10
    <3>2. p # 1
      BY <2>1, <2>10, <3>1
    <3>3. 1 \in 1..n /\ 1 < p
      BY <1>1, <2>1, <2>2, <3>2
    <3>4. rest[1] = d
      BY <2>4, <3>1, <3>3
    <3>5. QED
      BY <2>7, <3>3, <3>4
  <2>11. QED
    BY <2>3, <2>7, <2>8, <2>9, <2>10
<1>4. QED
  BY <1>2, <1>3
\* The queue holds the calls that wait or exchange, once, and who exchanges leads.
QueueInv ==
    /\ queue \in Seq(Caller)
    /\ Distinct(queue)
    /\ SingleFlight

\* A call that was not in the queue, or has just left it, goes to its end.
LEMMA WithoutThenLast ==
    ASSUME queue \in Seq(Caller), Distinct(queue), NEW c \in Caller
    PROVE  LET last == Append(Without(c), c) IN
           /\ last \in Seq(Caller)
           /\ Distinct(last)
           /\ \A d \in Caller : (\E i \in DOMAIN last : last[i] = d)
                                <=> d = c \/ (\E i \in DOMAIN queue : queue[i] = d)
           /\ \A d \in Caller : d # c /\ queue # <<>> /\ Head(queue) = d
                                => last # <<>> /\ Head(last) = d
<1> DEFINE rest == Without(c)
           last == Append(rest, c)
<1>1. /\ rest \in Seq(Caller)
      /\ Distinct(rest)
      /\ \A d \in Caller : (\E i \in DOMAIN rest : rest[i] = d)
                           <=> d # c /\ (\E i \in DOMAIN queue : queue[i] = d)
      /\ \A d \in Caller : d # c /\ queue # <<>> /\ Head(queue) = d
                           => rest # <<>> /\ Head(rest) = d
  BY WithoutKeepsOthers
<1> HIDE DEF rest
<1>2. /\ last \in Seq(Caller) /\ Len(rest) \in Nat /\ Len(last) = Len(rest) + 1
      /\ DOMAIN rest = 1..Len(rest) /\ DOMAIN last = 1..Len(rest) + 1
      /\ last[Len(rest) + 1] = c
      /\ \A i \in 1..Len(rest) : last[i] = rest[i]
  BY <1>1, AppendProperties, LenProperties
<1> HIDE DEF last
<1>3. \A i \in 1..Len(rest) : rest[i] # c
  BY <1>1, <1>2
<1>4. Distinct(last)
  BY <1>1, <1>2, <1>3 DEF Distinct
<1>5. \A d \in Caller : (\E i \in DOMAIN last : last[i] = d)
                        <=> d = c \/ (\E i \in DOMAIN queue : queue[i] = d)
  <2>1. \A d \in Caller : (\E i \in DOMAIN last : last[i] = d)
                          <=> d = c \/ (\E i \in DOMAIN rest : rest[i] = d)
    BY <1>2
  <2>2. QED
    BY <1>1, <2>1
<1>6. ASSUME NEW d \in Caller, d # c, queue # <<>>, Head(queue) = d
      PROVE  last # <<>> /\ Head(last) = d
  <2>1. rest # <<>> /\ Head(rest) = d
    BY <1>1, <1>6
  <2>2. Len(rest) > 0 /\ rest[1] = d
    BY <1>1, <1>2, <2>1, EmptySeq
  <2>3. last[1] = d /\ Len(last) > 0
    BY <1>2, <2>2
  <2>4. QED
    BY <1>2, <2>3
<1>7. QED
  BY <1>2, <1>4, <1>5, <1>6 DEF last, rest

\* A step of one call that moves it in the queue as Requeued says keeps the lock.
LEMMA QueueKept ==
    ASSUME QueueInv, NEW c \in Caller,
           queue' = Requeued(c, caller'[c]),
           \A d \in Caller \ {c} : caller'[d].pc = caller[d].pc,
           caller'[c].pc = "exchange" => /\ caller[c].pc \in {"queued", "exchange"}
                                        /\ Head(queue) = c
    PROVE  QueueInv'
<1>1. /\ queue \in Seq(Caller) /\ Distinct(queue)
      /\ \A d \in Caller : caller[d].pc = "exchange" => queue # <<>> /\ Head(queue) = d
      /\ \A d \in Caller : caller[d].pc \in {"queued", "exchange"}
                           <=> \E i \in DOMAIN queue : queue[i] = d
  BY DEF QueueInv, SingleFlight
<1>2. CASE caller'[c].pc = "exchange"
  <2>1. queue' = queue
    BY <1>2 DEF Requeued
  <2>2. queue # <<>>
    BY <1>1, <1>2
  <2>3. \A d \in Caller \ {c} : caller'[d].pc # "exchange"
    BY <1>1, <1>2
  <2>4. QED
    BY <1>1, <1>2, <2>1, <2>2, <2>3 DEF QueueInv, SingleFlight, Distinct
<1>3. CASE caller'[c].pc = "queued"
  <2> DEFINE last == Append(Without(c), c)
  <2>1. queue' = last
    BY <1>3 DEF Requeued
  <2>2. /\ last \in Seq(Caller)
        /\ Distinct(last)
        /\ \A d \in Caller : (\E i \in DOMAIN last : last[i] = d)
                             <=> d = c \/ (\E i \in DOMAIN queue : queue[i] = d)
        /\ \A d \in Caller : d # c /\ queue # <<>> /\ Head(queue) = d
                             => last # <<>> /\ Head(last) = d
    BY <1>1, WithoutThenLast
  <2> HIDE DEF last
  <2>3. \A d \in Caller : caller'[d].pc = "exchange" => queue' # <<>> /\ Head(queue') = d
    BY <1>1, <1>3, <2>1, <2>2
  <2>4. \A d \in Caller : caller'[d].pc \in {"queued", "exchange"}
                          <=> \E i \in DOMAIN queue' : queue'[i] = d
    BY <1>1, <1>3, <2>1, <2>2
  <2>5. QED
    BY <2>1, <2>2, <2>3, <2>4 DEF QueueInv, SingleFlight, Distinct
<1>4. CASE caller'[c].pc \notin {"queued", "exchange"}
  <2> DEFINE rest == Without(c)
  <2>1. queue' = rest
    BY <1>4 DEF Requeued
  <2>2. /\ rest \in Seq(Caller)
        /\ Distinct(rest)
        /\ \A d \in Caller : (\E i \in DOMAIN rest : rest[i] = d)
                             <=> d # c /\ (\E i \in DOMAIN queue : queue[i] = d)
        /\ \A d \in Caller : d # c /\ queue # <<>> /\ Head(queue) = d
                             => rest # <<>> /\ Head(rest) = d
    BY <1>1, WithoutKeepsOthers
  <2> HIDE DEF rest
  <2>3. \A d \in Caller : caller'[d].pc = "exchange" => queue' # <<>> /\ Head(queue') = d
    BY <1>1, <1>4, <2>1, <2>2
  <2>4. \A d \in Caller : caller'[d].pc \in {"queued", "exchange"}
                          <=> \E i \in DOMAIN queue' : queue'[i] = d
    BY <1>1, <1>4, <2>1, <2>2
  <2>5. QED
    BY <2>1, <2>2, <2>3, <2>4 DEF QueueInv, SingleFlight, Distinct
<1>5. QED
  BY <1>2, <1>3, <1>4

\* A step that moves no call to or from the lock leaves the lock alone.
LEMMA QueueUntouched ==
    ASSUME QueueInv, queue' = queue,
           \A c \in Caller : /\ caller'[c].pc = "exchange" <=> caller[c].pc = "exchange"
                             /\ caller'[c].pc = "queued" <=> caller[c].pc = "queued"
    PROVE  QueueInv'
BY DEF QueueInv, SingleFlight, Distinct

-----------------------------------------------------------------------------
\* The inductive invariant

\* A call, under a pause and after Cognito's refusals.
Sound(call, pause, refusals) ==
    /\ Good(call)
    /\ Patient(call, pause)
    /\ call.pc = "exchange" => call.operation \in Operation
    /\ call.result = "invalid" => refusals

CallsInv ==
    /\ caller = [c \in Caller |-> caller[c]]
    /\ \A c \in Caller : Sound(caller[c], limit, denied)

IInv ==
    /\ CallsInv
    /\ QueueInv
    /\ tokens \in Tokens
    /\ limit \in 0..MaxRetry
    /\ denied \in BOOLEAN

\* It holds before any call.
LEMMA InitInv == ASSUME Init PROVE IInv
<1>1. Good(Idle) /\ ~Underway(Idle) /\ Idle.pc = "idle" /\ Idle.result = "none"
  BY IdleGood DEF Idle
<1>2. CallsInv
  BY <1>1 DEF Init, CallsInv, Sound, Patient
<1>3. queue = <<>> /\ Len(queue) = 0 /\ DOMAIN queue = {} /\ queue \in Seq(Caller)
  BY DEF Init
<1>4. \A c \in Caller : caller[c].pc = "idle"
  BY <1>1 DEF Init
<1>5. QueueInv
  BY <1>3, <1>4 DEF QueueInv, SingleFlight, Distinct
<1>6. tokens \in Tokens
  BY DEF Init, Tokens
<1>7. limit \in 0..MaxRetry
  BY RetryAssumption DEF Init
<1>8. denied \in BOOLEAN
  BY DEF Init
<1>9. QED
  BY <1>2, <1>5, <1>6, <1>7, <1>8 DEF IInv

\* A step of one call is right when it leaves that call right.
LEMMA BecomeKeeps ==
    ASSUME IInv, NEW c \in Caller, NEW call,
           Become(c, call), Good(call), Patient(call, limit),
           call.pc = "exchange" => call.operation \in Operation,
           call.result = "invalid" => denied',
           call.pc = "exchange" => /\ caller[c].pc \in {"queued", "exchange"}
                                  /\ Head(queue) = c,
           limit' = limit, tokens' \in Tokens, denied' \in BOOLEAN, denied => denied'
    PROVE  IInv'
<1>1. /\ caller' = [caller EXCEPT ![c] = call]
      /\ queue' = Requeued(c, call)
  BY DEF Become
<1>2. /\ caller'[c] = call
      /\ \A d \in Caller \ {c} : caller'[d] = caller[d]
      /\ caller' = [d \in Caller |-> caller'[d]]
  BY <1>1 DEF IInv, CallsInv
<1>3. \A d \in Caller : Sound(caller'[d], limit', denied')
  <2>1. Sound(call, limit, denied')
    BY DEF Sound
  <2>2. QED
    BY <1>2, <2>1 DEF IInv, CallsInv, Sound
<1>4. CallsInv'
  BY <1>2, <1>3 DEF CallsInv
<1>5. QueueInv'
  <2>1. queue' = Requeued(c, caller'[c])
    BY <1>1, <1>2
  <2>2. QED
    BY <1>2, <2>1, QueueKept DEF IInv
<1>6. QED
  BY <1>4, <1>5 DEF IInv
-----------------------------------------------------------------------------
\* Every action keeps it

\* What the invariant says of one call.
LEMMA CallSound ==
    ASSUME IInv, NEW c \in Caller
    PROVE  /\ Sound(caller[c], limit, denied)
           /\ Good(caller[c]) /\ caller[c] \in Call
           /\ Patient(caller[c], limit)
           /\ limit \in Nat /\ limit <= MaxRetry /\ MaxRetry \in Nat
BY RetryAssumption DEF IInv, CallsInv, Sound, Good

\* A new call checks the pause, or asks for a token.
LEMMA BeginInv == ASSUME IInv, NEW c \in Caller, NEW kind \in Kind, Begin(c, kind) PROVE IInv'
<1> DEFINE call == [caller[c] EXCEPT !.kind = kind]
           next == IF kind \in Request THEN BeginRequest(call, FALSE)
                   ELSE AskToken(call, kind = "renewal")
<1>1. /\ Good(caller[c]) /\ caller[c] \in Call /\ limit \in Nat
      /\ caller[c].pc = "idle"
  BY CallSound DEF Begin
<1>2. Become(c, next) /\ tokens' = tokens /\ limit' = limit /\ denied' = denied
  BY DEF Begin
<1>3. kind # "none"
  BY DEF Kind
<1>4. Good(call) /\ call.pc = "idle" /\ call.kind = kind
  <2>1. call \in Call /\ call.kind = kind /\ call.pc = "idle" /\ call.result = "none"
        /\ call.force = caller[c].force /\ call.retried = caller[c].retried
        /\ call.refused = caller[c].refused
    BY <1>1 DEF Good, Call
  <2> HIDE DEF call
  <2>2. QED
    BY <1>1, <2>1 DEF Good, AuthFailure
<1>5. /\ Good(next) /\ next.pc \in {"queued", "sleep", "done"}
      /\ next.result \in {"none", "rate_limited"} /\ Patient(next, limit)
  <2> HIDE DEF call
  <2>1. CASE kind \in Request
    BY <1>1, <1>4, <2>1, BeginRequestGood
  <2>2. CASE kind \notin Request
    <3>1. Good(next) /\ next.pc = "queued" /\ next.result = "none" /\ next.kind = kind
      <4>1. next = AskToken(call, kind = "renewal")
        BY <2>2
      <4>2. (kind = "renewal") \in BOOLEAN
        OBVIOUS
      <4>3. call.pc # "done" /\ call.kind # "none" /\ call.kind \notin Request
        BY <1>3, <1>4, <2>2
      <4>4. QED
        BY <1>4, <4>1, <4>2, <4>3, AskTokenGood
    <3>2. QED
      BY <2>2, <3>1 DEF Patient, Underway
  <2>3. QED
    BY <2>1, <2>2
<1> HIDE DEF next
<1>6. QED
  BY <1>2, <1>5, BecomeKeeps DEF IInv

\* The head of the queue gets a held token, or goes to Cognito.
LEMMA AcquireInv == ASSUME IInv, NEW c \in Caller, Acquire(c) PROVE IInv'
<1> DEFINE call == caller[c]
<1>1. /\ Good(call) /\ call \in Call /\ limit \in Nat /\ Patient(call, limit)
      /\ call.pc = "queued" /\ Head(queue) = c /\ call.kind # "none"
      /\ tokens' = tokens /\ limit' = limit /\ denied' = denied
  BY CallSound DEF Acquire, Good
<1>2. ASSUME NEW operation \in Operation,
             Become(c, [call EXCEPT !.pc = "exchange", !.operation = operation])
      PROVE  IInv'
  <2> DEFINE next == [call EXCEPT !.pc = "exchange", !.operation = operation]
  <2>1. next \in Call
    BY <1>1 DEF Call
  <2>2. /\ next.pc = "exchange" /\ next.operation = operation
        /\ next.kind = call.kind /\ next.force = call.force /\ next.early = call.early
        /\ next.retried = call.retried /\ next.result = call.result
        /\ next.refused = call.refused /\ next.using = call.using
    BY <1>1 DEF Call
  <2> HIDE DEF next
  <2>3. Good(next)
    BY <1>1, <2>1, <2>2 DEF Good, AuthFailure
  <2>4. Patient(next, limit)
    BY <1>1, <2>2 DEF Patient, Underway
  <2>5. next.result = "none"
    BY <1>1, <2>2 DEF Good
  <2>6. Become(c, next)
    BY <1>2 DEF next
  <2>7. QED
    BY <1>1, <2>2, <2>3, <2>4, <2>5, <2>6, BecomeKeeps DEF IInv
<1>3. CASE call.kind = "authenticate"
  BY <1>2, <1>3 DEF Acquire, Operation
<1>4. CASE call.kind # "authenticate" /\ ~call.force /\ tokens.held /\ ~tokens.stale
  <2> DEFINE next == WithToken(call)
  <2>1. Become(c, next)
    BY <1>4 DEF Acquire
  <2>2. /\ Good(next) /\ next.pc \in {"queued", "sleep", "sent", "done"}
        /\ next.result \in {"none", "rate_limited", "ok"} /\ Patient(next, limit)
    BY <1>1, <1>4, WithTokenGood
  <2> HIDE DEF next
  <2>3. QED
    BY <1>1, <2>1, <2>2, BecomeKeeps DEF IInv
<1>5. CASE /\ call.kind # "authenticate"
           /\ ~(~call.force /\ tokens.held /\ ~tokens.stale)
  <2>1. FirstOperation \in Operation
    BY DEF FirstOperation, AfterProactive, Operation
  <2>2. Become(c, [call EXCEPT !.pc = "exchange", !.operation = FirstOperation])
    BY <1>5 DEF Acquire
  <2>3. QED
    BY <1>2, <2>1, <2>2
<1>6. QED
  BY <1>3, <1>4, <1>5

\* A token is stored: it replaces what any call holds.
LEMMA ExchangeSucceedsInv == ASSUME IInv, NEW c \in Caller, ExchangeSucceeds(c) PROVE IInv'
<1> DEFINE call == Outdated(caller[c])
           next == WithToken(call)
<1>1. /\ Good(caller[c]) /\ caller[c] \in Call /\ limit \in Nat
      /\ caller[c].pc = "exchange" /\ caller[c].kind # "none"
      /\ limit' = limit /\ denied' = denied
  BY CallSound DEF ExchangeSucceeds, Good
<1>2. /\ Good(call) /\ call.refused # "current" /\ call.pc = "exchange"
      /\ call.kind = caller[c].kind
  BY <1>1, OutdatedGood
<1>3. /\ caller' = [d \in Caller |-> IF d = c THEN next ELSE Outdated(caller[d])]
      /\ queue' = Requeued(c, next)
  BY DEF ExchangeSucceeds
<1> HIDE DEF call
<1>4. /\ Good(next) /\ next.pc \in {"queued", "sleep", "sent", "done"}
      /\ next.result \in {"none", "rate_limited", "ok"} /\ Patient(next, limit)
  BY <1>1, <1>2, WithTokenGood
<1> HIDE DEF next
<1>5. Sound(next, limit, denied)
  BY <1>4 DEF Sound
<1>6. ASSUME NEW d \in Caller \ {c}
      PROVE  /\ Sound(Outdated(caller[d]), limit, denied)
             /\ Outdated(caller[d]).pc = caller[d].pc
  <2>1. Good(caller[d]) /\ Sound(caller[d], limit, denied)
    BY CallSound
  <2>2. /\ Good(Outdated(caller[d]))
        /\ Outdated(caller[d]).pc = caller[d].pc
        /\ Outdated(caller[d]).kind = caller[d].kind
        /\ Outdated(caller[d]).result = caller[d].result
        /\ Outdated(caller[d]).force = caller[d].force
        /\ Outdated(caller[d]).early = caller[d].early
    BY <2>1, OutdatedGood
  <2>3. Outdated(caller[d]).operation = caller[d].operation
    BY <2>1 DEF Outdated, Good, Call
  <2>4. QED
    BY <2>1, <2>2, <2>3 DEF Sound, Patient, Underway
<1>7. /\ caller'[c] = next
      /\ \A d \in Caller \ {c} : caller'[d] = Outdated(caller[d])
      /\ caller' = [d \in Caller |-> caller'[d]]
  BY <1>3
<1>8. CallsInv'
  BY <1>1, <1>5, <1>6, <1>7 DEF CallsInv
<1>9. QueueInv'
  BY <1>3, <1>4, <1>6, <1>7, QueueKept DEF IInv
<1>10. tokens' \in Tokens
  <2>1. tokens'.held = TRUE
    BY DEF ExchangeSucceeds
  <2>2. (tokens.aged /\ caller[c].operation = "refresh") \in BOOLEAN
    OBVIOUS
  <2>3. QED
    BY <2>2, Zenon DEF ExchangeSucceeds, Tokens
<1>11. QED
  BY <1>1, <1>8, <1>9, <1>10 DEF IInv

\* A failed exchange is followed by the next branch, or leaves with its error.
LEMMA ExchangeFailsInv == ASSUME IInv, NEW c \in Caller, ExchangeFails(c) PROVE IInv'
<1>1. PICK trouble \in Trouble :
        LET operation == caller[c].operation
            failure == Classify(operation, trouble)
            call == [caller[c] EXCEPT !.failed = @ \cup {operation}]
        IN /\ Become(c, IF Final(operation, failure) THEN Finish(call, failure)
                        ELSE [call EXCEPT !.operation =
                                IF operation = "proactive" THEN AfterProactive ELSE "login"])
           /\ denied' = (denied \/ (operation # "refresh" /\ trouble \in
                {"challenge", "not_authorized", "account_code"}))
  BY DEF ExchangeFails
<1> DEFINE operation == caller[c].operation
           failure == Classify(operation, trouble)
           call == [caller[c] EXCEPT !.failed = @ \cup {operation}]
           onward == IF operation = "proactive" THEN AfterProactive ELSE "login"
           next == [call EXCEPT !.operation = onward]
<1>2. /\ Good(caller[c]) /\ caller[c] \in Call /\ Patient(caller[c], limit)
      /\ caller[c].pc = "exchange" /\ caller[c].kind # "none" /\ operation \in Operation
      /\ limit' = limit /\ tokens' = tokens /\ Head(queue) = c
  BY CallSound DEF ExchangeFails, Good, Sound, IInv, QueueInv, SingleFlight
<1>3. call \in Call /\ operation \in call.failed
  BY <1>2 DEF Call
<1>4. /\ failure \in AuthFailure
      /\ failure = "invalid" /\ operation # "refresh"
           => trouble \in {"challenge", "not_authorized", "account_code"}
  BY <1>2 DEF Classify, AuthFailure, Trouble, Operation
<1>5. /\ denied' \in BOOLEAN
      /\ denied => denied'
      /\ operation # "refresh" /\ trouble \in {"challenge", "not_authorized", "account_code"}
           => denied'
  <2>1. denied \in BOOLEAN
    BY DEF IInv
  <2>2. denied' = (denied \/ (operation # "refresh" /\ trouble \in
                {"challenge", "not_authorized", "account_code"}))
    BY <1>1
  <2> HIDE DEF operation
  <2>3. QED
    BY <2>1, <2>2, Zenon
<1>6. CASE Final(operation, failure)
  <2>1. operation \in {"login", "proactive"}
    BY <1>6 DEF Final
  <2>2. Become(c, Finish(call, failure))
    BY <1>1, <1>6
  <2>3. call.failed \cap {"login", "proactive"} # {} /\ failure \in Result \ {"none"}
    BY <1>3, <1>4, <2>1 DEF AuthFailure, Result
  <2> HIDE DEF call, failure
  <2>4. /\ Good(Finish(call, failure)) /\ Finish(call, failure).pc = "done"
        /\ Finish(call, failure).result = failure /\ ~Underway(Finish(call, failure))
    BY <1>3, <2>3, FinishGood
  <2> DEFINE gone == Finish(call, failure)
  <2>5. Patient(gone, limit)
    BY <2>4 DEF Patient
  <2>6. gone.pc # "exchange" /\ (gone.result = "invalid" => denied')
    BY <1>4, <1>5, <2>1, <2>4
  <2>7. Become(c, gone) /\ Good(gone)
    BY <2>2, <2>4
  <2> HIDE DEF gone
  <2>8. limit' = limit /\ tokens' \in Tokens
    BY <1>2 DEF IInv
  <2>9. QED
    BY <1>5, <2>5, <2>6, <2>7, <2>8, BecomeKeeps
<1>7. CASE ~Final(operation, failure)
  <2>1. Become(c, next)
    BY <1>1, <1>7
  <2>2. onward \in Operation
    BY DEF AfterProactive, Operation
  <2> HIDE DEF onward
  <2>3. next \in Call
    <3> HIDE DEF call
    <3>1. QED
      BY <1>3, <2>2 DEF Call
  <2>4. /\ next.pc = "exchange" /\ next.operation = onward
        /\ next.kind = caller[c].kind /\ next.force = caller[c].force
        /\ next.early = caller[c].early /\ next.retried = caller[c].retried
        /\ next.result = caller[c].result /\ next.refused = caller[c].refused
        /\ next.using = caller[c].using
    BY <1>2 DEF Call
  <2> HIDE DEF next
  <2>5. Good(next) /\ next.result = "none"
    BY <1>2, <2>3, <2>4 DEF Good, AuthFailure
  <2>6. Patient(next, limit)
    BY <1>2, <2>4 DEF Patient, Underway
  <2>7. next.operation \in Operation /\ next.result # "invalid"
    BY <2>2, <2>4, <2>5
  <2>8. /\ limit' = limit /\ tokens' \in Tokens
        /\ caller[c].pc \in {"queued", "exchange"} /\ Head(queue) = c
    BY <1>2 DEF IInv
  <2>9. QED
    BY <1>5, <2>1, <2>5, <2>6, <2>7, <2>8, BecomeKeeps
<1>8. QED
  BY <1>6, <1>7
\* A 401 makes the call renew, unless it has already.
LEMMA UnauthorizedInv == ASSUME IInv, NEW c \in Caller, Unauthorized(c) PROVE IInv'
<1> DEFINE call == [caller[c] EXCEPT !.refused = caller[c].using]
<1>1. /\ Good(caller[c]) /\ caller[c] \in Call
      /\ caller[c].pc = "sent" /\ caller[c].using # "none" /\ caller[c].kind \in Request
      /\ tokens' = tokens /\ limit' = limit /\ denied' = denied
  BY CallSound DEF Unauthorized, Good
<1>2. call \in Call
  BY <1>1 DEF Call
<1>3. /\ call.pc = "sent" /\ call.using # "none" /\ call.refused # "none"
      /\ call.kind = caller[c].kind /\ call.result = "none"
      /\ call.retried = caller[c].retried /\ call.force = caller[c].force
  BY <1>1 DEF Good, Call
<1>4. Become(c, IF call.retried THEN Finish(call, "session_rejected") ELSE AskToken(call, TRUE))
  BY DEF Unauthorized
<1> HIDE DEF call
<1>5. CASE call.retried
  <2>1. /\ Good(Finish(call, "session_rejected"))
        /\ Finish(call, "session_rejected").pc = "done"
        /\ Finish(call, "session_rejected").result = "session_rejected"
        /\ ~Underway(Finish(call, "session_rejected"))
    BY <1>2, FinishGood DEF Result, AuthFailure
  <2>2. QED
    BY <1>1, <1>4, <1>5, <2>1, BecomeKeeps DEF IInv, Patient
<1>6. CASE ~call.retried
  <2>1. Good(call) /\ call.kind # "none"
    BY <1>1, <1>2, <1>3, <1>6 DEF Good, AuthFailure, Request
  <2>2. /\ Good(AskToken(call, TRUE)) /\ AskToken(call, TRUE).pc = "queued"
        /\ AskToken(call, TRUE).result = "none" /\ AskToken(call, TRUE).force
    BY <1>3, <2>1, AskTokenGood
  <2>3. QED
    BY <1>1, <1>4, <1>6, <2>2, BecomeKeeps DEF IInv, Patient, Underway
<1>7. QED
  BY <1>2, <1>5, <1>6 DEF Call

\* The end of a call: with its answer, or cancelled.
LEMMA FinishInv ==
    ASSUME IInv, NEW c \in Caller, NEW result \in {"ok", "failed", "cancelled"},
           Become(c, Finish(caller[c], result)),
           tokens' = tokens, limit' = limit, denied' = denied
    PROVE  IInv'
<1>1. caller[c] \in Call
  BY CallSound
<1>2. /\ Good(Finish(caller[c], result)) /\ Finish(caller[c], result).pc = "done"
      /\ Finish(caller[c], result).result = result
      /\ ~Underway(Finish(caller[c], result))
  BY <1>1, FinishGood DEF Result, AuthFailure
<1>3. QED
  BY <1>2, BecomeKeeps DEF IInv, Patient

\* A delay is kept between its bounds.
LEMMA RetryAfterBounded == \A header \in Header : RetryAfter(header) \in 0..MaxRetry
BY RetryAssumption DEF Header, Unreadable, RetryAfter

\* A 429 sets the deadline; the calls that were on their way had passed their check.
LEMMA ThrottledInv == ASSUME IInv, NEW c \in Caller, Throttled(c) PROVE IInv'
<1>1. PICK header \in Header :
        /\ limit' = RetryAfter(header)
        /\ caller' = [d \in Caller |->
             IF d = c THEN RateLimited(caller[c], RetryAfter(header))
             ELSE [caller[d] EXCEPT !.early = @ \/ Underway(caller[d])]]
  BY DEF Throttled
<1> DEFINE r == RetryAfter(header)
           marked(d) == [caller[d] EXCEPT !.early = caller[d].early \/ Underway(caller[d])]
<1>2. /\ r \in 0..MaxRetry /\ r \in Nat /\ limit' = r
      /\ queue' = queue /\ tokens' = tokens /\ denied' = denied /\ caller[c].pc = "sent"
  BY <1>1, RetryAfterBounded DEF Throttled
<1>3. /\ caller' = [d \in Caller |-> caller'[d]]
      /\ caller'[c] = RateLimited(caller[c], r)
      /\ \A d \in Caller \ {c} : caller'[d] = marked(d)
  BY <1>1
<1> HIDE DEF r
<1>4. /\ Good(caller'[c]) /\ caller'[c].pc \in {"sleep", "done"}
      /\ Sound(caller'[c], limit', denied')
  <2>1. Good(caller[c]) /\ caller[c].pc # "done"
    BY <1>2, CallSound
  <2>2. /\ Good(RateLimited(caller[c], r)) /\ RateLimited(caller[c], r).pc \in {"sleep", "done"}
        /\ RateLimited(caller[c], r).result \in {"none", "rate_limited"}
        /\ ~Underway(RateLimited(caller[c], r))
    BY <1>2, <2>1, RateLimitedGood
  <2>3. QED
    BY <1>3, <2>2 DEF Sound, Patient
<1>5. ASSUME NEW d \in Caller \ {c}
      PROVE  Sound(caller'[d], limit', denied') /\ caller'[d].pc = caller[d].pc
  <2> DEFINE next == marked(d)
  <2>1. Sound(caller[d], limit, denied) /\ Good(caller[d]) /\ caller[d] \in Call
    BY CallSound
  <2>2. (caller[d].early \/ Underway(caller[d])) \in BOOLEAN
    BY Zenon
  <2>3. next \in Call
    BY <2>1, <2>2 DEF Call
  <2>4. /\ next.pc = caller[d].pc /\ next.kind = caller[d].kind
        /\ next.operation = caller[d].operation /\ next.force = caller[d].force
        /\ next.retried = caller[d].retried /\ next.result = caller[d].result
        /\ next.refused = caller[d].refused /\ next.using = caller[d].using
        /\ next.failed = caller[d].failed
    BY <2>1 DEF Call
  <2>5. Underway(caller[d]) => next.early
    BY <2>1 DEF Call
  <2>6. caller'[d] = next
    BY <1>3
  <2> HIDE DEF next
  <2>7. Good(next)
    BY <2>1, <2>3, <2>4 DEF Good
  <2>8. Patient(next, limit')
    BY <2>4, <2>5 DEF Patient, Underway
  <2>9. QED
    BY <1>2, <2>1, <2>4, <2>6, <2>7, <2>8 DEF Sound
<1>6. CallsInv'
  BY <1>3, <1>4, <1>5 DEF CallsInv
<1>7. QueueInv'
  <2>1. \A d \in Caller : /\ caller'[d].pc = "exchange" <=> caller[d].pc = "exchange"
                          /\ caller'[d].pc = "queued" <=> caller[d].pc = "queued"
    BY <1>2, <1>4, <1>5
  <2>2. QED
    BY <1>2, <2>1, QueueUntouched DEF IInv
<1>8. QED
  BY <1>2, <1>6, <1>7 DEF IInv

\* The short retry of a write checks the pause again.
LEMMA ResendInv == ASSUME IInv, NEW c \in Caller, Resend(c) PROVE IInv'
<1> DEFINE next == BeginRequest(caller[c], FALSE)
<1>1. /\ Good(caller[c]) /\ limit \in Nat /\ caller[c].pc = "sleep"
      /\ caller[c].kind \in Request
      /\ Become(c, next) /\ tokens' = tokens /\ limit' = limit /\ denied' = denied
  BY CallSound DEF Resend, Good
<1>2. /\ Good(next) /\ next.pc \in {"queued", "sleep", "done"}
      /\ next.result \in {"none", "rate_limited"} /\ Patient(next, limit)
  BY <1>1, BeginRequestGood
<1> HIDE DEF next
<1>3. QED
  BY <1>1, <1>2, BecomeKeeps DEF IInv

\* Time passes: sleeps and the pause get shorter.
LEMMA TickInv == ASSUME IInv, Tick PROVE IInv'
<1>1. /\ limit' \in 0..MaxRetry /\ (limit' > 0 => limit > 0)
      /\ queue' = queue /\ tokens' = tokens /\ denied' = denied
  BY RetryAssumption DEF Tick, IInv
<1>2. ASSUME NEW c \in Caller
      PROVE  Sound(caller'[c], limit', denied') /\ caller'[c].pc = caller[c].pc
  <2> DEFINE left == IF caller[c].sleep > 0 THEN caller[c].sleep - 1 ELSE 0
             next == [caller[c] EXCEPT !.sleep = left]
  <2>1. Sound(caller[c], limit, denied) /\ Good(caller[c]) /\ caller[c] \in Call
    BY CallSound
  <2>2. left \in 0..ShortThreshold
    BY <2>1, RetryAssumption DEF Call
  <2>3. caller'[c] = next
    BY DEF Tick
  <2> HIDE DEF left
  <2>4. next \in Call
    BY <2>1, <2>2 DEF Call
  <2>5. /\ next.pc = caller[c].pc /\ next.kind = caller[c].kind
        /\ next.operation = caller[c].operation /\ next.force = caller[c].force
        /\ next.retried = caller[c].retried /\ next.result = caller[c].result
        /\ next.refused = caller[c].refused /\ next.using = caller[c].using
        /\ next.failed = caller[c].failed /\ next.early = caller[c].early
    BY <2>1 DEF Call
  <2> HIDE DEF next
  <2>6. Good(next)
    BY <2>1, <2>4, <2>5 DEF Good
  <2>7. QED
    BY <1>1, <2>1, <2>3, <2>5, <2>6 DEF Sound, Patient, Underway
<1>3. caller' = [c \in Caller |-> caller'[c]]
  BY DEF Tick
<1>4. CallsInv'
  BY <1>2, <1>3 DEF CallsInv
<1>5. QueueInv'
  BY <1>1, <1>2, QueueUntouched DEF IInv
<1>6. QED
  BY <1>1, <1>4, <1>5 DEF IInv

\* A step that changes nothing but the tokens' age, or nothing.
LEMMA AgeingInv ==
    ASSUME IInv, UNCHANGED <<caller, queue, limit, denied>>, tokens' \in Tokens
    PROVE  IInv'
BY DEF IInv, CallsInv, QueueInv, SingleFlight, Sound

\* The invariant is kept by every step.
LEMMA NextInv == ASSUME IInv, [Next]_vars PROVE IInv'
<1>1. CASE \E c \in Caller : \E kind \in Kind : Begin(c, kind)
  BY <1>1, BeginInv
<1>2. ASSUME NEW c \in Caller, CallStep(c) PROVE IInv'
  <2>1. CASE Acquire(c)
    BY <2>1, AcquireInv
  <2>2. CASE ExchangeSucceeds(c)
    BY <2>2, ExchangeSucceedsInv
  <2>3. CASE ExchangeFails(c)
    BY <2>3, ExchangeFailsInv
  <2>4. CASE Unauthorized(c)
    BY <2>4, UnauthorizedInv
  <2>5. CASE Throttled(c)
    BY <2>5, ThrottledInv
  <2>6. CASE Answered(c)
    <3>1. PICK result \in {"ok", "failed"} : Become(c, Finish(caller[c], result))
      BY <2>6 DEF Answered
    <3>2. QED
      BY <2>6, <3>1, FinishInv DEF Answered
  <2>7. CASE Resend(c)
    BY <2>7, ResendInv
  <2>8. QED
    BY <1>2, <2>1, <2>2, <2>3, <2>4, <2>5, <2>6, <2>7 DEF CallStep
<1>3. ASSUME NEW c \in Caller, Cancel(c) PROVE IInv'
  BY <1>3, FinishInv DEF Cancel
<1>4. CASE Tick
  BY <1>4, TickInv
<1>5. CASE TokenGoesStale \/ LoginAges
  <2>1. tokens' \in Tokens
    BY <1>5 DEF TokenGoesStale, LoginAges, IInv, Tokens
  <2>2. QED
    BY <1>5, <2>1, AgeingInv DEF TokenGoesStale, LoginAges
<1>6. CASE Terminated \/ UNCHANGED vars
  <2>1. UNCHANGED <<caller, queue, tokens, limit, denied>>
    BY <1>6 DEF Terminated, vars
  <2>2. tokens' \in Tokens
    BY <2>1 DEF IInv
  <2>3. QED
    BY <2>1, <2>2, AgeingInv
<1>7. QED
  BY <1>1, <1>2, <1>3, <1>4, <1>5, <1>6 DEF Next

\* It is invariant.
LEMMA Invariance == Spec => []IInv
<1>1. Init => IInv
  BY InitInv
<1>2. IInv /\ [Next]_vars => IInv'
  BY NextInv
<1>3. QED
  BY <1>1, <1>2, PTL DEF Spec

-----------------------------------------------------------------------------
\* What follows from it

\* Every variable keeps its type.
THEOREM TypeCorrect == Spec => []TypeOK
<1>1. IInv => TypeOK
  BY DEF IInv, CallsInv, QueueInv, Sound, Good, TypeOK
<1>2. QED
  BY <1>1, Invariance, PTL

\* One exchange with Cognito at a time, by the call that holds the lock, and
\* nobody is lost from the lock's queue.
THEOREM AlwaysSingleFlight == Spec => []SingleFlight
<1>1. IInv => SingleFlight
  BY DEF IInv, QueueInv
<1>2. QED
  BY <1>1, Invariance, PTL

\* A refused token is never sent a second time by the call it was refused to.
THEOREM RetryAlwaysCarriesNewToken == Spec => []RetryCarriesNewToken
<1>1. IInv => RetryCarriesNewToken
  BY DEF IInv, CallsInv, Sound, Good, RetryCarriesNewToken
<1>2. QED
  BY <1>1, Invariance, PTL

\* The user is asked for credentials only after Cognito refused a full login.
THEOREM ReauthAlwaysFollowsDenial == Spec => []ReauthNeedsDeniedLogin
<1>1. IInv => ReauthNeedsDeniedLogin
  BY DEF IInv, CallsInv, Sound, ReauthNeedsDeniedLogin
<1>2. QED
  BY <1>1, Invariance, PTL

\* No call fails for want of a token before a full login has failed in it.
THEOREM FailureAlwaysFollowsLogin == Spec => []FailureFollowsLogin
<1>1. IInv => FailureFollowsLogin
  BY DEF IInv, CallsInv, Sound, Good, FailureFollowsLogin
<1>2. QED
  BY <1>1, Invariance, PTL
-----------------------------------------------------------------------------
\* The pause

\* A call that is sent has come from the lock with a token it did not force.
Leaves(c) == caller[c].pc # "sent" /\ caller'[c].pc = "sent"

\* A step that makes a call something else than sent sends nothing.
LEMMA BecomeSendsNothing ==
    ASSUME IInv, NEW c \in Caller, NEW call, Become(c, call), call.pc # "sent"
    PROVE  \A d \in Caller : ~Leaves(d)
BY DEF Become, Leaves, IInv, CallsInv

\* What WithToken sends is a request that did not force its token.
LEMMA SentByToken ==
    ASSUME NEW call, Good(call), call.pc # "done", call.kind # "none", limit \in Nat,
           call.force => call.refused # "current", WithToken(call).pc = "sent"
    PROVE  call.kind \in Request /\ ~call.force
<1>1. CASE call.kind \notin Request
  <2>1. WithToken(call) = Finish(call, "ok")
    BY <1>1 DEF WithToken
  <2>2. Finish(call, "ok").pc = "done"
    BY FinishGood DEF Good, Result, AuthFailure
  <2>3. QED
    BY <2>1, <2>2
<1>2. CASE call.kind \in Request /\ call.force
  <2> DEFINE next == [call EXCEPT !.operation = "none"]
  <2>1. call.refused = "replaced"
    BY <1>2 DEF Good, Call, Token
  <2>2. WithToken(call) = BeginRequest(next, TRUE)
    BY <1>2 DEF WithToken
  <2>3. Good(next) /\ next.pc # "done" /\ next.kind \in Request /\ next.refused = "replaced"
    BY <1>2, <2>1 DEF Good, Call
  <2> HIDE DEF next
  <2>4. BeginRequest(next, TRUE).pc \in {"queued", "sleep", "done"}
    BY <2>3, BeginRequestGood
  <2>5. QED
    BY <2>2, <2>4
<1>3. QED
  BY <1>1, <1>2

\* Only a granted lock and a finished exchange send a request.
LEMMA LeavesUnderway ==
    ASSUME IInv, [Next]_vars, NEW d \in Caller, Leaves(d)
    PROVE  Underway(caller[d])
<1>1. ASSUME NEW c \in Caller, NEW kind \in Kind, Begin(c, kind) PROVE FALSE
  <2> DEFINE call == [caller[c] EXCEPT !.kind = kind]
             next == IF kind \in Request THEN BeginRequest(call, FALSE)
                     ELSE AskToken(call, kind = "renewal")
  <2>1. call \in [pc : {"idle", "queued", "exchange", "sent", "sleep", "done"},
                  kind : Kind \cup {"none"}, force : BOOLEAN,
                  operation : Operation \cup {"none"}, failed : SUBSET Operation,
                  retried : BOOLEAN, resent : BOOLEAN, using : Token, refused : Token,
                  sleep : 0..ShortThreshold, early : BOOLEAN, result : Result]
    BY CallSound DEF Call
  <2>2. AskToken(call, kind = "renewal").pc = "queued"
    BY <2>1 DEF AskToken
  <2>3. BeginRequest(call, FALSE).pc # "sent"
    <3>1. AskToken([call EXCEPT !.retried = FALSE, !.early = FALSE], FALSE).pc = "queued"
      BY <2>1 DEF AskToken
    <3>2. RateLimited(call, limit).pc \in {"sleep", "done"}
      BY <2>1 DEF RateLimited, Finish, Idle
    <3>3. QED
      BY <3>1, <3>2 DEF BeginRequest
  <2>4. Become(c, next) /\ next.pc # "sent"
    BY <1>1, <2>2, <2>3 DEF Begin
  <2> HIDE DEF next
  <2>5. QED
    BY <2>4, BecomeSendsNothing
<1>2. ASSUME NEW c \in Caller, Acquire(c) PROVE Underway(caller[d])
  <2> DEFINE call == caller[c]
  <2>1. /\ Good(call) /\ call \in Call /\ limit \in Nat /\ call.pc = "queued"
        /\ call.kind # "none"
    BY <1>2, CallSound DEF Acquire, Good
  <2>2. \A operation \in Operation :
          [call EXCEPT !.pc = "exchange", !.operation = operation].pc = "exchange"
    BY <2>1 DEF Call
  <2>3. CASE call.kind = "authenticate"
    BY <1>2, <2>2, <2>3, BecomeSendsNothing DEF Acquire, Operation
  <2>4. CASE call.kind # "authenticate" /\ ~call.force /\ tokens.held /\ ~tokens.stale
    <3>1. Become(c, WithToken(call))
      BY <1>2, <2>4 DEF Acquire
    <3>2. d = c /\ WithToken(call).pc = "sent"
      BY <3>1 DEF Become, Leaves, IInv, CallsInv
    <3>3. call.kind \in Request
      BY <2>1, <2>4, <3>2, SentByToken
    <3>4. QED
      BY <2>1, <2>4, <3>2, <3>3 DEF Underway
  <2>5. CASE /\ call.kind # "authenticate"
             /\ ~(~call.force /\ tokens.held /\ ~tokens.stale)
    <3>1. FirstOperation \in Operation
      BY DEF FirstOperation, AfterProactive, Operation
    <3>2. Become(c, [call EXCEPT !.pc = "exchange", !.operation = FirstOperation])
      BY <1>2, <2>5 DEF Acquire
    <3>3. QED
      BY <2>2, <3>1, <3>2, BecomeSendsNothing
  <2>6. QED
    BY <2>3, <2>4, <2>5
<1>3. ASSUME NEW c \in Caller, ExchangeSucceeds(c) PROVE Underway(caller[d])
  <2> DEFINE call == Outdated(caller[c])
  <2>1. /\ Good(caller[c]) /\ limit \in Nat /\ caller[c].pc = "exchange"
        /\ caller[c].kind # "none"
    BY <1>3, CallSound DEF ExchangeSucceeds, Good
  <2>2. /\ Good(call) /\ call.refused # "current" /\ call.pc = "exchange"
        /\ call.kind = caller[c].kind /\ call.force = caller[c].force
    BY <2>1, OutdatedGood
  <2>3. /\ caller'[c] = WithToken(call)
        /\ \A e \in Caller \ {c} : caller'[e] = Outdated(caller[e])
    BY <1>3 DEF ExchangeSucceeds
  <2> HIDE DEF call
  <2>4. \A e \in Caller \ {c} : caller'[e].pc = caller[e].pc
    BY <2>3, CallSound, OutdatedGood
  <2>5. d = c /\ WithToken(call).pc = "sent"
    BY <2>3, <2>4 DEF Leaves
  <2>6. call.kind \in Request /\ ~call.force
    BY <2>1, <2>2, <2>5, SentByToken
  <2>7. QED
    BY <2>1, <2>2, <2>5, <2>6 DEF Underway
<1>4. ASSUME NEW c \in Caller, ExchangeFails(c) PROVE FALSE
  <2>1. caller[c] \in Call /\ caller[c].pc = "exchange"
    BY <1>4, CallSound DEF ExchangeFails
  <2>2. PICK trouble \in Trouble :
        LET operation == caller[c].operation
            failure == Classify(operation, trouble)
            call == [caller[c] EXCEPT !.failed = @ \cup {operation}]
        IN Become(c, IF Final(operation, failure) THEN Finish(call, failure)
                     ELSE [call EXCEPT !.operation =
                             IF operation = "proactive" THEN AfterProactive ELSE "login"])
    BY <1>4 DEF ExchangeFails
  <2> DEFINE call == [caller[c] EXCEPT !.failed = caller[c].failed \cup {caller[c].operation}]
  <2>3. \A failure, operation : /\ Finish(call, failure).pc = "done"
                               /\ [call EXCEPT !.operation = operation].pc = "exchange"
    BY <2>1 DEF Finish, Idle, Call
  <2>4. QED
    BY <2>2, <2>3, BecomeSendsNothing
<1>5. ASSUME NEW c \in Caller, Unauthorized(c) PROVE FALSE
  <2> DEFINE call == [caller[c] EXCEPT !.refused = caller[c].using]
  <2>1. /\ Finish(call, "session_rejected").pc = "done"
        /\ AskToken(call, TRUE).pc = "queued"
    BY CallSound DEF Finish, Idle, AskToken, Call
  <2>2. Become(c, IF call.retried THEN Finish(call, "session_rejected") ELSE AskToken(call, TRUE))
    BY <1>5 DEF Unauthorized
  <2>3. QED
    BY <2>1, <2>2, BecomeSendsNothing
<1>6. ASSUME NEW c \in Caller, Throttled(c) PROVE FALSE
  <2>1. PICK header \in Header :
        caller' = [e \in Caller |->
             IF e = c THEN RateLimited(caller[c], RetryAfter(header))
             ELSE [caller[e] EXCEPT !.early = @ \/ Underway(caller[e])]]
    BY <1>6 DEF Throttled
  <2>2. caller[d].pc = caller'[d].pc \/ d = c
    BY <2>1, CallSound DEF Call
  <2>3. caller[c].pc = "sent"
    BY <1>6 DEF Throttled
  <2>4. QED
    BY <2>2, <2>3 DEF Leaves
<1>7. ASSUME NEW c \in Caller, NEW result, Become(c, Finish(caller[c], result)) PROVE FALSE
  <2>1. Finish(caller[c], result).pc = "done"
    BY DEF Finish, Idle
  <2>2. QED
    BY <1>7, <2>1, BecomeSendsNothing
<1>8. ASSUME NEW c \in Caller, Resend(c) PROVE FALSE
  <2>1. /\ Good(caller[c]) /\ limit \in Nat /\ caller[c].pc = "sleep"
        /\ caller[c].kind \in Request /\ Become(c, BeginRequest(caller[c], FALSE))
    BY <1>8, CallSound DEF Resend, Good
  <2>2. BeginRequest(caller[c], FALSE).pc \in {"queued", "sleep", "done"}
    BY <2>1, BeginRequestGood
  <2>3. QED
    BY <2>1, <2>2, BecomeSendsNothing
<1>9. CASE Tick
  <2>1. caller'[d].pc = caller[d].pc
    BY <1>9, CallSound DEF Tick, Call
  <2>2. QED
    BY <2>1 DEF Leaves
<1>10. CASE TokenGoesStale \/ LoginAges \/ Terminated \/ UNCHANGED vars
  BY <1>10 DEF TokenGoesStale, LoginAges, Terminated, vars, Leaves
<1>11. ASSUME NEW c \in Caller, Answered(c) \/ Cancel(c) PROVE FALSE
  BY <1>7, <1>11 DEF Answered, Cancel
<1>12. QED
  BY <1>1, <1>2, <1>3, <1>4, <1>5, <1>6, <1>8, <1>9, <1>10, <1>11 DEF Next, CallStep

\* A request that began during a pause is not sent before the pause is over.
THEOREM PauseAlwaysKept == Spec => PauseIsKept
<1> DEFINE Keeps == \A c \in Caller :
                      caller[c].pc # "sent" /\ caller'[c].pc = "sent" /\ limit > 0
                         => caller[c].early
<1>1. IInv /\ [Next]_vars => Keeps
  <2>1. ASSUME IInv, [Next]_vars, NEW c \in Caller, Leaves(c), limit > 0
        PROVE  caller[c].early
    BY <2>1, LeavesUnderway, CallSound DEF Patient
  <2>2. QED
    BY <2>1 DEF Leaves
<1>2. IInv /\ [Next]_vars => [Keeps]_vars
  BY <1>1
<1> HIDE DEF Keeps
<1>3. Spec => [][Keeps]_vars
  BY <1>2, Invariance, PTL DEF Spec
<1>4. QED
  BY <1>3 DEF PauseIsKept, Keeps
=============================================================================
