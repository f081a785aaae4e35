---------------------------- MODULE CloudSession ----------------------------
(***************************************************************************)
(* The REST client and the authentication provider it shares with the      *)
(* sockets: vendor/client.py and vendor/auth.py.  Calls compete for the    *)
(* provider's lock, which a refresh or a login keeps while its thread      *)
(* talks to Cognito; a request is checked against the rate-limit deadline, *)
(* gets a token, is sent, and may be answered by a 401 or a 429, each of   *)
(* which the client meets once.  An action is what one call runs between   *)
(* two awaits.  Cognito, the cloud's answers and the clock are external.   *)
(***************************************************************************)
EXTENDS Naturals, Sequences, FiniteSets

CONSTANTS
    Caller,           \* calls; each is made once
    ShortThreshold,   \* SHORT_WRITE_RETRY_THRESHOLD_SECONDS
    MinRetry, MaxRetry, DefaultRetry   \* what _sanitize_retry_after keeps to

ASSUME CallerAssumption == IsFiniteSet(Caller)
ASSUME RetryAssumption ==
    /\ ShortThreshold \in Nat /\ MinRetry \in Nat \ {0}
    /\ MaxRetry \in Nat /\ DefaultRetry \in MinRetry..MaxRetry

VARIABLES
    caller,    \* the calls
    queue,     \* the provider's asyncio.Lock: the holder, then who waits
    tokens,    \* the provider's tokens
    limit,     \* time left to _rate_limited_until, 0 when it is past or None
    denied     \* Cognito has refused the account in a full login

vars == <<caller, queue, tokens, limit, denied>>

\* The calls: the three kinds of request, which differ in what a 429 does, the
\* two ways a socket asks for a token, and the configuration flow's login.
Kind == {"get", "patch", "token", "renewal", "authenticate"}
Request == {"get", "patch"}
Operation == {"proactive", "refresh", "login"}
Result == {"none", "ok", "invalid", "transient", "protocol", "session_rejected",
           "rate_limited", "failed", "cancelled"}
\* The three tokens are stored together; stale and aged say that the margin
\* before the expiry, and the age for a new full login, have been reached.
Tokens == [held : BOOLEAN, stale : BOOLEAN, aged : BOOLEAN]
\* A token of a call is still the provider's, or another was stored after it.
Token == {"none", "current", "replaced"}
Call == [pc : {"idle", "queued", "exchange", "sent", "sleep", "done"},
         kind : Kind \cup {"none"},
         force : BOOLEAN,                     \* force_refresh
         operation : Operation \cup {"none"}, \* under way at Cognito
         failed : SUBSET Operation,           \* failed since the lock was asked for
         retried : BOOLEAN,                   \* not allow_retry
         resent : BOOLEAN,                    \* the write's short retry is used
         using : Token, refused : Token,      \* sent with the request, refused by a 401
         sleep : 0..ShortThreshold,
         early : BOOLEAN,                     \* passed its check before the pause
         result : Result]
Idle == [pc |-> "idle", kind |-> "none", force |-> FALSE, operation |-> "none",
         failed |-> {}, retried |-> FALSE, resent |-> FALSE, using |-> "none", refused |-> "none",
         sleep |-> 0, early |-> FALSE, result |-> "none"]

Init ==
    /\ caller = [c \in Caller |-> Idle]
    /\ queue = <<>>
    /\ tokens = [held |-> FALSE, stale |-> FALSE, aged |-> FALSE]
    /\ limit = 0
    /\ denied = FALSE

----------------------------------------------------------------------------
(* Failures of Cognito                                                     *)

\* What the thread raises, or a bundle _validate_tokens refuses.
Trouble == {"challenge", "not_authorized", "account_code", "service_code",
            "unknown_code", "network", "malformed"}

\* _classify_exception and _raise_classified.
Classify(operation, trouble) ==
    CASE trouble = "challenge" -> "invalid"
      [] trouble = "not_authorized" /\ operation = "refresh" -> "transient"
      [] trouble \in {"not_authorized", "account_code"} /\ operation # "refresh" -> "invalid"
      [] trouble \in {"service_code", "network"} -> "transient"
      [] OTHER -> "protocol"

\* The branches of async_get_id_token that follow one another.
AfterProactive == IF tokens.held THEN "refresh" ELSE "login"
FirstOperation == IF tokens.aged THEN "proactive" ELSE AfterProactive

\* Mutant: invalid credentials leave it whichever operation raised them.
FinalWheneverInvalid(operation, failure) == operation = "login" \/ failure = "invalid"

\* Does this failure leave async_get_id_token?
Final(operation, failure) ==
    operation = "login" \/ (operation = "proactive" /\ failure = "invalid")

----------------------------------------------------------------------------
(* Steps of a call                                                         *)

AuthFailure == {"invalid", "transient", "protocol"}

\* The call has returned or raised: its locals are gone.
Finish(call, result) ==
    [Idle EXCEPT !.pc = "done", !.result = result,
                 !.failed = IF result \in AuthFailure THEN call.failed ELSE {}]

\* AprilaireCloudRateLimitError, in async_patch_device_settings or elsewhere.
RateLimited(call, retryAfter) ==
    IF call.kind = "patch" /\ ~call.resent /\ retryAfter <= ShortThreshold
    THEN [call EXCEPT !.pc = "sleep", !.sleep = retryAfter, !.resent = TRUE]
    ELSE Finish(call, "rate_limited")

\* Mutant: the renewal after a 401 does not force a refresh.
AskTokenUnforced(call, force) ==
    [call EXCEPT !.pc = "queued", !.force = force /\ call.kind \notin Request,
                 !.retried = @ \/ force, !.failed = {}]

AskToken(call, force) ==
    [call EXCEPT !.pc = "queued", !.force = force, !.failed = {}]

\* Mutant: the deadline is looked at in async_patch_device_settings and its
\* fellows, not where a request is repeated.
BeginRequestUnchecked(call, retried) ==
    IF limit > 0 /\ ~retried THEN RateLimited(call, limit)
    ELSE AskToken([call EXCEPT !.retried = retried, !.early = FALSE], FALSE)

\* The head of _async_request_json.
BeginRequest(call, retried) ==
    IF limit > 0 THEN RateLimited(call, limit)
    ELSE AskToken([call EXCEPT !.retried = retried, !.early = FALSE], FALSE)

\* The queue when c, which is in it at most once, has left.
Place(c) == CHOOSE i \in DOMAIN queue : queue[i] = c
Without(c) ==
    IF \E i \in DOMAIN queue : queue[i] = c
    THEN [i \in 1..Len(queue) - 1 |-> IF i < Place(c) THEN queue[i] ELSE queue[i + 1]]
    ELSE queue

\* Mutant: the lock guards the choice of the operation, not the exchange.
RequeuedEarly(c, call) ==
    IF call.pc = "queued" THEN Append(Without(c), c) ELSE Without(c)

\* Mutant: the lock is released by the good path only.
RequeuedKeeping(c, call) ==
    IF call.pc = "exchange" \/ call.result \notin {"none", "ok"} THEN queue
    ELSE IF call.pc = "queued" THEN Append(Without(c), c) ELSE Without(c)

\* The call goes on as call; it leaves the lock, or asks for it, if need be.
Requeued(c, call) ==
    IF call.pc = "exchange" THEN queue
    ELSE IF call.pc = "queued" THEN Append(Without(c), c) ELSE Without(c)

Become(c, call) ==
    /\ caller' = [caller EXCEPT ![c] = call]
    /\ queue' = Requeued(c, call)

\* async_get_id_token returns: the request is sent, or, after the renewal for a
\* 401, begun again.
WithToken(call) ==
    IF call.kind \notin Request THEN Finish(call, "ok")
    ELSE IF call.force THEN BeginRequest([call EXCEPT !.operation = "none"], TRUE)
    ELSE [call EXCEPT !.pc = "sent", !.operation = "none", !.using = "current",
                      !.early = FALSE]

Begin(c, kind) ==
    /\ caller[c].pc = "idle"
    /\ LET call == [caller[c] EXCEPT !.kind = kind] IN
       Become(c, IF kind \in Request THEN BeginRequest(call, FALSE)
                 ELSE AskToken(call, kind = "renewal"))
    /\ UNCHANGED <<tokens, limit, denied>>

\* The lock is granted: a valid token is reused unless a new one is demanded.
Acquire(c) ==
    /\ caller[c].pc = "queued" /\ Head(queue) = c
    /\ LET call == caller[c] IN
       IF call.kind = "authenticate"
       THEN Become(c, [call EXCEPT !.pc = "exchange", !.operation = "login"])
       ELSE IF ~call.force /\ tokens.held /\ ~tokens.stale
       THEN Become(c, WithToken(call))
       ELSE Become(c, [call EXCEPT !.pc = "exchange", !.operation = FirstOperation])
    /\ UNCHANGED <<tokens, limit, denied>>

\* _store_tokens, and _last_full_login_at after a login.
Outdate(token) == IF token = "current" THEN "replaced" ELSE token
Outdated(call) == [call EXCEPT !.using = Outdate(@), !.refused = Outdate(@)]

ExchangeSucceeds(c) ==
    /\ caller[c].pc = "exchange"
    /\ tokens' = [held |-> TRUE, stale |-> FALSE,
                  aged |-> tokens.aged /\ caller[c].operation = "refresh"]
    /\ LET call == WithToken(Outdated(caller[c])) IN
       /\ caller' = [d \in Caller |-> IF d = c THEN call ELSE Outdated(caller[d])]
       /\ queue' = Requeued(c, call)
    /\ UNCHANGED <<limit, denied>>

\* A refresh that fails in whatever way is followed by a full login.
ExchangeFails(c) ==
    /\ caller[c].pc = "exchange"
    /\ \E trouble \in Trouble :
        LET operation == caller[c].operation
            failure == Classify(operation, trouble)
            call == [caller[c] EXCEPT !.failed = @ \cup {operation}]
        IN /\ Become(c, IF Final(operation, failure) THEN Finish(call, failure)
                        ELSE [call EXCEPT !.operation =
                                IF operation = "proactive" THEN AfterProactive ELSE "login"])
           /\ denied' = (denied \/ (operation # "refresh" /\ trouble \in
                {"challenge", "not_authorized", "account_code"}))
    /\ UNCHANGED <<tokens, limit>>

\* _async_handle_response, by status: a 401 ...
Unauthorized(c) ==
    /\ caller[c].pc = "sent"
    /\ LET call == [caller[c] EXCEPT !.refused = caller[c].using] IN
       Become(c, IF call.retried THEN Finish(call, "session_rejected")
                 ELSE AskToken(call, TRUE))
    /\ UNCHANGED <<tokens, limit, denied>>

\* A Retry-After header may be missing, or no number.
Unreadable == MaxRetry + 2
Header == (0..MaxRetry + 1) \cup {Unreadable}

\* Mutant: a delay of any length is honoured.
RetryAfterUncapped(header) ==
    IF header = Unreadable THEN DefaultRetry
    ELSE IF header < MinRetry THEN MinRetry ELSE header

\* _sanitize_retry_after.
RetryAfter(header) ==
    IF header = Unreadable THEN DefaultRetry
    ELSE IF header < MinRetry THEN MinRetry
    ELSE IF header > MaxRetry THEN MaxRetry ELSE header

\* Passed its check, and not yet sent.
Underway(call) == /\ call.kind \in Request /\ ~call.force
                  /\ call.pc \in {"queued", "exchange"}

\* ... a 429, which may come to several requests at once ...
Throttled(c) ==
    /\ caller[c].pc = "sent"
    /\ \E header \in Header :
        /\ limit' = RetryAfter(header)
        /\ caller' = [d \in Caller |->
             IF d = c THEN RateLimited(caller[c], RetryAfter(header))
             ELSE [caller[d] EXCEPT !.early = @ \/ Underway(caller[d])]]
    /\ UNCHANGED <<queue, tokens, denied>>

\* ... or anything else.
Answered(c) ==
    /\ caller[c].pc = "sent"
    /\ \E result \in {"ok", "failed"} : Become(c, Finish(caller[c], result))
    /\ UNCHANGED <<tokens, limit, denied>>

\* The sleep before the short retry of a write ends.
Resend(c) ==
    /\ caller[c].pc = "sleep" /\ caller[c].sleep = 0
    /\ Become(c, BeginRequest(caller[c], FALSE))
    /\ UNCHANGED <<tokens, limit, denied>>

\* CancelledError at any await; the lock is released, or no longer waited for.
Cancel(c) ==
    /\ caller[c].pc \notin {"idle", "done"}
    /\ Become(c, Finish(caller[c], "cancelled"))
    /\ UNCHANGED <<tokens, limit, denied>>

----------------------------------------------------------------------------
(* The clock                                                               *)

Tick ==
    /\ limit > 0 \/ \E c \in Caller : caller[c].sleep > 0
    /\ limit' = IF limit > 0 THEN limit - 1 ELSE 0
    /\ caller' = [c \in Caller |-> [caller[c] EXCEPT !.sleep = IF @ > 0 THEN @ - 1 ELSE 0]]
    /\ UNCHANGED <<queue, tokens, denied>>

\* AUTH_REFRESH_MARGIN_SECONDS before the expiry of the ID token.
TokenGoesStale ==
    /\ tokens.held /\ ~tokens.stale
    /\ tokens' = [tokens EXCEPT !.stale = TRUE]
    /\ UNCHANGED <<caller, queue, limit, denied>>

\* PROACTIVE_FULL_LOGIN_AGE, and the account's jitter, after a full login.
LoginAges ==
    /\ tokens.held /\ ~tokens.aged
    /\ tokens' = [tokens EXCEPT !.aged = TRUE]
    /\ UNCHANGED <<caller, queue, limit, denied>>

CallStep(c) ==
    \/ Acquire(c) \/ ExchangeSucceeds(c) \/ ExchangeFails(c)
    \/ Unauthorized(c) \/ Throttled(c) \/ Answered(c) \/ Resend(c)

AllDone == \A c \in Caller : caller[c].pc = "done"
Terminated == AllDone /\ UNCHANGED vars

Next ==
    \/ \E c \in Caller :
        \/ \E kind \in Kind : Begin(c, kind)
        \/ CallStep(c)
        \/ Cancel(c)
    \/ Tick \/ TokenGoesStale \/ LoginAges \/ Terminated

Spec == Init /\ [][Next]_vars

\* Requests have a timeout, Cognito's client has its own, sleeps end, and the
\* first waiter of a released lock is woken.
FairSpec == Spec /\ WF_vars(Tick) /\ \A c \in Caller : WF_vars(CallStep(c))

----------------------------------------------------------------------------
(* Properties                                                              *)

\* Every variable holds what its Python counterpart may hold.
TypeOK ==
    /\ caller \in [Caller -> Call]
    /\ queue \in Seq(Caller)
    /\ tokens \in Tokens
    /\ limit \in 0..MaxRetry
    /\ denied \in BOOLEAN

\* The provider serialises every exchange with Cognito whose result it will use:
\* the call that has one under way is the first in the lock's queue, and a call
\* is in the queue exactly while it waits or exchanges, also after cancellations.
SingleFlight ==
    /\ \A c \in Caller : caller[c].pc = "exchange" => queue # <<>> /\ Head(queue) = c
    /\ \A c \in Caller : caller[c].pc \in {"queued", "exchange"} <=>
                            \E i \in DOMAIN queue : queue[i] = c

\* The request repeated after a 401 does not carry the token that was refused, but
\* one stored after it, whichever call obtained that.
RetryCarriesNewToken ==
    \A c \in Caller : caller[c].pc = "sent" /\ caller[c].retried =>
        caller[c].refused = "replaced"

\* The user is asked for credentials only when Cognito refused the account in a
\* full login: no failure of a refresh, of whatever kind, comes out as one.
ReauthNeedsDeniedLogin ==
    \A c \in Caller : caller[c].result = "invalid" => denied

\* A call fails for want of a token only when a full login has failed in it: a
\* rejected refresh token, or an inconclusive proactive login, is recovered from.
FailureFollowsLogin ==
    \A c \in Caller : caller[c].result \in AuthFailure =>
        caller[c].failed \cap {"login", "proactive"} # {}

\* No request that began during a pause goes out before the pause is over; only
\* those that had passed the check when the 429 came do.
PauseIsKept ==
    [][\A c \in Caller :
        caller[c].pc # "sent" /\ caller'[c].pc = "sent" /\ limit > 0 => caller[c].early]_vars

\* Every call ends: no call waits for a lock that nobody will release, and no
\* chain of renewals and retries goes on.
CallsEnd == \A c \in Caller : caller[c].pc # "idle" ~> caller[c].pc = "done"
=============================================================================
