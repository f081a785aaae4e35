--------------------------- MODULE LocationSocket ---------------------------
(***************************************************************************)
(* The WebSocket of one location, AprilaireLocationWebSocket in            *)
(* vendor/websocket.py: the runner task that connects, subscribes, reads   *)
(* frames and reconnects, the ping task of each connection, and            *)
(* async_stop.  An action is what one task runs between two awaits; the    *)
(* coordinator's callbacks do not suspend, so they are part of the action  *)
(* that calls them.  A timer may run out at any time.  The line and what   *)
(* the server says are external.                                           *)
(***************************************************************************)
EXTENDS SocketFrames, Naturals

CONSTANTS
    MinDelay, MaxDelay,   \* WEBSOCKET_RECONNECT_MIN_SECONDS and _MAX_SECONDS
    Faults,               \* requests that may fail in this instance
    MaxAttempt            \* bound: reconnect_attempt is counted up to here

ASSUME DelayAssumption == /\ MinDelay \in Nat \ {0} /\ MaxDelay \in Nat
                          /\ MinDelay <= MaxDelay
ASSUME FaultsAssumption == Faults \subseteq {"token", "renewal"}
ASSUME BoundsAssumption == MaxAttempt \in Nat \ {0}

VARIABLES
    runner,      \* the task of _async_run
    ping,        \* the task of _async_ping_loop, the latest one created
    sock,        \* the attributes of the object
    delay,       \* the local variable of _async_run
    published,   \* the SocketState the coordinator was last given
    stopper,     \* the call of async_stop
    line,        \* the connection: silent is open with nobody at the other end
    answered     \* the server has answered a subscription on this connection

vars == <<runner, ping, sock, delay, published, stopper, line, answered>>

Runner == [pc : {"none", "token", "connect", "subscribe", "receive", "renew",
                 "resubscribe", "unwind", "leave", "backoff", "ended"},
           cause : {"none", "error", "stop", "cancel"},     \* what it unwinds for
           cancelled : BOOLEAN]
Ping == [pc : {"none", "pause", "renew", "resubscribe", "send", "wait", "ended", "failed"},
         cancelled : BOOLEAN]
Sock == [connected : BOOLEAN, acknowledged : BOOLEAN, synced : BOOLEAN, pong : BOOLEAN,
         resubscribed : BOOLEAN, attempt : 0..MaxAttempt, failed : BOOLEAN,
         hasPing : BOOLEAN, stop : BOOLEAN]
SocketState == [connected : BOOLEAN, synced : BOOLEAN, acknowledged : BOOLEAN,
                attempt : 0..MaxAttempt, failed : BOOLEAN]
Stopper == {"idle", "ping", "runner", "returned", "raised"}

Lesser(m, n) == IF m <= n THEN m ELSE n

\* The state _publish_state sends.
StateOf(s) == [connected |-> s.connected, synced |-> s.synced,
               acknowledged |-> s.acknowledged, attempt |-> s.attempt,
               failed |-> s.failed]

Init ==
    /\ runner = [pc |-> "none", cause |-> "none", cancelled |-> FALSE]
    /\ ping = [pc |-> "none", cancelled |-> FALSE]
    /\ sock = [connected |-> FALSE, acknowledged |-> FALSE, synced |-> FALSE,
               pong |-> FALSE, resubscribed |-> FALSE, attempt |-> 0,
               failed |-> FALSE, hasPing |-> FALSE, stop |-> FALSE]
    /\ delay = MinDelay
    /\ published = StateOf(sock)
    /\ stopper = "idle"
    /\ line = "closed"
    /\ answered = FALSE

----------------------------------------------------------------------------
(* The runner                                                              *)

At(pc) == runner.pc = pc /\ ~runner.cancelled
Goto(pc) == runner' = [runner EXCEPT !.pc = pc]
Publish == published' = StateOf(sock')
PingDone == ping.pc \in {"none", "ended", "failed"}

\* Mutant of MarkHealthy: the initial-sync event is not set.
MarkHealthyUnsynced(s) == [s EXCEPT !.attempt = 0, !.failed = FALSE]

MarkHealthy(s) == [s EXCEPT !.synced = TRUE, !.attempt = 0, !.failed = FALSE]

\* Mutant of MarkDisconnected: the initial-sync event is left set.
MarkDisconnectedSynced(s) ==
    [s EXCEPT !.failed = TRUE, !.attempt = Lesser(@ + 1, MaxAttempt),
              !.connected = FALSE, !.acknowledged = FALSE]

MarkDisconnected(s) ==
    [s EXCEPT !.failed = TRUE, !.attempt = Lesser(@ + 1, MaxAttempt),
              !.connected = FALSE, !.acknowledged = FALSE, !.synced = FALSE]

\* The head of _async_run's loop and of _async_connect_once.
BeginConnection ==
    /\ sock' = [sock EXCEPT !.synced = FALSE, !.pong = FALSE,
                            !.acknowledged = FALSE, !.resubscribed = FALSE]
    /\ answered' = FALSE
    /\ Goto("token")

\* Mutant of Disconnected: the coordinator is not told.
DisconnectedQuietly ==
    /\ sock' = MarkDisconnected(sock) /\ published' = published
    /\ runner' = [runner EXCEPT !.pc = IF sock.stop THEN "ended" ELSE "backoff",
                                !.cause = "none"]

\* An exception reaches _async_run.
Disconnected ==
    /\ sock' = MarkDisconnected(sock) /\ Publish
    /\ runner' = [runner EXCEPT !.pc = IF sock.stop THEN "ended" ELSE "backoff",
                                !.cause = "none"]

\* The loop of _async_connect_once: the next frame, unless stopped.  Whoever set
\* the stop event has cancelled the ping task as well.
NextFrame == IF sock'.stop
             THEN runner' = [runner EXCEPT !.pc = "unwind", !.cause = "stop"]
             ELSE Goto("receive")

\* Mutant of Unwind: the ping task is not awaited.
UnwindAtOnce(cause) == runner' = [runner EXCEPT !.pc = "leave", !.cause = cause,
                                                !.cancelled = FALSE]

\* An exception, or a cancellation, in the loop of _async_connect_once; and the
\* start of its finally clause, where the ping task is cancelled.
Unwind(cause) == runner' = [runner EXCEPT !.pc = "unwind", !.cause = cause,
                                          !.cancelled = FALSE]
CancelPing == ping' = IF sock.hasPing /\ ~PingDone
                      THEN [ping EXCEPT !.cancelled = TRUE] ELSE ping

Start ==
    /\ runner.pc = "none" /\ stopper = "idle"
    /\ BeginConnection
    /\ UNCHANGED <<ping, delay, published, stopper, line>>

TokenArrives ==
    /\ At("token")
    /\ Goto("connect")
    /\ UNCHANGED <<ping, sock, delay, published, stopper, line, answered>>

ConnectFails ==
    /\ At("connect") \/ (At("token") /\ "token" \in Faults)
    /\ Disconnected
    /\ UNCHANGED <<ping, delay, stopper, line, answered>>

ConnectSucceeds ==
    /\ At("connect")
    /\ line' = "open"
    /\ sock' = [sock EXCEPT !.connected = TRUE]
    /\ Goto("subscribe")
    /\ UNCHANGED <<ping, delay, published, stopper, answered>>

SubscribeSent ==
    /\ At("subscribe") /\ line # "closed"
    /\ sock' = [sock EXCEPT !.hasPing = TRUE]
    /\ ping' = [pc |-> "pause", cancelled |-> sock.stop]
    /\ Publish
    /\ NextFrame
    /\ UNCHANGED <<delay, stopper, line, answered>>

\* The try block, and with it the ping task, is not entered yet.
SubscribeFails ==
    /\ At("subscribe") /\ line = "closed"
    /\ runner' = [runner EXCEPT !.pc = "leave", !.cause = "error"]
    /\ UNCHANGED <<ping, sock, delay, published, stopper, line, answered>>

\* _async_handle_message, with a text frame.
FrameIs(kind) == At("receive") /\ line = "open" /\ \E text \in Text : Decode(text) = kind

Pong ==
    /\ FrameIs("PONG")
    /\ sock' = [sock EXCEPT !.pong = TRUE] /\ Publish
    /\ NextFrame
    /\ UNCHANGED <<ping, delay, stopper, line, answered>>

Subscribed ==
    /\ FrameIs("SUBSCRIBED")
    /\ sock' = [sock EXCEPT !.acknowledged = TRUE] /\ Publish
    /\ answered' = TRUE
    /\ NextFrame
    /\ UNCHANGED <<ping, delay, stopper, line>>

Data ==
    /\ FrameIs("DATA_BATCH")
    /\ sock' = MarkHealthy([sock EXCEPT !.acknowledged = TRUE]) /\ Publish
    /\ answered' = TRUE
    /\ NextFrame
    /\ UNCHANGED <<ping, delay, stopper, line>>

\* The initial-sync event stays set, and nothing is published yet.
Forbidden ==
    /\ FrameIs("FORBIDDEN") /\ ~sock.resubscribed
    /\ sock' = [sock EXCEPT !.resubscribed = TRUE, !.acknowledged = FALSE]
    /\ Goto("renew")
    /\ UNCHANGED <<ping, delay, published, stopper, line, answered>>

RenewArrives ==
    /\ At("renew")
    /\ Goto("resubscribe")
    /\ UNCHANGED <<ping, sock, delay, published, stopper, line, answered>>

\* Mutant of ResubscribeSent: the lost acknowledgement is not published.
ResubscribeQuietly ==
    /\ At("resubscribe") /\ line # "closed"
    /\ sock' = sock /\ published' = published
    /\ NextFrame
    /\ UNCHANGED <<ping, delay, stopper, line, answered>>

ResubscribeSent ==
    /\ At("resubscribe") /\ line # "closed"
    /\ sock' = sock /\ Publish
    /\ NextFrame
    /\ UNCHANGED <<ping, delay, stopper, line, answered>>

\* A frame that is an error, and a second Forbidden.
BadFrame ==
    /\ FrameIs("PROTOCOL_ERROR") \/ (FrameIs("FORBIDDEN") /\ sock.resubscribed)
    /\ Unwind("error") /\ CancelPing
    /\ UNCHANGED <<sock, delay, published, stopper, line, answered>>

\* The other ways the loop ends with an exception: a closed connection, a first
\* subscription nobody acknowledged in time, a token that cannot be renewed.
ConnectionFails ==
    /\ \/ At("receive") /\ line = "closed"
       \/ At("receive") /\ ~sock.synced /\ ~sock.acknowledged
       \/ At("renew") /\ "token" \in Faults
       \/ At("resubscribe") /\ line = "closed"
    /\ Unwind("error") /\ CancelPing
    /\ UNCHANGED <<sock, delay, published, stopper, line, answered>>

\* A subscribed location that stays quiet is in sync with nothing.
SettlesEmpty ==
    /\ At("receive") /\ ~sock.synced /\ sock.acknowledged
    /\ sock' = MarkHealthy(sock) /\ Publish
    /\ NextFrame
    /\ UNCHANGED <<ping, delay, stopper, line, answered>>

\* The finally clause from its await of the ping task on, and the way out of
\* `async with`.  An error the ping task ended with takes the place of whatever
\* the runner unwinds for, and skips the rest of the clause.
UnwindEnds ==
    /\ runner.pc = "unwind"
    /\ sock.hasPing => PingDone
    /\ IF sock.hasPing /\ ping.pc = "failed"
       THEN /\ runner' = [runner EXCEPT !.pc = "leave", !.cause = "error", !.cancelled = FALSE]
            /\ UNCHANGED <<sock, published>>
       ELSE /\ runner' = [runner EXCEPT !.pc = "leave", !.cancelled = FALSE]
            /\ IF sock.stop
               THEN /\ sock' = [sock EXCEPT !.hasPing = FALSE, !.connected = FALSE,
                                            !.synced = FALSE, !.acknowledged = FALSE]
                    /\ Publish
               ELSE /\ sock' = [sock EXCEPT !.hasPing = FALSE, !.connected = FALSE]
                    /\ UNCHANGED published
    /\ UNCHANGED <<ping, delay, stopper, line, answered>>

\* The connection is closed and _async_run goes on.
LeaveEnds ==
    /\ At("leave")
    /\ line' = "closed"
    /\ IF runner.cause = "error"
       THEN Disconnected /\ UNCHANGED delay
       ELSE /\ runner' = [runner EXCEPT !.pc = "ended", !.cause = "none"]
            /\ delay' = IF runner.cause = "stop" THEN MinDelay ELSE delay
            /\ UNCHANGED <<sock, published>>
    /\ UNCHANGED <<ping, stopper, answered>>

\* Mutant of BackoffEnds: the delay has no upper bound.
BackoffUncapped ==
    /\ At("backoff")
    /\ delay' = 2 * delay
    /\ IF sock.stop THEN Goto("ended") /\ UNCHANGED <<sock, answered>> ELSE BeginConnection
    /\ UNCHANGED <<ping, published, stopper, line>>

\* Mutant of BackoffEnds: every delay is the first one.
BackoffForgets ==
    /\ At("backoff")
    /\ delay' = MinDelay
    /\ IF sock.stop THEN Goto("ended") /\ UNCHANGED <<sock, answered>> ELSE BeginConnection
    /\ UNCHANGED <<ping, published, stopper, line>>

BackoffEnds ==
    /\ At("backoff")
    /\ delay' = Lesser(2 * delay, MaxDelay)
    /\ IF sock.stop THEN Goto("ended") /\ UNCHANGED <<sock, answered>> ELSE BeginConnection
    /\ UNCHANGED <<ping, published, stopper, line>>

\* CancelledError at an await other than the finally clause's own, whose
\* suppress() takes it.
RunnerCancelled ==
    /\ runner.cancelled
    /\ \/ /\ runner.pc \in {"token", "connect", "backoff"}
          /\ runner' = [runner EXCEPT !.pc = "ended", !.cancelled = FALSE]
          /\ UNCHANGED ping
       \/ /\ runner.pc \in {"subscribe", "leave"}
          /\ runner' = [runner EXCEPT !.pc = "leave", !.cause = "cancel", !.cancelled = FALSE]
          /\ UNCHANGED ping
       \/ /\ runner.pc \in {"receive", "renew", "resubscribe"}
          /\ Unwind("cancel") /\ CancelPing
    /\ UNCHANGED <<sock, delay, published, stopper, line, answered>>

----------------------------------------------------------------------------
(* The ping task                                                           *)

PingAt(pc) == ping.pc = pc /\ ~ping.cancelled
PingGoto(pc) == ping' = [ping EXCEPT !.pc = pc]

\* The loop's test, after either sleep, and the token's expiry.
PingWakes ==
    /\ PingAt("pause")
    /\ IF sock.stop \/ line = "closed"
       THEN PingGoto("ended") /\ UNCHANGED sock
       ELSE \/ PingGoto("renew") /\ UNCHANGED sock
            \/ PingGoto("send") /\ sock' = [sock EXCEPT !.pong = FALSE]
    /\ UNCHANGED <<runner, delay, published, stopper, line, answered>>

PingRenews ==
    /\ PingAt("renew")
    /\ PingGoto("resubscribe")
    /\ UNCHANGED <<runner, sock, delay, published, stopper, line, answered>>

PingResubscribes ==
    /\ PingAt("resubscribe") /\ line # "closed"
    /\ PingGoto("send") /\ sock' = [sock EXCEPT !.pong = FALSE]
    /\ UNCHANGED <<runner, delay, published, stopper, line, answered>>

PingSent ==
    /\ PingAt("send") /\ line # "closed"
    /\ PingGoto("wait")
    /\ UNCHANGED <<runner, sock, delay, published, stopper, line, answered>>

PongArrived ==
    /\ PingAt("wait") /\ sock.pong
    /\ PingGoto("pause")
    /\ UNCHANGED <<runner, sock, delay, published, stopper, line, answered>>

\* Mutant of PongMissed: the connection is left open.
PongMissedQuietly ==
    /\ PingAt("wait") /\ ~sock.pong
    /\ PingGoto("ended")
    /\ UNCHANGED <<runner, sock, delay, published, stopper, line, answered>>

PongMissed ==
    /\ PingAt("wait") /\ ~sock.pong
    /\ line' = "closed"
    /\ PingGoto("ended")
    /\ UNCHANGED <<runner, sock, delay, published, stopper, answered>>

\* Nothing observes the exception until somebody awaits the task.
PingFails ==
    /\ \/ PingAt("renew") /\ "renewal" \in Faults
       \/ ping.pc \in {"resubscribe", "send"} /\ ~ping.cancelled /\ line = "closed"
    /\ PingGoto("failed")
    /\ UNCHANGED <<runner, sock, delay, published, stopper, line, answered>>

PingCancelled ==
    /\ ping.cancelled /\ ~PingDone
    /\ ping' = [pc |-> "ended", cancelled |-> FALSE]
    /\ UNCHANGED <<runner, sock, delay, published, stopper, line, answered>>

----------------------------------------------------------------------------
(* async_stop                                                              *)

\* Mutant of CancelRunner: the runner is not awaited.
CancelUnawaited ==
    /\ stopper' = "returned"
    /\ runner' = IF runner.pc = "ended" THEN runner ELSE [runner EXCEPT !.cancelled = TRUE]

\* Mutant of CancelRunner: it is awaited, but not cancelled.
AwaitUncancelled == stopper' = "runner" /\ runner' = runner

CancelRunner ==
    /\ stopper' = "runner"
    /\ runner' = IF runner.pc = "ended" THEN runner ELSE [runner EXCEPT !.cancelled = TRUE]

StopBegins ==
    /\ stopper = "idle" /\ runner.pc # "none"
    /\ sock' = [sock EXCEPT !.stop = TRUE]
    /\ IF sock.hasPing
       THEN stopper' = "ping" /\ CancelPing /\ UNCHANGED runner
       ELSE CancelRunner /\ UNCHANGED ping
    /\ UNCHANGED <<delay, published, line, answered>>

\* Awaiting a ping task that ended with an error raises it out of async_stop.
StopAwaitsPing ==
    /\ stopper = "ping" /\ PingDone
    /\ IF ping.pc = "failed"
       THEN stopper' = "raised" /\ UNCHANGED <<runner, sock>>
       ELSE CancelRunner /\ sock' = [sock EXCEPT !.hasPing = FALSE]
    /\ UNCHANGED <<ping, delay, published, line, answered>>

StopAwaitsRunner ==
    /\ stopper = "runner" /\ runner.pc = "ended"
    /\ sock' = [sock EXCEPT !.connected = FALSE, !.acknowledged = FALSE]
    /\ stopper' = "returned"
    /\ UNCHANGED <<runner, ping, delay, published, line, answered>>

----------------------------------------------------------------------------
(* The line, external                                                      *)

LineDrops ==
    /\ line # "closed"
    /\ line' = "closed"
    /\ UNCHANGED <<runner, ping, sock, delay, published, stopper, answered>>

LineGoesSilent ==
    /\ line = "open"
    /\ line' = "silent"
    /\ UNCHANGED <<runner, ping, sock, delay, published, stopper, answered>>

Stopped == stopper \in {"returned", "raised"} /\ runner.pc = "ended" /\ PingDone
Terminated == Stopped /\ line = "closed" /\ UNCHANGED vars

RunnerReads == Pong \/ Subscribed \/ Data \/ Forbidden \/ BadFrame
RunnerStep ==
    \/ Start \/ TokenArrives \/ ConnectFails \/ ConnectSucceeds
    \/ SubscribeSent \/ SubscribeFails \/ RenewArrives \/ ResubscribeSent
    \/ SettlesEmpty \/ UnwindEnds \/ LeaveEnds \/ BackoffEnds \/ RunnerCancelled
    \/ ConnectionFails
PingStep ==
    \/ PingWakes \/ PingRenews \/ PingResubscribes \/ PingSent
    \/ PongArrived \/ PongMissed \/ PingFails \/ PingCancelled
StopStep == StopAwaitsPing \/ StopAwaitsRunner

Next == \/ RunnerReads \/ RunnerStep \/ PingStep
        \/ StopBegins \/ StopStep
        \/ LineDrops \/ LineGoesSilent \/ Terminated

Spec == Init /\ [][Next]_vars

\* Every await but that of a frame ends: requests and sleeps have timeouts, a
\* receive before the initial sync has one, cancellations are delivered.
FairSpec == Spec /\ WF_vars(RunnerStep) /\ WF_vars(PingStep) /\ WF_vars(StopStep)

----------------------------------------------------------------------------
(* Properties                                                              *)

\* Every variable holds what its Python counterpart may hold.
TypeOK ==
    /\ runner \in Runner /\ ping \in Ping /\ sock \in Sock
    /\ published \in SocketState /\ stopper \in Stopper
    /\ delay \in MinDelay..MaxDelay
    /\ line \in {"open", "silent", "closed"} /\ answered \in BOOLEAN

\* The coordinator takes a location for healthy only while the server has
\* answered a subscription of the current connection: nothing of an earlier
\* connection's health survives a reconnect.
HealthEarned == published.synced => published.connected /\ answered

\* Whenever the runner waits for a frame, for a reconnect or for what a new
\* connection needs, the coordinator holds the object's present state.
PublishedIsCurrent ==
    runner.pc \in {"none", "token", "connect", "receive", "backoff"} =>
        published = StateOf(sock)

\* The ping task of a connection is gone before another connection is begun: no
\* two of them clear one pong event.
OnePing ==
    runner.pc \in {"token", "connect", "subscribe", "backoff"} => PingDone

\* When async_stop returns, no task of the object is left and the connection is
\* closed, wherever the two tasks were when it was called.
StopLeavesNothing ==
    stopper = "returned" => runner.pc = "ended" /\ PingDone /\ line = "closed"

\* The same of every end of async_stop, an exception included.
StopEndsTasks ==
    stopper \in {"returned", "raised"} => runner.pc = "ended" /\ PingDone

\* The first delay, doubled n times.
Doubled[n \in 0..MaxAttempt] == IF n = 0 THEN MinDelay ELSE 2 * Doubled[n - 1]

\* The delay before a reconnect is never shorter than the failures since the
\* location was last healthy ask for: doubled with each after the first.
DelayCoversFailures ==
    runner.pc = "backoff" =>
        delay >= Lesser(MaxDelay, Doubled[published.attempt - 1])

\* A connection whose other end is gone is replaced, also when it was healthy
\* and nothing but pings would show it.
SilenceEnds == line = "silent" ~> line # "silent"

\* A connection that is not in sync gets there or is given up.
SubscriptionSettles ==
    published.connected /\ ~published.synced
        ~> published.synced \/ ~published.connected \/ sock.stop

\* async_stop ends.
StopEnds == sock.stop ~> stopper \in {"returned", "raised"}

\* What the coordinator is told is what SocketView promises.
Told == INSTANCE SocketView
        WITH view <- [connected |-> published.connected, synced |-> published.synced],
             closed <- stopper = "returned"
TellsSocketView == Told!Spec
=============================================================================
