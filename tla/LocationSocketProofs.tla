------------------------ MODULE LocationSocketProofs ------------------------
(***************************************************************************)
(* Proofs about LocationSocket, for every reconnect delay, every set of    *)
(* faults and every bound on the counted attempts: what the coordinator is *)
(* told is what SocketView promises, it is never told of health the        *)
(* connection has not earned, a stop that returns leaves nothing running,  *)
(* and no reconnect is sooner than its failures ask for.  The induction    *)
(* follows the runner: what it has published and what of the connection is *)
(* left at each of its awaits, and how far the delay has been doubled.     *)
(***************************************************************************)
EXTENDS LocationSocket, TLAPS, WellFoundedInduction

\* where the runner has no connection
Idle == {"none", "token", "connect", "backoff"}

\* where it has told the coordinator of one
Telling == {"receive", "renew", "resubscribe"}

\* Without a connection the coordinator knows there is none.
IdleIsDown ==
    runner.pc \in Idle =>
        /\ ~sock.connected /\ ~sock.synced /\ ~sock.acknowledged
        /\ published = StateOf(sock)
        /\ line = "closed"

\* A connection is first told of with its subscription.
SubscribeIsDown ==
    runner.pc = "subscribe" =>
        /\ sock.connected /\ ~sock.synced
        /\ ~published.connected /\ ~published.synced

\* While it lasts, its two facts are published as they change.
ToldIsCurrent ==
    runner.pc \in Telling =>
        /\ sock.connected /\ published.connected
        /\ published.synced = sock.synced

ReceiveIsCurrent == runner.pc = "receive" => published = StateOf(sock)

\* Only an answered subscription is acknowledged.
AcknowledgedIsAnswered == sock.acknowledged => answered

\* The ping task is held, or done; and done outside the loop of a connection.
PingIsHeld == ~sock.hasPing => PingDone
PingIsInLoop == runner.pc \notin Telling \cup {"unwind"} => PingDone

EndIsClosed == runner.pc = "ended" => line = "closed"
ReturnedIsEnded == stopper = "returned" => runner.pc = "ended"

IInv == /\ TypeOK
        /\ IdleIsDown
        /\ SubscribeIsDown
        /\ ToldIsCurrent
        /\ ReceiveIsCurrent
        /\ HealthEarned
        /\ AcknowledgedIsAnswered
        /\ PingIsHeld
        /\ PingIsInLoop
        /\ EndIsClosed
        /\ ReturnedIsEnded

-----------------------------------------------------------------------------
\* Type correctness of what the actions are built from

\* The state that is sent is a SocketState.
LEMMA StateOfType ==
    ASSUME NEW s \in Sock PROVE StateOf(s) \in SocketState
BY DEF Sock, SocketState, StateOf

\* A healthy mark resets the failures.
LEMMA MarkHealthyType ==
    ASSUME NEW s \in Sock
    PROVE  /\ MarkHealthy(s) \in Sock
           /\ MarkHealthy(s).synced
           /\ MarkHealthy(s).connected = s.connected
           /\ MarkHealthy(s).acknowledged = s.acknowledged
           /\ MarkHealthy(s).hasPing = s.hasPing
<1>1. 0 \in 0..MaxAttempt
  BY BoundsAssumption
<1>2. QED
  BY <1>1 DEF Sock, MarkHealthy

\* A disconnected mark leaves no health, and counts up to the bound.
LEMMA MarkDisconnectedType ==
    ASSUME NEW s \in Sock
    PROVE  /\ MarkDisconnected(s) \in Sock
           /\ ~MarkDisconnected(s).synced
           /\ ~MarkDisconnected(s).connected
           /\ ~MarkDisconnected(s).acknowledged
           /\ MarkDisconnected(s).hasPing = s.hasPing
<1>1. Lesser(s.attempt + 1, MaxAttempt) \in 0..MaxAttempt
  BY BoundsAssumption DEF Sock, Lesser
<1>2. QED
  BY <1>1 DEF Sock, MarkDisconnected

\* The backed-off delay stays within its two constants.
LEMMA DelayType ==
    ASSUME NEW d \in MinDelay..MaxDelay
    PROVE  Lesser(2 * d, MaxDelay) \in MinDelay..MaxDelay
<1>1. /\ MinDelay \in Nat /\ MaxDelay \in Nat /\ d \in Nat
      /\ MinDelay <= MaxDelay /\ MinDelay <= d
  BY DelayAssumption
<1>2. 2 * d \in Nat /\ 2 * d >= MinDelay
  BY <1>1
<1>3. QED
  BY <1>1, <1>2 DEF Lesser

-----------------------------------------------------------------------------
\* Steps that leave the runner where it is, and the published state true

\* The shared part: of the object nothing changes that is published, and the
\* ping task ends or goes on.
LEMMA BesideRunner ==
    ASSUME IInv,
           runner' \in Runner, runner'.pc = runner.pc,
           ping' \in Ping, PingDone => PingDone',
           sock' \in Sock, StateOf(sock') = StateOf(sock),
           sock'.hasPing = sock.hasPing \/ PingDone',
           UNCHANGED <<delay, published, answered>>,
           line' \in {"open", "silent", "closed"}, line = "closed" => line' = "closed",
           stopper' \in Stopper, stopper' = "returned" => stopper = "returned"
    PROVE  IInv'
<1> USE DEF IInv
<1>1. /\ sock'.connected = sock.connected
      /\ sock'.synced = sock.synced
      /\ sock'.acknowledged = sock.acknowledged
  BY DEF StateOf
<1>2. TypeOK'
  BY DEF TypeOK
<1>3. IdleIsDown' /\ SubscribeIsDown' /\ ToldIsCurrent' /\ ReceiveIsCurrent'
  BY <1>1 DEF IdleIsDown, SubscribeIsDown, ToldIsCurrent, ReceiveIsCurrent
<1>4. HealthEarned' /\ AcknowledgedIsAnswered'
  BY <1>1 DEF HealthEarned, AcknowledgedIsAnswered
<1>5. PingIsHeld' /\ PingIsInLoop'
  BY DEF PingIsHeld, PingIsInLoop
<1>6. EndIsClosed' /\ ReturnedIsEnded'
  BY DEF EndIsClosed, ReturnedIsEnded
<1>7. QED
  BY <1>2, <1>3, <1>4, <1>5, <1>6

\* The ping task touches only the pong event and, by closing it, the line.
LEMMA PingStepInv == IInv /\ PingStep => IInv'
<1> SUFFICES ASSUME IInv, PingStep PROVE IInv'
  OBVIOUS
<1> USE DEF IInv
<1>1. /\ ping \in Ping /\ sock \in Sock /\ runner \in Runner /\ stopper \in Stopper
      /\ line \in {"open", "silent", "closed"}
  BY DEF TypeOK
<1>2. UNCHANGED <<runner, delay, published, answered, stopper>>
  BY DEF PingStep, PingWakes, PingRenews, PingResubscribes, PingSent, PongArrived,
     PongMissed, PingFails, PingCancelled
<1>3. ping' \in Ping /\ (PingDone => PingDone')
  <2>1. ~PingDone
    BY DEF PingStep, PingWakes, PingRenews, PingResubscribes, PingSent, PongArrived,
       PongMissed, PingFails, PingCancelled, PingAt, PingDone
  <2>2. \/ \E pc \in {"ended", "renew", "send", "resubscribe", "wait", "pause", "failed"} :
              ping' = [ping EXCEPT !.pc = pc]
        \/ ping' = [pc |-> "ended", cancelled |-> FALSE]
    BY DEF PingStep, PingWakes, PingRenews, PingResubscribes, PingSent, PongArrived,
       PongMissed, PingFails, PingCancelled, PingGoto
  <2>3. CASE ping' = [pc |-> "ended", cancelled |-> FALSE]
    BY <2>1, <2>3 DEF Ping
  <2>4. ASSUME NEW pc \in {"ended", "renew", "send", "resubscribe", "wait", "pause", "failed"},
               ping' = [ping EXCEPT !.pc = pc]
        PROVE  ping' \in Ping
    BY <1>1, <2>4 DEF Ping
  <2>5. QED
    BY <2>1, <2>2, <2>3, <2>4
<1>4. sock' = sock \/ sock' = [sock EXCEPT !.pong = FALSE]
  BY DEF PingStep, PingWakes, PingRenews, PingResubscribes, PingSent, PongArrived,
     PongMissed, PingFails, PingCancelled
<1>5. sock' \in Sock /\ StateOf(sock') = StateOf(sock) /\ sock'.hasPing = sock.hasPing
  BY <1>1, <1>4 DEF Sock, StateOf
<1>6. line' = line \/ line' = "closed"
  BY DEF PingStep, PingWakes, PingRenews, PingResubscribes, PingSent, PongArrived,
     PongMissed, PingFails, PingCancelled
<1>7. QED
  BY <1>1, <1>2, <1>3, <1>5, <1>6, BesideRunner

\* The line may drop, and goes silent only where there is one.
LEMMA LineInv == IInv /\ (LineDrops \/ LineGoesSilent) => IInv'
<1> SUFFICES ASSUME IInv, LineDrops \/ LineGoesSilent PROVE IInv'
  OBVIOUS
<1>1. UNCHANGED <<runner, ping, sock, delay, published, stopper, answered>>
  BY DEF LineDrops, LineGoesSilent
<1>2. line' \in {"silent", "closed"} /\ (line = "closed" => line' = "closed")
  BY DEF LineDrops, LineGoesSilent
<1>3. PingDone => PingDone'
  BY <1>1 DEF PingDone
<1>4. QED
  BY <1>1, <1>2, <1>3, BesideRunner DEF IInv, TypeOK

\* Cancelling is a mark on a task: the runner stays where it is until it is run.
LEMMA StopBeginsInv == IInv /\ (StopBegins \/ StopAwaitsPing) => IInv'
<1> SUFFICES ASSUME IInv, StopBegins \/ StopAwaitsPing PROVE IInv'
  OBVIOUS
<1> USE DEF IInv
<1>1. /\ ping \in Ping /\ sock \in Sock /\ runner \in Runner
      /\ line \in {"open", "silent", "closed"}
  BY DEF TypeOK
<1>2. UNCHANGED <<delay, published, answered, line>>
  BY DEF StopBegins, StopAwaitsPing
<1>3. runner' = runner \/ runner' = [runner EXCEPT !.cancelled = TRUE]
  BY DEF StopBegins, StopAwaitsPing, CancelRunner
<1>4. runner' \in Runner /\ runner'.pc = runner.pc
  BY <1>1, <1>3 DEF Runner
<1>5. ping' = ping \/ ping' = [ping EXCEPT !.cancelled = TRUE]
  BY DEF StopBegins, StopAwaitsPing, CancelPing
<1>6. ping' \in Ping /\ (PingDone => PingDone')
  BY <1>1, <1>5 DEF Ping, PingDone
<1>7. stopper' \in {"ping", "runner", "raised"}
  BY DEF StopBegins, StopAwaitsPing, CancelRunner
<1>8. /\ sock' \in Sock /\ StateOf(sock') = StateOf(sock)
      /\ sock'.hasPing = sock.hasPing \/ PingDone'
  <2>1. CASE StopBegins
    BY <1>1, <2>1 DEF StopBegins, Sock, StateOf
  <2>2. CASE StopAwaitsPing
    BY <1>1, <1>6, <2>2 DEF StopAwaitsPing, Sock, StateOf
  <2>3. QED
    BY <2>1, <2>2
<1>9. QED
  BY <1>1, <1>2, <1>4, <1>6, <1>7, <1>8, BesideRunner DEF Stopper

\* async_stop returns only after the runner has ended.
LEMMA StopAwaitsRunnerInv == IInv /\ StopAwaitsRunner => IInv'
<1> SUFFICES ASSUME IInv, StopAwaitsRunner PROVE IInv'
  OBVIOUS
<1> USE DEF IInv
<1>1. /\ UNCHANGED <<runner, ping, delay, published, line, answered>>
      /\ runner.pc = "ended" /\ stopper' = "returned"
      /\ sock' = [sock EXCEPT !.connected = FALSE, !.acknowledged = FALSE]
  BY DEF StopAwaitsRunner
<1>2. sock' \in Sock /\ sock'.hasPing = sock.hasPing /\ ~sock'.acknowledged
  BY <1>1 DEF TypeOK, Sock
<1>3. TypeOK'
  BY <1>1, <1>2 DEF TypeOK, Stopper
<1>4. IdleIsDown' /\ SubscribeIsDown' /\ ToldIsCurrent' /\ ReceiveIsCurrent'
  BY <1>1 DEF IdleIsDown, SubscribeIsDown, ToldIsCurrent, ReceiveIsCurrent, Idle, Telling
<1>5. HealthEarned' /\ AcknowledgedIsAnswered'
  BY <1>1, <1>2 DEF HealthEarned, AcknowledgedIsAnswered
<1>6. PingIsHeld' /\ PingIsInLoop' /\ EndIsClosed' /\ ReturnedIsEnded'
  BY <1>1, <1>2 DEF PingIsHeld, PingIsInLoop, PingDone, EndIsClosed, ReturnedIsEnded
<1>7. QED
  BY <1>3, <1>4, <1>5, <1>6

-----------------------------------------------------------------------------
\* Steps of the runner, by where they lead

\* The head of a connection: nothing of an earlier one is left.
LEMMA BeginConnectionInv ==
    ASSUME IInv, runner.pc \in {"none", "backoff"}, BeginConnection,
           delay' \in MinDelay..MaxDelay,
           UNCHANGED <<ping, published, stopper, line>>
    PROVE  IInv'
<1> USE DEF IInv
<1>1. /\ sock' \in Sock /\ StateOf(sock') = StateOf(sock)
      /\ ~sock'.connected /\ ~sock'.synced /\ ~sock'.acknowledged
      /\ sock'.hasPing = sock.hasPing
  BY DEF BeginConnection, TypeOK, Sock, StateOf, IdleIsDown, Idle
<1>2. runner' \in Runner /\ runner'.pc = "token"
  BY DEF BeginConnection, Goto, TypeOK, Runner
<1>3. published = StateOf(sock) /\ line = "closed" /\ PingDone
  BY DEF IdleIsDown, Idle, PingIsInLoop, Telling
<1>4. ~published.synced
  BY <1>3 DEF IdleIsDown, Idle, StateOf
<1>5. TypeOK'
  BY <1>1, <1>2 DEF TypeOK, BeginConnection
<1>6. IdleIsDown' /\ SubscribeIsDown' /\ ToldIsCurrent' /\ ReceiveIsCurrent'
  BY <1>1, <1>2, <1>3 DEF IdleIsDown, SubscribeIsDown, ToldIsCurrent, ReceiveIsCurrent, Telling
<1>7. HealthEarned' /\ AcknowledgedIsAnswered'
  BY <1>1, <1>4 DEF HealthEarned, AcknowledgedIsAnswered
<1>8. PingIsHeld' /\ PingIsInLoop'
  BY <1>3 DEF PingIsHeld, PingIsInLoop, PingDone
<1>9. EndIsClosed' /\ ReturnedIsEnded'
  BY <1>2 DEF EndIsClosed, ReturnedIsEnded
<1>10. QED
  BY <1>5, <1>6, <1>7, <1>8, <1>9

\* An exception in _async_run: the coordinator is told that all is lost.
LEMMA DisconnectedInv ==
    ASSUME IInv, runner.pc # "ended", Disconnected, PingDone, line' = "closed",
           UNCHANGED <<ping, delay, stopper, answered>>
    PROVE  IInv'
<1> USE DEF IInv
<1>1. sock \in Sock
  BY DEF TypeOK
<1>2. /\ sock' \in Sock /\ ~sock'.connected /\ ~sock'.synced /\ ~sock'.acknowledged
      /\ sock'.hasPing = sock.hasPing
  BY <1>1, MarkDisconnectedType DEF Disconnected
<1>3. published' = StateOf(sock') /\ published' \in SocketState
  BY <1>2, StateOfType DEF Disconnected, Publish
<1>4. runner' \in Runner /\ runner'.pc \in {"ended", "backoff"}
  BY DEF Disconnected, TypeOK, Runner
<1>5. TypeOK'
  BY <1>2, <1>3, <1>4 DEF TypeOK
<1>6. IdleIsDown' /\ SubscribeIsDown' /\ ToldIsCurrent' /\ ReceiveIsCurrent'
  BY <1>2, <1>3, <1>4 DEF IdleIsDown, SubscribeIsDown, ToldIsCurrent, ReceiveIsCurrent, Telling
<1>7. HealthEarned' /\ AcknowledgedIsAnswered'
  BY <1>2, <1>3 DEF HealthEarned, AcknowledgedIsAnswered, StateOf
<1>8. PingIsHeld' /\ PingIsInLoop'
  BY DEF PingIsHeld, PingIsInLoop, PingDone
<1>9. EndIsClosed' /\ ReturnedIsEnded'
  BY DEF EndIsClosed, ReturnedIsEnded
<1>10. QED
  BY <1>5, <1>6, <1>7, <1>8, <1>9

\* Whatever a frame or a timeout changed is published before the next frame.
LEMMA NextFrameInv ==
    ASSUME IInv, runner.pc # "ended", NextFrame, Publish,
           sock' \in Sock, sock'.connected,
           sock'.synced => answered', sock'.acknowledged => answered', answered' \in BOOLEAN,
           ping' \in Ping, ~sock'.hasPing => PingDone',
           UNCHANGED <<delay, stopper, line>>
    PROVE  IInv'
<1> USE DEF IInv
<1>1. published' = StateOf(sock') /\ published' \in SocketState
  BY StateOfType DEF Publish
<1>2. runner' \in Runner /\ runner'.pc \in {"unwind", "receive"}
  BY DEF NextFrame, Goto, TypeOK, Runner
<1>3. TypeOK'
  BY <1>1, <1>2 DEF TypeOK
<1>4. IdleIsDown' /\ SubscribeIsDown' /\ ToldIsCurrent' /\ ReceiveIsCurrent'
  BY <1>1, <1>2 DEF IdleIsDown, SubscribeIsDown, ToldIsCurrent, ReceiveIsCurrent, Idle,
     StateOf
<1>5. HealthEarned' /\ AcknowledgedIsAnswered'
  BY <1>1 DEF HealthEarned, AcknowledgedIsAnswered, StateOf
<1>6. PingIsHeld' /\ PingIsInLoop'
  BY <1>2 DEF PingIsHeld, PingIsInLoop, Telling
<1>7. EndIsClosed' /\ ReturnedIsEnded'
  BY <1>2 DEF EndIsClosed, ReturnedIsEnded
<1>8. QED
  BY <1>3, <1>4, <1>5, <1>6, <1>7

\* The end of the loop: the ping task is cancelled, nothing is published.
LEMMA UnwindInv ==
    ASSUME IInv, runner.pc \in Telling, NEW c \in {"error", "cancel"}, Unwind(c), CancelPing,
           UNCHANGED <<sock, delay, published, stopper, line, answered>>
    PROVE  IInv'
<1> USE DEF IInv
<1>1. runner' \in Runner /\ runner'.pc = "unwind"
  BY DEF Unwind, TypeOK, Runner
<1>2. ping' \in Ping /\ (PingDone => PingDone')
  BY DEF CancelPing, TypeOK, Ping, PingDone
<1>3. TypeOK'
  BY <1>1, <1>2 DEF TypeOK
<1>4. IdleIsDown' /\ SubscribeIsDown' /\ ToldIsCurrent' /\ ReceiveIsCurrent'
  BY <1>1 DEF IdleIsDown, SubscribeIsDown, ToldIsCurrent, ReceiveIsCurrent, Idle, Telling
<1>5. HealthEarned' /\ AcknowledgedIsAnswered'
  BY DEF HealthEarned, AcknowledgedIsAnswered
<1>6. PingIsHeld' /\ PingIsInLoop'
  BY <1>1, <1>2 DEF PingIsHeld, PingIsInLoop
<1>7. EndIsClosed' /\ ReturnedIsEnded'
  BY <1>1 DEF EndIsClosed, ReturnedIsEnded, Telling
<1>8. QED
  BY <1>3, <1>4, <1>5, <1>6, <1>7

\* Steps that only move the runner, to a place where as much is promised.
LEMMA MovesOn ==
    ASSUME IInv, runner' \in Runner, runner'.pc # "receive",
           runner'.pc \in Idle => runner.pc \in Idle,
           runner'.pc \in Telling => runner.pc \in Telling,
           runner'.pc # "subscribe",
           runner'.pc \in {"leave", "ended"} =>
               runner.pc \notin Telling \cup {"unwind"} \/ PingDone,
           runner'.pc = "ended" => line' = "closed",
           runner.pc # "ended",
           line' = line \/ (line' = "closed"),
           delay' \in MinDelay..MaxDelay,
           UNCHANGED <<ping, sock, published, stopper, answered>>
    PROVE  IInv'
<1> USE DEF IInv
<1>1. TypeOK'
  BY DEF TypeOK
<1>2. IdleIsDown' /\ SubscribeIsDown' /\ ToldIsCurrent' /\ ReceiveIsCurrent'
  BY DEF IdleIsDown, SubscribeIsDown, ToldIsCurrent, ReceiveIsCurrent
<1>3. HealthEarned' /\ AcknowledgedIsAnswered'
  BY DEF HealthEarned, AcknowledgedIsAnswered
<1>4. PingDone' = PingDone
  BY DEF PingDone
<1>5. PingIsHeld'
  BY <1>4 DEF PingIsHeld
<1>6. PingIsInLoop'
  BY <1>4 DEF PingIsInLoop, Idle, Telling, Runner
<1>7. EndIsClosed' /\ ReturnedIsEnded'
  BY DEF EndIsClosed, ReturnedIsEnded
<1>8. QED
  BY <1>1, <1>2, <1>3, <1>5, <1>6, <1>7

\* What the runner does without telling anybody.
LEMMA RunnerMovesInv ==
    ASSUME IInv,
           \/ TokenArrives \/ SubscribeFails \/ Forbidden \/ RenewArrives
           \/ BadFrame \/ ConnectionFails \/ RunnerCancelled
    PROVE  IInv'
<1> USE DEF IInv
<1>1. runner \in Runner /\ delay \in MinDelay..MaxDelay
  BY DEF TypeOK
<1>2. CASE TokenArrives
  <2>1. runner' \in Runner /\ runner'.pc = "connect" /\ runner.pc = "token"
    BY <1>1, <1>2 DEF TokenArrives, At, Goto, Runner
  <2>2. UNCHANGED <<ping, sock, delay, published, stopper, line, answered>>
    BY <1>2 DEF TokenArrives
  <2>3. QED
    BY <1>1, <2>1, <2>2, MovesOn DEF Idle, Telling
<1>3. CASE SubscribeFails
  <2>1. runner' \in Runner /\ runner'.pc = "leave" /\ runner.pc = "subscribe"
    BY <1>1, <1>3 DEF SubscribeFails, At, Runner
  <2>2. UNCHANGED <<ping, sock, delay, published, stopper, line, answered>>
    BY <1>3 DEF SubscribeFails
  <2>3. QED
    BY <1>1, <2>1, <2>2, MovesOn DEF Idle, Telling
<1>4. CASE Forbidden
  <2>1. runner' \in Runner /\ runner'.pc = "renew" /\ runner.pc = "receive"
    BY <1>1, <1>4 DEF Forbidden, FrameIs, At, Goto, Runner
  <2>2. /\ sock' \in Sock /\ sock'.connected = sock.connected /\ sock'.synced = sock.synced
        /\ sock'.hasPing = sock.hasPing /\ ~sock'.acknowledged
    BY <1>4 DEF Forbidden, TypeOK, Sock
  <2>3. UNCHANGED <<ping, delay, published, stopper, line, answered>>
    BY <1>4 DEF Forbidden
  <2>4. TypeOK'
    BY <2>1, <2>2, <2>3 DEF TypeOK
  <2>5. IdleIsDown' /\ SubscribeIsDown' /\ ToldIsCurrent' /\ ReceiveIsCurrent'
    BY <2>1, <2>2, <2>3
       DEF IdleIsDown, SubscribeIsDown, ToldIsCurrent, ReceiveIsCurrent, Idle, Telling
  <2>6. HealthEarned' /\ AcknowledgedIsAnswered'
    BY <2>2, <2>3 DEF HealthEarned, AcknowledgedIsAnswered
  <2>7. PingIsHeld' /\ PingIsInLoop' /\ EndIsClosed' /\ ReturnedIsEnded'
    BY <2>1, <2>2, <2>3
       DEF PingIsHeld, PingIsInLoop, EndIsClosed, ReturnedIsEnded, PingDone, Telling
  <2>8. QED
    BY <2>4, <2>5, <2>6, <2>7
<1>5. CASE RenewArrives
  <2>1. runner' \in Runner /\ runner'.pc = "resubscribe" /\ runner.pc = "renew"
    BY <1>1, <1>5 DEF RenewArrives, At, Goto, Runner
  <2>2. UNCHANGED <<ping, sock, delay, published, stopper, line, answered>>
    BY <1>5 DEF RenewArrives
  <2>3. QED
    BY <1>1, <2>1, <2>2, MovesOn DEF Idle, Telling
<1>6. CASE BadFrame
  BY <1>6, UnwindInv DEF BadFrame, FrameIs, At, Telling
<1>7. CASE ConnectionFails
  BY <1>7, UnwindInv DEF ConnectionFails, At, Telling
<1>8. CASE RunnerCancelled
  <2>1. UNCHANGED <<sock, delay, published, stopper, line, answered>>
    BY <1>8 DEF RunnerCancelled
  <2>2. CASE /\ runner.pc \in {"token", "connect", "backoff"}
             /\ runner' = [runner EXCEPT !.pc = "ended", !.cancelled = FALSE]
             /\ UNCHANGED ping
    <3>1. runner' \in Runner /\ runner'.pc = "ended"
      BY <1>1, <2>2 DEF Runner
    <3>2. line' = "closed"
      BY <2>1, <2>2 DEF IdleIsDown, Idle
    <3>3. QED
      BY <1>1, <2>1, <2>2, <3>1, <3>2, MovesOn DEF Idle, Telling
  <2>3. CASE /\ runner.pc \in {"subscribe", "leave"}
             /\ runner' = [runner EXCEPT !.pc = "leave", !.cause = "cancel",
                                         !.cancelled = FALSE]
             /\ UNCHANGED ping
    <3>1. runner' \in Runner /\ runner'.pc = "leave"
      BY <1>1, <2>3 DEF Runner
    <3>2. QED
      BY <1>1, <2>1, <2>3, <3>1, MovesOn DEF Idle, Telling
  <2>4. CASE /\ runner.pc \in {"receive", "renew", "resubscribe"}
             /\ Unwind("cancel") /\ CancelPing
    BY <2>1, <2>4, UnwindInv DEF Telling
  <2>5. QED
    BY <1>8, <2>2, <2>3, <2>4 DEF RunnerCancelled
<1>9. QED
  BY <1>2, <1>3, <1>4, <1>5, <1>6, <1>7, <1>8

\* What the runner tells before its next frame.
LEMMA RunnerPublishesInv ==
    ASSUME IInv,
           SubscribeSent \/ Pong \/ Subscribed \/ Data \/ ResubscribeSent \/ SettlesEmpty
    PROVE  IInv'
<1> USE DEF IInv
<1>1. sock \in Sock /\ ping \in Ping /\ answered \in BOOLEAN
  BY DEF TypeOK
<1>2. CASE SubscribeSent
  <2>1. /\ runner.pc = "subscribe" /\ NextFrame /\ Publish
        /\ UNCHANGED <<delay, stopper, line, answered>>
        /\ sock' = [sock EXCEPT !.hasPing = TRUE]
        /\ ping' = [pc |-> "pause", cancelled |-> sock.stop]
    BY <1>2 DEF SubscribeSent, At
  <2>2. /\ sock' \in Sock /\ sock'.connected /\ ~sock'.synced /\ sock'.hasPing
        /\ sock'.acknowledged = sock.acknowledged
    BY <1>1, <2>1 DEF Sock, SubscribeIsDown
  <2>3. ping' \in Ping
    BY <1>1, <2>1 DEF Ping, Sock
  <2>4. sock'.acknowledged => answered'
    BY <2>1, <2>2 DEF AcknowledgedIsAnswered
  <2>5. QED
    BY <1>1, <2>1, <2>2, <2>3, <2>4, NextFrameInv
<1>3. CASE Pong \/ Subscribed \/ Data \/ ResubscribeSent \/ SettlesEmpty
  <2>1. /\ runner.pc \in {"receive", "resubscribe"} /\ NextFrame /\ Publish
        /\ UNCHANGED <<ping, delay, stopper, line>>
    BY <1>3 DEF Pong, Subscribed, Data, ResubscribeSent, SettlesEmpty, FrameIs, At
  <2>2. ~sock.hasPing => PingDone'
    BY <2>1 DEF PingIsHeld, PingDone
  <2>3. sock.synced => answered
    BY <2>1 DEF ToldIsCurrent, HealthEarned, Telling
  <2>4. /\ sock' \in Sock /\ sock'.connected = sock.connected
        /\ sock'.hasPing = sock.hasPing
        /\ sock'.synced => answered'
        /\ sock'.acknowledged => answered'
        /\ answered' \in BOOLEAN
    <3>1. CASE Pong
      BY <1>1, <2>3, <3>1 DEF Pong, Sock, AcknowledgedIsAnswered
    <3>2. CASE Subscribed
      BY <1>1, <3>2 DEF Subscribed, Sock
    <3>3. CASE Data
      <4> DEFINE s == [sock EXCEPT !.acknowledged = TRUE]
      <4>1. s \in Sock /\ s.connected = sock.connected /\ s.hasPing = sock.hasPing
        BY <1>1 DEF Sock
      <4>2. sock' = MarkHealthy(s) /\ answered' = TRUE
        BY <3>3 DEF Data
      <4> HIDE DEF s
      <4>3. QED
        BY <4>1, <4>2, MarkHealthyType
    <3>4. CASE ResubscribeSent
      BY <1>1, <2>3, <3>4 DEF ResubscribeSent, AcknowledgedIsAnswered
    <3>5. CASE SettlesEmpty
      <4>1. sock' = MarkHealthy(sock) /\ answered' = answered /\ sock.acknowledged
        BY <3>5 DEF SettlesEmpty
      <4>2. QED
        BY <1>1, <4>1, MarkHealthyType DEF AcknowledgedIsAnswered
    <3>6. QED
      BY <1>3, <3>1, <3>2, <3>3, <3>4, <3>5
  <2>5. sock'.connected
    BY <2>1, <2>4 DEF ToldIsCurrent, Telling
  <2>6. QED
    BY <1>1, <2>1, <2>2, <2>4, <2>5, NextFrameInv
<1>4. QED
  BY <1>2, <1>3

\* How a connection begins and ends.
LEMMA RunnerTurnsInv ==
    ASSUME IInv,
           \/ Start \/ ConnectFails \/ ConnectSucceeds \/ UnwindEnds \/ LeaveEnds \/ BackoffEnds
    PROVE  IInv'
<1> USE DEF IInv
<1>1. /\ sock \in Sock /\ ping \in Ping /\ runner \in Runner
      /\ delay \in MinDelay..MaxDelay /\ MinDelay \in MinDelay..MaxDelay
  BY DelayAssumption DEF TypeOK
<1>2. CASE Start
  BY <1>1, <1>2, BeginConnectionInv DEF Start
<1>3. CASE ConnectFails
  <2>1. runner.pc \in {"token", "connect"} /\ Disconnected
        /\ UNCHANGED <<ping, delay, stopper, line, answered>>
    BY <1>3 DEF ConnectFails, At
  <2>2. PingDone /\ line' = "closed"
    BY <2>1 DEF PingIsInLoop, IdleIsDown, Idle, Telling
  <2>3. QED
    BY <2>1, <2>2, DisconnectedInv
<1>4. CASE ConnectSucceeds
  <2>1. /\ runner' \in Runner /\ runner'.pc = "subscribe" /\ runner.pc = "connect"
        /\ UNCHANGED <<ping, delay, published, stopper, answered>> /\ line' = "open"
    BY <1>1, <1>4 DEF ConnectSucceeds, At, Goto, Runner
  <2>2. /\ sock' \in Sock /\ sock'.connected /\ ~sock'.synced /\ ~sock'.acknowledged
        /\ sock'.hasPing = sock.hasPing
    BY <1>1, <1>4, <2>1 DEF ConnectSucceeds, Sock, IdleIsDown, Idle
  <2>3. ~published.connected /\ ~published.synced /\ PingDone
    BY <2>1 DEF IdleIsDown, Idle, StateOf, PingIsInLoop, Telling
  <2>4. TypeOK'
    BY <2>1, <2>2 DEF TypeOK
  <2>5. IdleIsDown' /\ SubscribeIsDown' /\ ToldIsCurrent' /\ ReceiveIsCurrent'
    BY <2>1, <2>2, <2>3
       DEF IdleIsDown, SubscribeIsDown, ToldIsCurrent, ReceiveIsCurrent, Idle, Telling
  <2>6. HealthEarned' /\ AcknowledgedIsAnswered'
    BY <2>1, <2>2, <2>3 DEF HealthEarned, AcknowledgedIsAnswered
  <2>7. PingIsHeld' /\ PingIsInLoop' /\ EndIsClosed' /\ ReturnedIsEnded'
    BY <2>1, <2>3 DEF PingIsHeld, PingIsInLoop, EndIsClosed, ReturnedIsEnded, PingDone
  <2>8. QED
    BY <2>4, <2>5, <2>6, <2>7
<1>5. CASE UnwindEnds
  <2>1. /\ runner' \in Runner /\ runner'.pc = "leave" /\ runner.pc = "unwind" /\ PingDone
        /\ UNCHANGED <<ping, delay, stopper, line, answered>>
    BY <1>1, <1>5 DEF UnwindEnds, PingIsHeld, Runner
  <2>2. /\ sock' \in Sock
        /\ sock'.acknowledged => sock.acknowledged
        /\ published' \in SocketState
        /\ published'.synced => published'.connected /\ published.synced
    <3>1. \/ sock' = sock
          \/ sock' = [sock EXCEPT !.hasPing = FALSE, !.connected = FALSE,
                                  !.synced = FALSE, !.acknowledged = FALSE]
          \/ sock' = [sock EXCEPT !.hasPing = FALSE, !.connected = FALSE]
      BY <1>5 DEF UnwindEnds
    <3>2. sock' \in Sock /\ (sock'.acknowledged => sock.acknowledged)
      BY <1>1, <3>1 DEF Sock
    <3>3. published' = published \/ (Publish /\ ~sock'.synced)
      BY <1>1, <1>5 DEF UnwindEnds, Sock
    <3>4. published' \in SocketState
      BY <3>2, <3>3, StateOfType DEF Publish, TypeOK
    <3>5. QED
      BY <3>2, <3>3, <3>4 DEF Publish, StateOf, HealthEarned
  <2>3. TypeOK'
    BY <2>1, <2>2 DEF TypeOK
  <2>4. IdleIsDown' /\ SubscribeIsDown' /\ ToldIsCurrent' /\ ReceiveIsCurrent'
    BY <2>1 DEF IdleIsDown, SubscribeIsDown, ToldIsCurrent, ReceiveIsCurrent, Idle, Telling
  <2>5. HealthEarned' /\ AcknowledgedIsAnswered'
    BY <2>1, <2>2 DEF HealthEarned, AcknowledgedIsAnswered
  <2>6. PingIsHeld' /\ PingIsInLoop' /\ EndIsClosed' /\ ReturnedIsEnded'
    BY <2>1 DEF PingIsHeld, PingIsInLoop, EndIsClosed, ReturnedIsEnded, PingDone
  <2>7. QED
    BY <2>3, <2>4, <2>5, <2>6
<1>6. CASE LeaveEnds
  <2>1. runner.pc = "leave" /\ line' = "closed" /\ UNCHANGED <<ping, stopper, answered>>
    BY <1>6 DEF LeaveEnds, At
  <2>2. PingDone
    BY <2>1 DEF PingIsInLoop, Telling
  <2>3. CASE runner.cause = "error"
    BY <1>6, <2>1, <2>2, <2>3, DisconnectedInv DEF LeaveEnds
  <2>4. CASE runner.cause # "error"
    <3>1. /\ UNCHANGED <<sock, published>> /\ delay' \in MinDelay..MaxDelay
          /\ runner' \in Runner /\ runner'.pc = "ended"
      BY <1>1, <1>6, <2>4 DEF LeaveEnds, Runner
    <3>2. QED
      BY <2>1, <2>2, <3>1, MovesOn DEF Idle, Telling
  <2>5. QED
    BY <2>3, <2>4
<1>7. CASE BackoffEnds
  <2>1. /\ runner.pc = "backoff" /\ UNCHANGED <<ping, published, stopper, line>>
        /\ delay' \in MinDelay..MaxDelay
    BY <1>1, <1>7, DelayType DEF BackoffEnds, At
  <2>2. CASE sock.stop
    <3>1. UNCHANGED <<sock, answered>> /\ runner' \in Runner /\ runner'.pc = "ended"
      BY <1>1, <1>7, <2>2 DEF BackoffEnds, Goto, Runner
    <3>2. line' = "closed"
      BY <2>1 DEF IdleIsDown, Idle
    <3>3. QED
      BY <2>1, <3>1, <3>2, MovesOn DEF Idle, Telling
  <2>3. CASE ~sock.stop
    BY <1>7, <2>1, <2>3, BeginConnectionInv DEF BackoffEnds
  <2>4. QED
    BY <2>2, <2>3
<1>8. QED
  BY <1>2, <1>3, <1>4, <1>5, <1>6, <1>7

-----------------------------------------------------------------------------
\* The invariant

\* Before it is started the socket is down, and so it is said to be.
LEMMA InitInv == Init => IInv
<1> SUFFICES ASSUME Init PROVE IInv
  OBVIOUS
<1>1. 0 \in 0..MaxAttempt /\ MinDelay \in MinDelay..MaxDelay
  BY BoundsAssumption, DelayAssumption
<1>2. sock \in Sock
  BY <1>1 DEF Init, Sock
<1>3. TypeOK
  BY <1>1, <1>2, StateOfType DEF Init, TypeOK, Runner, Ping, Stopper
<1>4. QED
  BY <1>3 DEF Init, IInv, IdleIsDown, SubscribeIsDown, ToldIsCurrent, ReceiveIsCurrent,
     HealthEarned, AcknowledgedIsAnswered, PingIsHeld, PingIsInLoop, EndIsClosed,
     ReturnedIsEnded, Idle, Telling, StateOf, PingDone

\* The invariant is inductive.
LEMMA NextInv == IInv /\ [Next]_vars => IInv'
<1> SUFFICES ASSUME IInv, [Next]_vars PROVE IInv'
  OBVIOUS
<1>1. CASE UNCHANGED vars
  BY <1>1, BesideRunner DEF vars, IInv, TypeOK, PingDone
<1>2. CASE RunnerReads
  BY <1>2, RunnerMovesInv, RunnerPublishesInv DEF RunnerReads
<1>3. CASE RunnerStep
  BY <1>3, RunnerMovesInv, RunnerPublishesInv, RunnerTurnsInv DEF RunnerStep
<1>4. CASE PingStep
  BY <1>4, PingStepInv
<1>5. CASE StopBegins \/ StopStep
  BY <1>5, StopBeginsInv, StopAwaitsRunnerInv DEF StopStep
<1>6. CASE LineDrops \/ LineGoesSilent
  BY <1>6, LineInv
<1>7. QED
  BY <1>1, <1>2, <1>3, <1>4, <1>5, <1>6 DEF Next, Terminated

\* Every variable holds what its Python counterpart may hold.
THEOREM TypeCorrect == Spec => []TypeOK
<1>1. IInv => TypeOK
  BY DEF IInv
<1>2. QED
  BY <1>1, InitInv, NextInv, PTL DEF Spec

\* The coordinator takes a location for healthy only while the server has
\* answered a subscription of the current connection.
THEOREM HealthIsEarned == Spec => []HealthEarned
<1>1. IInv => HealthEarned
  BY DEF IInv
<1>2. QED
  BY <1>1, InitInv, NextInv, PTL DEF Spec

\* Where the runner waits, the coordinator holds the present state.
THEOREM PublishedAlwaysCurrent == Spec => []PublishedIsCurrent
<1>1. IInv => PublishedIsCurrent
  BY DEF IInv, PublishedIsCurrent, IdleIsDown, ReceiveIsCurrent, Idle
<1>2. QED
  BY <1>1, InitInv, NextInv, PTL DEF Spec

\* No two ping tasks share a pong event.
THEOREM AlwaysOnePing == Spec => []OnePing
<1>1. IInv => OnePing
  BY DEF IInv, OnePing, PingIsInLoop, Telling
<1>2. QED
  BY <1>1, InitInv, NextInv, PTL DEF Spec

\* A stop that returns leaves no task and no connection.
THEOREM StopAlwaysClears == Spec => []StopLeavesNothing
<1>1. IInv => StopLeavesNothing
  BY DEF IInv, StopLeavesNothing, ReturnedIsEnded, PingIsInLoop, EndIsClosed, Telling
<1>2. QED
  BY <1>1, InitInv, NextInv, PTL DEF Spec

-----------------------------------------------------------------------------
\* The delay before a reconnect

\* A set of naturals that holds 0 and each successor holds them all.
LEMMA SetInduction ==
    ASSUME NEW S, S \subseteq Nat, 0 \in S, \A n \in S : n + 1 \in S
    PROVE  S = Nat
<1>1. SUFFICES ASSUME Nat \ S # {} PROVE FALSE
  OBVIOUS
<1> DEFINE T == Nat \ S
<1>2. PICK x \in T : \A y \in T : ~(<<y, x>> \in OpToRel(<, Nat))
  <2>1. IsWellFoundedOn(OpToRel(<, Nat), Nat)
    BY NatLessThanWellFounded
  <2>2. T \subseteq Nat /\ T # {}
    BY <1>1
  <2> HIDE DEF T
  <2> QED
    BY <2>1, <2>2, WFMin
<1>3. /\ x \in Nat /\ x - 1 \in Nat /\ x - 1 < x
      /\ x = (x - 1) + 1
  OBVIOUS
<1>4. x - 1 \in T
  BY <1>3
<1>5. <<x - 1, x>> \in OpToRel(<, Nat)
  BY <1>3 DEF OpToRel
<1> QED
  BY <1>2, <1>4, <1>5

\* The doubled delays exist: the recursion over 0..n has a solution.
LEMMA DoubledExists ==
    ASSUME NEW n \in Nat
    PROVE  \E f : f = [i \in 0..n |-> IF i = 0 THEN MinDelay ELSE 2 * f[i - 1]]
<1> DEFINE Solved(m) == \E f : f = [i \in 0..m |-> IF i = 0 THEN MinDelay ELSE 2 * f[i - 1]]
           S == {m \in Nat : Solved(m)}
<1>1. Solved(0)
  <2> DEFINE f == [i \in 0..0 |-> MinDelay]
  <2>1. f = [i \in 0..0 |-> IF i = 0 THEN MinDelay ELSE 2 * f[i - 1]]
    OBVIOUS
  <2> QED
    BY <2>1
<1>2. ASSUME NEW m \in Nat, Solved(m) PROVE Solved(m + 1)
  <2>1. PICK f : f = [i \in 0..m |-> IF i = 0 THEN MinDelay ELSE 2 * f[i - 1]]
    BY <1>2
  <2> DEFINE g == [i \in 0..(m + 1) |-> IF i = m + 1 THEN 2 * f[m] ELSE f[i]]
             h == [i \in 0..(m + 1) |-> IF i = 0 THEN MinDelay ELSE 2 * g[i - 1]]
  <2>2. ASSUME NEW i \in 0..(m + 1) PROVE g[i] = h[i]
    <3>1. CASE i = m + 1
      BY <3>1
    <3>2. CASE i \in 0..m
      BY <3>2, <2>1
    <3> QED
      BY <3>1, <3>2
  <2>3. g = h
    BY <2>2
  <2> QED
    BY <2>3
<1>3. S = Nat
  <2>1. S \subseteq Nat /\ 0 \in S
    BY <1>1
  <2>2. \A m \in S : m + 1 \in S
    BY <1>2
  <2> HIDE DEF S
  <2> QED
    BY <2>1, <2>2, SetInduction
<1> QED
  BY <1>3

\* ... and Doubled is one.
LEMMA DoubledEquation ==
    /\ Doubled[0] = MinDelay
    /\ \A n \in 1..MaxAttempt : Doubled[n] = 2 * Doubled[n - 1]
<1>1. MaxAttempt \in Nat
  BY BoundsAssumption
<1>2. Doubled = [n \in 0..MaxAttempt |-> IF n = 0 THEN MinDelay ELSE 2 * Doubled[n - 1]]
  BY <1>1, DoubledExists, Zenon DEF Doubled
<1> HIDE DEF Doubled
<1> QED
  BY <1>1, <1>2

\* It is a number not below the first delay, and grows.
LEMMA DoubledType ==
    ASSUME NEW n \in 0..MaxAttempt
    PROVE  /\ Doubled[n] \in Nat /\ Doubled[n] >= MinDelay
           /\ n > 0 => Doubled[n] = 2 * Doubled[n - 1] /\ Doubled[n - 1] \in Nat
<1> DEFINE Good(m) == m <= MaxAttempt => Doubled[m] \in Nat /\ Doubled[m] >= MinDelay
           S == {m \in Nat : Good(m)}
<1>1. MaxAttempt \in Nat /\ MinDelay \in Nat
  BY BoundsAssumption, DelayAssumption
<1>2. Good(0)
  BY <1>1, DoubledEquation
<1>3. ASSUME NEW m \in Nat, Good(m) PROVE Good(m + 1)
  <2>1. SUFFICES ASSUME m + 1 <= MaxAttempt PROVE Doubled[m + 1] \in Nat /\ Doubled[m + 1] >= MinDelay
    OBVIOUS
  <2>2. Doubled[m + 1] = 2 * Doubled[m]
    <3>1. m + 1 \in 1..MaxAttempt /\ (m + 1) - 1 = m
      BY <1>1, <2>1
    <3> QED
      BY <3>1, DoubledEquation
  <2>3. Doubled[m] \in Nat /\ Doubled[m] >= MinDelay
    BY <1>1, <1>3, <2>1
  <2> QED
    BY <1>1, <2>2, <2>3
<1>4. S = Nat
  <2>1. S \subseteq Nat /\ 0 \in S
    BY <1>2
  <2>2. \A m \in S : m + 1 \in S
    BY <1>3
  <2> HIDE DEF S
  <2> QED
    BY <2>1, <2>2, SetInduction
<1>5. \A m \in 0..MaxAttempt : Doubled[m] \in Nat /\ Doubled[m] >= MinDelay
  BY <1>1, <1>4
<1>6. ASSUME n > 0 PROVE Doubled[n] = 2 * Doubled[n - 1] /\ n - 1 \in 0..MaxAttempt
  BY <1>1, <1>6, DoubledEquation
<1> QED
  BY <1>5, <1>6

\* How long the delay is at least, n failures after the last health.
Floor(n) == Lesser(MaxDelay, Doubled[n])

\* The delay keeps up with the failures: it is doubled where a reconnect begins,
\* one failure behind while it is waited for.
DelayKeepsUp ==
    /\ runner.pc = "backoff" => sock.attempt >= 1 /\ delay >= Floor(sock.attempt - 1)
    /\ runner.pc \notin {"backoff", "ended"} => delay >= Floor(sock.attempt)

\* A floor is a number; the first is the least; the next is at most twice as high.
LEMMA FloorType ==
    ASSUME NEW n \in 0..MaxAttempt
    PROVE  /\ Floor(n) \in Nat
           /\ Floor(0) <= MinDelay
           /\ n > 0 => Floor(n - 1) \in Nat /\ Floor(n - 1) <= Floor(n)
           /\ n > 0 => Floor(n) <= Lesser(2 * Floor(n - 1), MaxDelay)
<1>1. MinDelay \in Nat /\ MaxDelay \in Nat /\ MinDelay <= MaxDelay
  BY DelayAssumption
<1>2. Doubled[n] \in Nat /\ Doubled[0] = MinDelay
  BY DoubledType, DoubledEquation
<1>3. n > 0 => Doubled[n] = 2 * Doubled[n - 1] /\ Doubled[n - 1] \in Nat
  BY DoubledType
<1> HIDE DEF Doubled
<1> QED
  BY <1>1, <1>2, <1>3 DEF Floor, Lesser

\* A step that leaves the delay and the failures alone, and neither fails nor
\* begins a connection after a failure.
LEMMA DelayBeside ==
    ASSUME DelayKeepsUp, delay' = delay, sock'.attempt = sock.attempt,
           runner'.pc = "backoff" => runner.pc = "backoff",
           runner.pc = "backoff" => runner'.pc \in {"backoff", "ended"},
           runner.pc = "ended" => runner'.pc = "ended"
    PROVE  DelayKeepsUp'
BY DEF DelayKeepsUp, Floor

\* A step to a healthy location, whose failures are forgotten and whose delay is not.
LEMMA DelayOutlivesHealth ==
    ASSUME IInv, delay' = delay, sock'.attempt = 0, runner'.pc # "backoff"
    PROVE  DelayKeepsUp'
<1>1. MinDelay \in Nat /\ MaxDelay \in Nat /\ delay \in Nat /\ delay >= MinDelay
  BY DelayAssumption DEF IInv, TypeOK
<1>2. 0 \in 0..MaxAttempt
  BY BoundsAssumption
<1>3. delay >= Floor(0)
  BY <1>1, <1>2, FloorType
<1> QED
  BY <1>3 DEF DelayKeepsUp, Floor

\* A failure is counted before the delay is doubled for it.
LEMMA DelayAwaitsFailure ==
    ASSUME IInv, DelayKeepsUp, runner.pc \notin {"backoff", "ended"},
           Disconnected, delay' = delay
    PROVE  DelayKeepsUp'
<1>1. /\ sock \in Sock /\ sock.attempt \in 0..MaxAttempt /\ MaxAttempt \in Nat \ {0}
      /\ delay \in Nat
  BY DelayAssumption, BoundsAssumption DEF IInv, TypeOK, Sock
<1>2. sock'.attempt = Lesser(sock.attempt + 1, MaxAttempt)
  BY <1>1 DEF Disconnected, MarkDisconnected, Sock
<1>3. runner'.pc \in {"backoff", "ended"}
  BY DEF Disconnected, IInv, TypeOK, Runner
<1>4. delay >= Floor(sock.attempt)
  BY DEF DelayKeepsUp
<1>5. sock'.attempt >= 1
  BY <1>1, <1>2 DEF Lesser
<1>6. delay >= Floor(sock'.attempt - 1)
  <2>1. CASE sock.attempt < MaxAttempt
    BY <1>1, <1>2, <1>4, <2>1 DEF Lesser
  <2>2. CASE sock.attempt = MaxAttempt
    <3>1. sock'.attempt = sock.attempt
      BY <1>1, <1>2, <2>2 DEF Lesser
    <3>2. /\ Floor(sock.attempt) \in Nat /\ Floor(sock.attempt - 1) \in Nat
          /\ Floor(sock.attempt - 1) <= Floor(sock.attempt)
      BY <1>1, <2>2, FloorType
    <3> QED
      BY <1>1, <1>4, <3>1, <3>2
  <2> QED
    BY <1>1, <2>1, <2>2
<1> QED
  BY <1>3, <1>5, <1>6 DEF DelayKeepsUp, Floor

\* The delay is doubled, up to its maximum, where the reconnect begins.
LEMMA DelayDoubles == IInv /\ DelayKeepsUp /\ BackoffEnds => DelayKeepsUp'
<1> SUFFICES ASSUME IInv, DelayKeepsUp, BackoffEnds PROVE DelayKeepsUp'
  OBVIOUS
<1>1. /\ sock \in Sock /\ sock.attempt \in 0..MaxAttempt /\ runner \in Runner
      /\ delay \in Nat /\ MaxDelay \in Nat
  BY DelayAssumption DEF IInv, TypeOK, Sock
<1>2. sock.attempt >= 1 /\ delay >= Floor(sock.attempt - 1)
  BY DEF BackoffEnds, At, DelayKeepsUp
<1>3. delay' = Lesser(2 * delay, MaxDelay) /\ sock'.attempt = sock.attempt
  BY <1>1 DEF BackoffEnds, BeginConnection, Sock
<1>4. runner'.pc # "backoff"
  BY <1>1 DEF BackoffEnds, BeginConnection, Goto, Runner
<1>5. /\ Floor(sock.attempt) \in Nat /\ Floor(sock.attempt - 1) \in Nat
      /\ Floor(sock.attempt) <= Lesser(2 * Floor(sock.attempt - 1), MaxDelay)
  BY <1>1, <1>2, FloorType
<1>6. delay' >= Floor(sock.attempt)
  <2> HIDE DEF Floor
  <2> QED
    BY <1>1, <1>2, <1>3, <1>5 DEF Lesser
<1> QED
  BY <1>3, <1>4, <1>6 DEF DelayKeepsUp, Floor

\* What the runner does between two frames, but for the two that say it is healthy.
LEMMA ReadsDelay ==
    ASSUME IInv, DelayKeepsUp, RunnerReads \/ SettlesEmpty PROVE DelayKeepsUp'
<1>1. sock \in Sock /\ runner \in Runner
  BY DEF IInv, TypeOK
<1>2. delay' = delay /\ runner.pc = "receive"
  BY DEF RunnerReads, Pong, Subscribed, Data, Forbidden, BadFrame, SettlesEmpty, FrameIs, At
<1>3. runner'.pc \in {"receive", "renew", "unwind"}
  BY <1>1, <1>2 DEF RunnerReads, Pong, Subscribed, Data, Forbidden, BadFrame, SettlesEmpty,
     NextFrame, Goto, Unwind, Runner
<1>4. CASE Data \/ SettlesEmpty
  <2>1. CASE Data
    <3> DEFINE s == [sock EXCEPT !.acknowledged = TRUE]
    <3>1. s \in Sock /\ sock' = MarkHealthy(s)
      BY <1>1, <2>1 DEF Data, Sock
    <3> HIDE DEF s
    <3>2. sock'.attempt = 0
      BY <3>1 DEF MarkHealthy, Sock
    <3> QED
      BY <1>2, <1>3, <3>2, DelayOutlivesHealth
  <2>2. CASE SettlesEmpty
    <3>1. sock'.attempt = 0
      BY <1>1, <2>2 DEF SettlesEmpty, MarkHealthy, Sock
    <3> QED
      BY <1>2, <1>3, <3>1, DelayOutlivesHealth
  <2> QED
    BY <1>4, <2>1, <2>2
<1>5. CASE Pong \/ Subscribed \/ Forbidden \/ BadFrame
  <2>1. sock'.attempt = sock.attempt
    BY <1>1, <1>5 DEF Pong, Subscribed, Forbidden, BadFrame, Sock
  <2> QED
    BY <1>2, <1>3, <2>1, DelayBeside
<1> QED
  BY <1>4, <1>5 DEF RunnerReads

\* What begins a connection, carries it on or gives it up.
LEMMA RunnerDelay ==
    ASSUME IInv, DelayKeepsUp, RunnerStep PROVE DelayKeepsUp'
<1>1. sock \in Sock /\ runner \in Runner
  BY DEF IInv, TypeOK
<1>2. CASE Start \/ TokenArrives \/ ConnectSucceeds \/ SubscribeSent \/ SubscribeFails
           \/ RenewArrives \/ ResubscribeSent \/ ConnectionFails
  <2>1. /\ delay' = delay
        /\ runner.pc \in {"none", "token", "connect", "subscribe", "receive", "renew",
                          "resubscribe"}
    BY <1>2 DEF Start, TokenArrives, ConnectSucceeds, SubscribeSent, SubscribeFails,
       RenewArrives, ResubscribeSent, ConnectionFails, At
  <2>2. sock'.attempt = sock.attempt
    BY <1>1, <1>2 DEF Start, TokenArrives, ConnectSucceeds, SubscribeSent, SubscribeFails,
       RenewArrives, ResubscribeSent, ConnectionFails, BeginConnection, Sock
  <2>3. runner'.pc # "backoff"
    BY <1>1, <1>2, <2>1 DEF Start, TokenArrives, ConnectSucceeds, SubscribeSent,
       SubscribeFails, RenewArrives, ResubscribeSent, ConnectionFails, BeginConnection,
       NextFrame, Goto, Unwind, Runner
  <2> QED
    BY <2>1, <2>2, <2>3, DelayBeside
<1>3. CASE UnwindEnds \/ RunnerCancelled
  <2>1. delay' = delay /\ runner.pc # "ended"
    BY <1>3 DEF UnwindEnds, RunnerCancelled
  <2>2. sock'.attempt = sock.attempt
    BY <1>1, <1>3 DEF UnwindEnds, RunnerCancelled, Sock
  <2>3. runner'.pc # "backoff" /\ (runner.pc = "backoff" => runner'.pc = "ended")
    BY <1>1, <1>3 DEF UnwindEnds, RunnerCancelled, Unwind, Runner
  <2> QED
    BY <2>1, <2>2, <2>3, DelayBeside
<1>4. CASE ConnectFails
  BY <1>4, DelayAwaitsFailure DEF ConnectFails, At
<1>5. CASE LeaveEnds
  <2>1. CASE runner.cause = "error"
    BY <1>5, <2>1, DelayAwaitsFailure DEF LeaveEnds, At
  <2>2. CASE runner.cause # "error"
    <3>1. runner'.pc = "ended"
      BY <1>1, <1>5, <2>2 DEF LeaveEnds, Runner
    <3> QED
      BY <3>1 DEF DelayKeepsUp
  <2> QED
    BY <2>1, <2>2
<1>6. CASE SettlesEmpty
  BY <1>6, ReadsDelay
<1>7. CASE BackoffEnds
  BY <1>7, DelayDoubles
<1> QED
  BY <1>2, <1>3, <1>4, <1>5, <1>6, <1>7 DEF RunnerStep

\* The other tasks touch neither.
LEMMA OthersDelay ==
    ASSUME IInv, DelayKeepsUp,
           \/ PingStep \/ StopBegins \/ StopStep \/ LineDrops \/ LineGoesSilent
           \/ UNCHANGED vars
    PROVE  DelayKeepsUp'
<1>1. sock \in Sock /\ runner \in Runner
  BY DEF IInv, TypeOK
<1>2. /\ delay' = delay
      /\ runner' = runner \/ runner' = [runner EXCEPT !.cancelled = TRUE]
  BY DEF PingStep, PingWakes, PingRenews, PingResubscribes, PingSent, PongArrived,
     PongMissed, PingFails, PingCancelled, StopBegins, StopStep, StopAwaitsPing,
     StopAwaitsRunner, CancelRunner, LineDrops, LineGoesSilent, vars
<1>3. runner'.pc = runner.pc
  BY <1>1, <1>2 DEF Runner
<1>4. sock'.attempt = sock.attempt
  BY <1>1 DEF PingStep, PingWakes, PingRenews, PingResubscribes, PingSent, PongArrived,
     PongMissed, PingFails, PingCancelled, StopBegins, StopStep, StopAwaitsPing,
     StopAwaitsRunner, LineDrops, LineGoesSilent, vars, Sock
<1> QED
  BY <1>2, <1>3, <1>4, DelayBeside

\* The strengthened invariant is inductive beside IInv.
LEMMA DelayNextInv == IInv /\ DelayKeepsUp /\ [Next]_vars => DelayKeepsUp'
<1> SUFFICES ASSUME IInv, DelayKeepsUp, [Next]_vars PROVE DelayKeepsUp'
  OBVIOUS
<1> QED
  BY ReadsDelay, RunnerDelay, OthersDelay DEF Next, Terminated

\* The first connection is asked for no delay but the first.
LEMMA DelayInit == Init => DelayKeepsUp
<1> SUFFICES ASSUME Init PROVE DelayKeepsUp
  OBVIOUS
<1>1. 0 \in 0..MaxAttempt /\ MinDelay \in Nat
  BY BoundsAssumption, DelayAssumption
<1>2. delay >= Floor(0) /\ sock.attempt = 0 /\ runner.pc = "none"
  BY <1>1, FloorType DEF Init
<1> QED
  BY <1>2 DEF DelayKeepsUp

\* The delay before a reconnect, which the coordinator is told the failures of,
\* is never shorter than they ask for, however long the location has failed and
\* whatever the two constants are.
THEOREM DelayAlwaysCovers == Spec => []DelayCoversFailures
<1>1. IInv /\ DelayKeepsUp => DelayCoversFailures
  BY DEF IInv, IdleIsDown, Idle, StateOf, DelayKeepsUp, Floor, DelayCoversFailures
<1>2. QED
  BY <1>1, InitInv, NextInv, DelayInit, DelayNextInv, PTL DEF Spec

-----------------------------------------------------------------------------
\* The refinement

\* the two facts SocketView is about
ViewOf(p) == [connected |-> p.connected, synced |-> p.synced]

\* the steps of SocketView
Stutters == ViewOf(published') = ViewOf(published)
Reports ==
    /\ stopper # "returned" /\ stopper' # "returned"
    /\ \/ /\ ViewOf(published) = Told!Down /\ ViewOf(published') = Told!Up
       \/ /\ ViewOf(published) = Told!Up /\ ViewOf(published') = Told!Ready
       \/ /\ ViewOf(published) = Told!Up /\ ViewOf(published') = Told!Down
       \/ /\ ViewOf(published) = Told!Ready /\ ViewOf(published') = Told!Down

\* A report of a connection lost follows every other.
LEMMA DownFollows ==
    ASSUME IInv, IInv', stopper # "returned", UNCHANGED stopper,
           ~published'.connected, ~published'.synced
    PROVE  Reports \/ Stutters
<1>1. published.synced => published.connected
  BY DEF IInv, HealthEarned
<1>2. /\ published.connected \in BOOLEAN /\ published.synced \in BOOLEAN
      /\ published'.connected \in BOOLEAN /\ published'.synced \in BOOLEAN
  BY DEF IInv, TypeOK, SocketState
<1>3. ViewOf(published') = Told!Down
  BY <1>2 DEF ViewOf, Told!Down
<1>4. ViewOf(published) \in {Told!Down, Told!Up, Told!Ready}
  BY <1>1, <1>2 DEF ViewOf, Told!Down, Told!Up, Told!Ready
<1>5. QED
  BY <1>3, <1>4 DEF Reports, Stutters

\* A subscription, and the initial sync, are told of in that order.
LEMMA TellingFollows ==
    ASSUME IInv, IInv',
           SubscribeSent \/ Pong \/ Subscribed \/ Data \/ ResubscribeSent \/ SettlesEmpty
    PROVE  Reports \/ Stutters
<1>1. /\ runner.pc \in {"subscribe", "receive", "resubscribe"}
      /\ Publish /\ UNCHANGED stopper
  BY DEF SubscribeSent, Pong, Subscribed, Data, ResubscribeSent, SettlesEmpty, FrameIs, At
<1>2. stopper # "returned"
  BY <1>1 DEF IInv, ReturnedIsEnded
<1>3. /\ published.connected \in BOOLEAN /\ published.synced \in BOOLEAN
      /\ published'.connected \in BOOLEAN /\ published'.synced \in BOOLEAN
      /\ sock \in Sock
  BY DEF IInv, TypeOK, SocketState
<1>4. published'.connected = sock'.connected /\ published'.synced = sock'.synced
  BY <1>1 DEF Publish, StateOf
<1>5. CASE SubscribeSent
  <2>1. ~published.connected /\ ~published.synced /\ sock.connected /\ ~sock.synced
    BY <1>5 DEF SubscribeSent, At, IInv, SubscribeIsDown
  <2>2. sock'.connected = sock.connected /\ sock'.synced = sock.synced
    BY <1>3, <1>5 DEF SubscribeSent, Sock
  <2>3. ViewOf(published) = Told!Down /\ ViewOf(published') = Told!Up
    BY <1>3, <1>4, <2>1, <2>2 DEF ViewOf, Told!Down, Told!Up
  <2>4. QED
    BY <1>1, <1>2, <2>3 DEF Reports
<1>6. CASE Pong \/ Subscribed \/ Data \/ ResubscribeSent \/ SettlesEmpty
  <2>1. runner.pc \in Telling
    BY <1>6 DEF Pong, Subscribed, Data, ResubscribeSent, SettlesEmpty, FrameIs, At, Telling
  <2>2. published.connected /\ published.synced = sock.synced /\ sock.connected
    BY <2>1 DEF IInv, ToldIsCurrent
  <2>3. sock'.connected = sock.connected /\ (sock.synced => sock'.synced)
    <3>1. CASE Pong
      BY <1>3, <3>1 DEF Pong, Sock
    <3>2. CASE Subscribed
      BY <1>3, <3>2 DEF Subscribed, Sock
    <3>3. CASE Data
      <4> DEFINE s == [sock EXCEPT !.acknowledged = TRUE]
      <4>1. s \in Sock /\ s.connected = sock.connected
        BY <1>3 DEF Sock
      <4>2. sock' = MarkHealthy(s)
        BY <3>3 DEF Data
      <4> HIDE DEF s
      <4>3. QED
        BY <4>1, <4>2, MarkHealthyType
    <3>4. CASE ResubscribeSent
      BY <3>4 DEF ResubscribeSent
    <3>5. CASE SettlesEmpty
      BY <1>3, <3>5, MarkHealthyType DEF SettlesEmpty
    <3>6. QED
      BY <1>6, <3>1, <3>2, <3>3, <3>4, <3>5
  <2>4. ViewOf(published) \in {Told!Up, Told!Ready}
    BY <1>3, <2>2 DEF ViewOf, Told!Up, Told!Ready
  <2>5. ViewOf(published') = Told!Ready \/ ViewOf(published') = ViewOf(published)
    BY <1>3, <1>4, <2>2, <2>3 DEF ViewOf, Told!Ready
  <2>6. QED
    BY <1>1, <1>2, <2>4, <2>5 DEF Reports, Stutters
<1>7. QED
  BY <1>5, <1>6

\* Every step is a report SocketView allows or tells the coordinator nothing;
\* async_stop returns once, and nothing is reported after that.
LEMMA StepFollows ==
    ASSUME IInv, IInv', Next
    PROVE  \/ Reports
           \/ Stutters /\ (stopper = "returned" => stopper' = "returned")
<1>1. CASE SubscribeSent \/ Pong \/ Subscribed \/ Data \/ ResubscribeSent \/ SettlesEmpty
  <2>1. UNCHANGED stopper
    BY <1>1 DEF SubscribeSent, Pong, Subscribed, Data, ResubscribeSent, SettlesEmpty
  <2>2. QED
    BY <1>1, <2>1, TellingFollows
<1>2. CASE ConnectFails
  <2>1. /\ runner.pc \in {"token", "connect"} /\ UNCHANGED stopper
        /\ published' = StateOf(MarkDisconnected(sock))
    BY <1>2 DEF ConnectFails, At, Disconnected, Publish
  <2>2. stopper # "returned" /\ sock \in Sock
    BY <2>1 DEF IInv, ReturnedIsEnded, TypeOK
  <2>3. ~published'.connected /\ ~published'.synced
    BY <2>1, <2>2, MarkDisconnectedType DEF StateOf
  <2>4. QED
    BY <2>1, <2>2, <2>3, DownFollows
<1>3. CASE LeaveEnds
  <2>1. runner.pc = "leave" /\ UNCHANGED stopper
    BY <1>3 DEF LeaveEnds, At
  <2>2. stopper # "returned" /\ sock \in Sock
    BY <2>1 DEF IInv, ReturnedIsEnded, TypeOK
  <2>3. published' = published \/ published' = StateOf(MarkDisconnected(sock))
    BY <1>3 DEF LeaveEnds, Disconnected, Publish
  <2>4. CASE published' = published
    BY <2>1, <2>4 DEF Stutters, ViewOf
  <2>5. CASE published' = StateOf(MarkDisconnected(sock))
    <3>1. ~published'.connected /\ ~published'.synced
      BY <2>2, <2>5, MarkDisconnectedType DEF StateOf
    <3>2. QED
      BY <2>1, <2>2, <3>1, DownFollows
  <2>6. QED
    BY <2>3, <2>4, <2>5
<1>4. CASE UnwindEnds
  <2>1. runner.pc = "unwind" /\ UNCHANGED stopper
    BY <1>4 DEF UnwindEnds
  <2>2. stopper # "returned" /\ sock \in Sock
    BY <2>1 DEF IInv, ReturnedIsEnded, TypeOK
  <2>3. \/ published' = published
        \/ /\ sock' = [sock EXCEPT !.hasPing = FALSE, !.connected = FALSE,
                                   !.synced = FALSE, !.acknowledged = FALSE]
           /\ published' = StateOf(sock')
    BY <1>4 DEF UnwindEnds, Publish
  <2>4. CASE published' = published
    BY <2>1, <2>4 DEF Stutters, ViewOf
  <2>5. CASE published' # published
    <3>a. ~sock'.connected /\ ~sock'.synced /\ published' = StateOf(sock')
      BY <2>2, <2>3, <2>5 DEF Sock
    <3>1. ~published'.connected /\ ~published'.synced
      BY <3>a DEF StateOf
    <3>2. QED
      BY <2>1, <2>2, <3>1, DownFollows
  <2>6. QED
    BY <2>4, <2>5
<1>5. CASE Start \/ TokenArrives \/ ConnectSucceeds \/ SubscribeFails \/ RenewArrives
             \/ BackoffEnds \/ RunnerCancelled \/ ConnectionFails \/ Forbidden \/ BadFrame
  <2>1. UNCHANGED <<published, stopper>>
    BY <1>5 DEF Start, TokenArrives, ConnectSucceeds, SubscribeFails, RenewArrives,
       BackoffEnds, RunnerCancelled, ConnectionFails, Forbidden, BadFrame
  <2>2. QED
    BY <2>1 DEF Stutters, ViewOf
<1>6. CASE PingStep \/ LineDrops \/ LineGoesSilent \/ Terminated
  <2>1. UNCHANGED <<published, stopper>>
    BY <1>6 DEF PingStep, PingWakes, PingRenews, PingResubscribes, PingSent, PongArrived,
       PongMissed, PingFails, PingCancelled, LineDrops, LineGoesSilent, Terminated, vars
  <2>2. QED
    BY <2>1 DEF Stutters, ViewOf
<1>7. CASE StopBegins \/ StopStep
  <2>1. UNCHANGED published /\ stopper # "returned"
    BY <1>7 DEF StopBegins, StopStep, StopAwaitsPing, StopAwaitsRunner
  <2>2. QED
    BY <2>1 DEF Stutters, ViewOf
<1>8. QED
  BY <1>1, <1>2, <1>3, <1>4, <1>5, <1>6, <1>7 DEF Next, RunnerReads, RunnerStep

\* What the coordinator is told is what SocketView promises: every run of the
\* socket is, for its two published facts and its end, a run of SocketView.
THEOREM ImplementsSocketView == Spec => TellsSocketView
<1>1. Init => Told!Init
  BY DEF Init, StateOf, Told!Init, Told!Down
<1>2. ASSUME IInv, IInv', [Next]_vars
      PROVE  [Told!Next]_<<ViewOf(published), stopper = "returned">>
  <2>1. CASE UNCHANGED vars
    BY <2>1 DEF vars, ViewOf
  <2>2. CASE Next /\ Reports
    <3>1. PICK report \in Told!Report :
             ViewOf(published) = report[1] /\ ViewOf(published') = report[2]
      BY <2>2 DEF Reports, Told!Report
    <3>2. Told!Publish
      BY <2>2, <3>1 DEF Reports, Told!Publish, ViewOf
    <3>3. QED
      BY <3>2 DEF Told!Next
  <2>3. CASE Next /\ Stutters /\ (stopper = "returned" => stopper' = "returned")
    <3>1. CASE (stopper' = "returned") = (stopper = "returned")
      BY <2>3, <3>1 DEF Stutters
    <3>2. CASE stopper # "returned" /\ stopper' = "returned"
      <4>1. Told!Close
        BY <2>3, <3>2 DEF Stutters, Told!Close, ViewOf
      <4>2. QED
        BY <4>1 DEF Told!Next
    <3>3. QED
      BY <2>3, <3>1, <3>2
  <2>4. QED
    BY <1>2, <2>1, <2>2, <2>3, StepFollows
<1>3. QED
  <2>1. Spec => []IInv
    BY InitInv, NextInv, PTL DEF Spec
  <2>2. Spec => [][Told!Next]_<<ViewOf(published), stopper = "returned">>
    BY <2>1, <1>2, PTL DEF Spec
  <2>3. QED
    BY <1>1, <2>2, PTL DEF Spec, TellsSocketView, Told!Spec, ViewOf
=============================================================================
