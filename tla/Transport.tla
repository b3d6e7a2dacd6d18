------------------------------ MODULE Transport ------------------------------
(***************************************************************************)
(* One public WebSocket session: PublicWsSession with its bounded raw sink *)
(* and its ping watchdog (rust/lob-replay/src/transport.rs).               *)
(*                                                                         *)
(* A data payload is an ordinary frame, one over the size limit, a server  *)
(* shutdown or a malformed one; a ping is of legal size or not.  A queued  *)
(* frame is its index.  Calls that return Err change nothing and are not   *)
(* steps.  The round-trip statistics are left out.                         *)
(***************************************************************************)
EXTENDS Integers, Sequences, FiniteSetsExt

CONSTANTS
  Capacity,      \* of the raw sink
  MaxControl,    \* MAX_CLIENT_CONTROL_PER_SECOND
  Second,        \* ONE_SECOND_NS
  PingInterval, PongDeadline,
  Times,         \* the monotonic clock's values
  MaxFrame,      \* bound: frames received
  None

ASSUME TransportAssumption ==
  /\ Capacity \in Nat \ {0} /\ MaxControl \in Nat \ {0} /\ Second \in Nat \ {0}
  /\ PingInterval \in Nat \ {0} /\ PongDeadline \in Nat \ {0}
  /\ Times \subseteq Nat /\ None \notin Times /\ MaxFrame \in Nat

VARIABLES
  state,
  queue, drained, localDrops,          \* BoundedRawSink
  nextFrame,
  lastReceive,
  outboundControl,                     \* times of the pongs in the window
  pingSent, awaitingPong, lastTick,    \* the watchdog
  signals,                             \* lifecycle actions returned so far
  pongs, pings                         \* when RespondPong and SendPing were returned
sink == <<queue, drained, localDrops, nextFrame>>
watchdog == <<pingSent, awaitingPong, lastTick>>
transportVars ==
  <<state, sink, lastReceive, outboundControl, watchdog, signals, pongs, pings>>

TransportInit ==
  /\ state = "OPEN"
  /\ queue = <<>> /\ drained = 0 /\ localDrops = 0 /\ nextFrame = 0
  /\ lastReceive = None /\ outboundControl = <<>>
  /\ pingSent = None /\ awaitingPong = FALSE /\ lastTick = None
  /\ signals = <<>> /\ pongs = <<>> /\ pings = <<>>

-----------------------------------------------------------------------------
Open == state \notin {"CLOSED", "FAILED"}

Invalidate ==
  /\ state' = "FAILED"
  /\ signals' = Append(signals, "INVALIDATE_EPOCH")

(* Every input first passes the clock check of handle.                      *)
Receives(now) ==
  /\ Open
  /\ lastReceive # None => now >= lastReceive
  /\ lastReceive' = now

ClockRegressed(now) ==
  /\ Open /\ lastReceive # None /\ now < lastReceive
  /\ Invalidate
  /\ UNCHANGED <<sink, lastReceive, outboundControl, watchdog, pongs, pings>>

(* handle_data                                                              *)
SinkFull == Len(queue) >= Capacity

\* Mutant: a full sink drops the frame and carries on.
DataDropped ==
  /\ localDrops' = localDrops + 1
  /\ UNCHANGED <<queue, drained, nextFrame, state, signals>>
DataOverflow ==
  /\ localDrops' = localDrops + 1
  /\ Invalidate
  /\ UNCHANGED <<queue, drained, nextFrame>>

\* Mutant: every shutdown event asks for a handover.
ShutdownAgain(payload) ==
  IF payload = "SHUTDOWN"
  THEN state' = "SHUTDOWN_ANNOUNCED" /\ signals' = Append(signals, "BEGIN_HANDOVER")
  ELSE IF payload = "MALFORMED_SHUTDOWN" THEN Invalidate ELSE UNCHANGED <<state, signals>>
Classify(payload) ==
  IF payload = "SHUTDOWN" /\ state = "OPEN"
  THEN state' = "SHUTDOWN_ANNOUNCED" /\ signals' = Append(signals, "BEGIN_HANDOVER")
  ELSE IF payload = "MALFORMED_SHUTDOWN" THEN Invalidate ELSE UNCHANGED <<state, signals>>

HandleData(payload, now) ==
  /\ nextFrame < MaxFrame
  /\ Receives(now)
  /\ IF payload = "TOO_LARGE" THEN Invalidate /\ UNCHANGED sink
     ELSE IF SinkFull THEN DataOverflow
     ELSE /\ queue' = Append(queue, nextFrame)
          /\ nextFrame' = nextFrame + 1
          /\ Classify(payload)
          /\ UNCHANGED <<drained, localDrops>>
  /\ UNCHANGED <<outboundControl, watchdog, pongs, pings>>

(* handle_ping: pongs leave the front of the window up to the first one     *)
(* younger than a second, then the pong is sent or is one too many.         *)
\* Mutant: the window starts anew when its oldest pong leaves it.
InWindowAnew(now) ==
  IF outboundControl # <<>> /\ now - Head(outboundControl) >= Second THEN <<>> ELSE outboundControl
InWindow(now) ==
  LET stops == {n \in 0..Len(outboundControl) :
                  n < Len(outboundControl) => now - outboundControl[n + 1] < Second}
  IN SubSeq(outboundControl, Min(stops) + 1, Len(outboundControl))

HandlePing(legal, now) ==
  /\ Receives(now)
  /\ IF ~legal THEN Invalidate /\ UNCHANGED <<outboundControl, pongs>>
     ELSE IF Len(InWindow(now)) >= MaxControl
     THEN outboundControl' = InWindow(now) /\ Invalidate /\ UNCHANGED pongs
     ELSE /\ outboundControl' = Append(InWindow(now), now)
          /\ pongs' = Append(pongs, now)
          /\ UNCHANGED <<state, signals>>
  /\ UNCHANGED <<sink, watchdog, pings>>

HandlePong(now) ==
  /\ Receives(now)
  /\ awaitingPong' = FALSE
  /\ UNCHANGED <<state, sink, outboundControl, pingSent, lastTick, signals, pongs, pings>>

HandleClose(now) ==
  /\ Receives(now)
  /\ state' = "CLOSED"
  /\ signals' = Append(signals, "EPOCH_CLOSED")
  /\ UNCHANGED <<sink, outboundControl, watchdog, pongs, pings>>

HandleError(now) ==
  /\ Receives(now)
  /\ Invalidate
  /\ UNCHANGED <<sink, outboundControl, watchdog, pongs, pings>>

(* The sink is drained whatever the state of the session.                   *)
DrainOne ==
  /\ queue # <<>>
  /\ queue' = Tail(queue) /\ drained' = drained + 1
  /\ UNCHANGED <<state, localDrops, nextFrame, lastReceive, outboundControl, watchdog,
                 signals, pongs, pings>>

(* watchdog_tick                                                            *)
Tick(now) ==
  IF awaitingPong
  THEN /\ IF now - pingSent >= PongDeadline THEN Invalidate ELSE UNCHANGED <<state, signals>>
       /\ UNCHANGED <<pingSent, awaitingPong, pings>>
  ELSE IF pingSent = None \/ now - pingSent >= PingInterval
  THEN /\ pingSent' = now /\ awaitingPong' = TRUE
       /\ pings' = Append(pings, now)
       /\ UNCHANGED <<state, signals>>
  ELSE UNCHANGED <<state, pingSent, awaitingPong, signals, pings>>

WatchdogTick(now) ==
  /\ Open
  /\ lastTick # None => now >= lastTick
  /\ lastTick' = now
  /\ Tick(now)
  /\ UNCHANGED <<sink, lastReceive, outboundControl, pongs>>

TransportNext ==
  \/ \E now \in Times :
       \/ ClockRegressed(now)
       \/ \E p \in {"ORDINARY", "TOO_LARGE", "SHUTDOWN", "MALFORMED_SHUTDOWN"} : HandleData(p, now)
       \/ \E legal \in BOOLEAN : HandlePing(legal, now)
       \/ HandlePong(now) \/ HandleClose(now) \/ HandleError(now)
       \/ WatchdogTick(now)
  \/ DrainOne

TransportSpec == TransportInit /\ [][TransportNext]_transportVars

-----------------------------------------------------------------------------
(* No frame is lost in silence: the frames drained and queued are all the   *)
(* frames numbered so far, in order, and a drop ended the session.          *)
FramesConserved ==
  /\ queue = [n \in 1..(nextFrame - drained) |-> drained + n - 1]
  /\ localDrops > 0 => state = "FAILED"

(* The venue's limit on control frames: one more pong than the session may  *)
(* send in a second always takes a second or longer, wherever the second    *)
(* starts.  handle_ping keeps only the pongs of the last second, and prunes *)
(* them when a ping comes.  The watchdog's own pings are outside that       *)
(* window; two of them are PingInterval apart.                              *)
ControlRateBounded ==
  /\ \A i \in 1..(Len(pongs) - MaxControl) : pongs[i + MaxControl] - pongs[i] >= Second
  /\ \A i \in 1..(Len(pings) - 1) : pings[i + 1] - pings[i] >= PingInterval

(* Frames, clock and watchdog aside, the session keeps the promise of       *)
(* TransportLifecycle.                                                      *)
Lifecycle == INSTANCE TransportLifecycle
KeepsLifecycle == Lifecycle!LifecycleSpec
=============================================================================
