--------------------------- MODULE TransportProofs ---------------------------
(* Proofs about Transport, for every capacity, rate, interval and deadline.  *)
EXTENDS Transport, TLAPS, WellFoundedInduction

(* The fields the frames' conservation is about, and what the queue holds.   *)
Frames ==
  /\ nextFrame \in Nat /\ drained \in Nat /\ drained <= nextFrame
  /\ localDrops \in Nat
  /\ FramesConserved

(* The frames numbered from lo up to, not including, hi.                     *)
FrameSeq(lo, hi) == [n \in 1..(hi - lo) |-> lo + n - 1]

(* An append to, and a tail of, such a run of frames.                        *)
LEMMA FramesAppend ==
  ASSUME NEW lo \in Nat, NEW hi \in Nat, lo <= hi
  PROVE  Append(FrameSeq(lo, hi), hi) = FrameSeq(lo, hi + 1)
<1> DEFINE q == FrameSeq(lo, hi)
<1>1. q \in Seq(Int) /\ Len(q) = hi - lo
  BY DEF FrameSeq
<1>2. Append(q, hi) = [n \in 1..(hi - lo + 1) |-> IF n = hi - lo + 1 THEN hi ELSE q[n]]
  BY <1>1 DEF FrameSeq
<1>3. hi - lo + 1 = hi + 1 - lo
  OBVIOUS
<1>4. \A n \in 1..(hi - lo + 1) : (IF n = hi - lo + 1 THEN hi ELSE q[n]) = lo + n - 1
  BY DEF FrameSeq
<1> QED
  BY <1>2, <1>3, <1>4 DEF FrameSeq

LEMMA FramesTail ==
  ASSUME NEW lo \in Nat, NEW hi \in Nat, lo < hi
  PROVE  Tail(FrameSeq(lo, hi)) = FrameSeq(lo + 1, hi)
<1> DEFINE q == FrameSeq(lo, hi)
<1>1. q \in Seq(Int) /\ Len(q) = hi - lo
  BY DEF FrameSeq
<1>2. Tail(q) = [n \in 1..(hi - lo - 1) |-> q[n + 1]]
  BY <1>1 DEF FrameSeq
<1>3. hi - lo - 1 = hi - (lo + 1)
  OBVIOUS
<1>4. \A n \in 1..(hi - lo - 1) : q[n + 1] = lo + 1 + n - 1
  BY DEF FrameSeq
<1> QED
  BY <1>2, <1>3, <1>4, Zenon DEF FrameSeq

LEMMA FramesInit == TransportInit => Frames
  BY DEF TransportInit, Frames, FramesConserved

(* Only handle_data and the drain touch the sink.                            *)
LEMMA FramesStep == Frames /\ [TransportNext]_transportVars => Frames'
<1> SUFFICES ASSUME Frames, [TransportNext]_transportVars
             PROVE  Frames'
  OBVIOUS
<1> USE DEF Frames, FramesConserved
<1>1. ASSUME NEW now \in Times, ClockRegressed(now)
      PROVE  Frames'
  BY <1>1 DEF ClockRegressed, Invalidate, Open, sink
<1>2. ASSUME NEW now \in Times, NEW p, HandleData(p, now)
      PROVE  Frames'
  <2>1. CASE p = "TOO_LARGE"
    BY <1>2, <2>1 DEF HandleData, Invalidate, Receives, Open, sink
  <2>2. CASE p # "TOO_LARGE" /\ SinkFull
    BY <1>2, <2>2 DEF HandleData, DataOverflow, Invalidate, Receives, Open
  <2>3. CASE p # "TOO_LARGE" /\ ~SinkFull
    <3>1. /\ queue' = Append(queue, nextFrame) /\ nextFrame' = nextFrame + 1
          /\ drained' = drained /\ localDrops' = localDrops /\ Open
      BY <1>2, <2>3 DEF HandleData, Receives
    <3>2. Append(FrameSeq(drained, nextFrame), nextFrame) = FrameSeq(drained, nextFrame + 1)
      BY FramesAppend, Zenon
    <3>3. queue' = [n \in 1..(nextFrame' - drained') |-> drained' + n - 1]
      BY <3>1, <3>2, Zenon DEF FrameSeq
    <3>4. localDrops' = 0
      BY <3>1 DEF Open
    <3> QED
      BY <3>1, <3>3, <3>4
  <2> QED
    BY <2>1, <2>2, <2>3
<1>3. ASSUME NEW now \in Times, NEW legal \in BOOLEAN, HandlePing(legal, now)
      PROVE  Frames'
  BY <1>3 DEF HandlePing, Invalidate, Receives, Open, sink
<1>4. ASSUME NEW now \in Times, HandlePong(now)
      PROVE  Frames'
  BY <1>4 DEF HandlePong, sink
<1>5. ASSUME NEW now \in Times, HandleClose(now)
      PROVE  Frames'
  BY <1>5 DEF HandleClose, Receives, Open, sink
<1>6. ASSUME NEW now \in Times, HandleError(now)
      PROVE  Frames'
  BY <1>6 DEF HandleError, Invalidate, sink
<1>7. ASSUME NEW now \in Times, WatchdogTick(now)
      PROVE  Frames'
  BY <1>7 DEF WatchdogTick, Tick, Invalidate, Open, sink
<1>8. CASE DrainOne
  <2>1. queue # <<>> /\ queue' = Tail(queue) /\ drained' = drained + 1
        /\ localDrops' = localDrops /\ nextFrame' = nextFrame /\ state' = state
    BY <1>8 DEF DrainOne
  <2>2. drained < nextFrame
    <3>1. CASE drained = nextFrame
      <4>1. 1..(nextFrame - drained) = {}
        BY <3>1
      <4> QED
        BY <2>1, <4>1
    <3> QED
      BY <3>1
  <2>3. Tail(FrameSeq(drained, nextFrame)) = FrameSeq(drained + 1, nextFrame)
    BY <2>2, FramesTail
  <2>4. queue' = [n \in 1..(nextFrame' - drained') |-> drained' + n - 1]
    BY <2>1, <2>3, Zenon DEF FrameSeq
  <2>5. drained' \in Nat /\ drained' <= nextFrame'
    BY <2>1, <2>2
  <2> QED
    BY <2>1, <2>4, <2>5, Zenon
<1>9. CASE UNCHANGED transportVars
  BY <1>9 DEF transportVars, sink
<1> QED
  BY <1>1, <1>2, <1>3, <1>4, <1>5, <1>6, <1>7, <1>8, <1>9 DEF TransportNext

(* No frame of a session is lost in silence (BoundedRawSink::enqueue and     *)
(* the LocalOverflow path of handle_data), whatever the sink's capacity.     *)
THEOREM FramesConservedHolds == TransportSpec => []FramesConserved
<1>1. Frames => FramesConserved
  BY DEF Frames
<1> QED
  BY FramesInit, FramesStep, <1>1, PTL DEF TransportSpec

-----------------------------------------------------------------------------
(* The control frames.                                                       *)

LEMMA LeastElement ==
  ASSUME NEW T \in SUBSET Nat, T # {}
  PROVE  Min(T) \in T /\ \A y \in T : Min(T) <= y
<1> DEFINE R == {ss \in Nat \X Nat : ss[1] < ss[2]}
<1>1. IsWellFoundedOn(R, Nat)
  BY NatLessThanWellFounded DEF OpToRel
<1>2. ASSUME NEW a \in Nat, NEW b \in Nat, a < b PROVE <<a, b>> \in R
  BY <1>2
<1> HIDE DEF R
<1>3. PICK x \in T : \A y \in T : ~(<<y, x>> \in R)
  BY <1>1, WFMin
<1>4. ASSUME NEW y \in T PROVE x <= y
  <2>1. x \in Nat /\ y \in Nat
    OBVIOUS
  <2>2. ~(y < x)
    BY <1>2, <1>3, <2>1
  <2> QED
    BY <2>1, <2>2
<1> QED
  BY <1>4 DEF Min

(* What leaves the window is a second old, and the rest stays in order.      *)
LEMMA WindowSlides ==
  ASSUME NEW now \in Nat, outboundControl \in Seq(Nat)
  PROVE  \E n \in 0..Len(outboundControl) :
           /\ InWindow(now) = SubSeq(outboundControl, n + 1, Len(outboundControl))
           /\ \A i \in 1..n : now - outboundControl[i] >= Second
<1> DEFINE q == outboundControl
           stops == {n \in 0..Len(q) : n < Len(q) => now - q[n + 1] < Second}
<1>1. Len(q) \in Nat /\ Len(q) \in stops /\ stops \in SUBSET Nat
  OBVIOUS
<1>2. Min(stops) \in stops /\ \A y \in stops : Min(stops) <= y
  BY <1>1, LeastElement
<1>3. ASSUME NEW i \in 1..Min(stops) PROVE now - q[i] >= Second
  <2>0. Min(stops) \in 0..Len(q)
    BY <1>2
  <2>1. i - 1 \in 0..Len(q) /\ i \in 1..Len(q) /\ ~(Min(stops) <= i - 1)
    BY <1>1, <2>0
  <2>4. i - 1 \notin stops
    BY <1>2, <2>1, Zenon
  <2>2. ~(now - q[i] < Second)
    BY <2>1, <2>4
  <2>3. q[i] \in Nat /\ Second \in Nat
    BY <2>1, TransportAssumption
  <2> QED
    BY <2>2, <2>3
<1>4. InWindow(now) = SubSeq(q, Min(stops) + 1, Len(q))
  BY DEF InWindow
<1>5. Min(stops) \in 0..Len(q)
  BY <1>2
<1> HIDE DEF stops
<1> QED
  BY <1>3, <1>4, <1>5

(* The window holds the last pongs; the others were a second old when they   *)
(* left it, and time has not gone back since.                                *)
PongInv ==
  /\ pongs \in Seq(Nat) /\ outboundControl \in Seq(Nat)
  /\ lastReceive \in Times \cup {None}
  /\ Len(outboundControl) <= MaxControl /\ Len(outboundControl) <= Len(pongs)
  /\ \A i \in 1..Len(outboundControl) :
       outboundControl[i] = pongs[Len(pongs) - Len(outboundControl) + i]
  /\ Len(pongs) > 0 => lastReceive # None
  /\ \A i \in 1..(Len(pongs) - Len(outboundControl)) : lastReceive - pongs[i] >= Second
  /\ \A i \in 1..(Len(pongs) - MaxControl) : pongs[i + MaxControl] - pongs[i] >= Second

(* The last ping is the one the watchdog remembers.                          *)
PingInv ==
  /\ pings \in Seq(Times) /\ pingSent \in Times \cup {None}
  /\ Len(pings) > 0 => pingSent = pings[Len(pings)]
  /\ \A i \in 1..(Len(pings) - 1) : pings[i + 1] - pings[i] >= PingInterval

LEMMA PongStep ==
  ASSUME PongInv, NEW now \in Times, NEW legal \in BOOLEAN, HandlePing(legal, now)
  PROVE  PongInv'
<1> DEFINE q == outboundControl
           n == Len(pongs)
<1>0. now \in Nat /\ None \notin Times /\ Times \subseteq Nat /\ MaxControl \in Nat \ {0} /\ Second \in Nat
  BY TransportAssumption
<1>1. /\ pongs \in Seq(Nat) /\ q \in Seq(Nat) /\ lastReceive \in Times \cup {None}
      /\ Len(q) <= MaxControl /\ Len(q) <= n /\ n \in Nat /\ Len(q) \in Nat
  BY DEF PongInv
<1>2. lastReceive' = now /\ (lastReceive # None => now >= lastReceive)
  BY DEF HandlePing, Receives
<1>3. \A i \in 1..(n - Len(q)) : now - pongs[i] >= Second
  <2>1. SUFFICES ASSUME NEW i \in 1..(n - Len(q)) PROVE now - pongs[i] >= Second
    OBVIOUS
  <2>2. lastReceive - pongs[i] >= Second /\ lastReceive # None
    BY <1>1, <2>1 DEF PongInv
  <2>3. lastReceive \in Nat /\ pongs[i] \in Nat
    BY <1>0, <1>1, <2>1, <2>2
  <2> QED
    BY <1>0, <1>2, <2>2, <2>3
<1>4. PICK d \in 0..Len(q) : /\ InWindow(now) = SubSeq(q, d + 1, Len(q))
                             /\ \A i \in 1..d : now - q[i] >= Second
  BY <1>0, <1>1, WindowSlides
<1> DEFINE w == InWindow(now)
<1>5. /\ w \in Seq(Nat) /\ Len(w) = Len(q) - d /\ Len(w) \in Nat
      /\ \A i \in 1..Len(w) : w[i] = q[d + i]
  BY <1>1, <1>4
<1>6. \A i \in 1..Len(w) : w[i] = pongs[n - Len(w) + i]
  <2>1. SUFFICES ASSUME NEW i \in 1..Len(w) PROVE w[i] = pongs[n - Len(w) + i]
    OBVIOUS
  <2>2. d + i \in 1..Len(q) /\ w[i] = q[d + i]
    BY <1>1, <1>5, <2>1
  <2>3. q[d + i] = pongs[n - Len(q) + (d + i)]
    BY <2>2 DEF PongInv
  <2>4. n - Len(q) + (d + i) = n - Len(w) + i
    BY <1>1, <1>5
  <2> QED
    BY <2>2, <2>3, <2>4
<1>7. \A i \in 1..(n - Len(w)) : now - pongs[i] >= Second
  <2>1. SUFFICES ASSUME NEW i \in 1..(n - Len(w)) PROVE now - pongs[i] >= Second
    OBVIOUS
  <2>2. CASE i <= n - Len(q)
    BY <1>1, <1>3, <2>1, <2>2
  <2>3. CASE ~(i <= n - Len(q))
    <3>1. i - (n - Len(q)) \in 1..d /\ i - (n - Len(q)) \in 1..Len(q)
      BY <1>1, <1>5, <2>1, <2>3
    <3>2. q[i - (n - Len(q))] = pongs[n - Len(q) + (i - (n - Len(q)))]
      BY <3>1 DEF PongInv
    <3>3. n - Len(q) + (i - (n - Len(q))) = i
      BY <1>1
    <3> QED
      BY <1>4, <3>1, <3>2, <3>3
  <2> QED
    BY <2>2, <2>3
<1>8. Len(w) <= MaxControl /\ Len(w) <= n
  BY <1>0, <1>1, <1>5
<1> HIDE DEF w
<1>9. CASE pongs' = pongs /\ outboundControl' = q
  BY <1>0, <1>1, <1>2, <1>3, <1>9 DEF PongInv
<1>10. CASE pongs' = pongs /\ outboundControl' = w
  BY <1>0, <1>1, <1>2, <1>5, <1>6, <1>7, <1>8, <1>10 DEF PongInv
<1>11. CASE /\ pongs' = Append(pongs, now) /\ outboundControl' = Append(w, now)
            /\ ~(Len(w) >= MaxControl)
  <2>1. /\ pongs' \in Seq(Nat) /\ outboundControl' \in Seq(Nat)
        /\ Len(pongs') = n + 1 /\ Len(outboundControl') = Len(w) + 1
        /\ \A i \in 1..n : pongs'[i] = pongs[i]
        /\ pongs'[n + 1] = now /\ outboundControl'[Len(w) + 1] = now
        /\ \A i \in 1..Len(w) : outboundControl'[i] = w[i]
    BY <1>0, <1>1, <1>5, <1>11
  <2>2. Len(outboundControl') <= MaxControl /\ Len(outboundControl') <= Len(pongs')
    BY <1>0, <1>1, <1>5, <1>8, <1>11, <2>1
  <2>3. ASSUME NEW i \in 1..Len(outboundControl')
        PROVE  outboundControl'[i] = pongs'[Len(pongs') - Len(outboundControl') + i]
    <3>1. Len(pongs') - Len(outboundControl') + i = n - Len(w) + i
      BY <1>1, <1>5, <2>1
    <3>2. CASE i = Len(w) + 1
      <4>1. n - Len(w) + i = n + 1
        BY <1>1, <1>5, <3>2
      <4> QED
        BY <2>1, <3>1, <3>2, <4>1
    <3>3. CASE i \in 1..Len(w)
      <4>0. n \in Nat /\ Len(w) \in Nat /\ Len(w) <= n
        BY <1>1, <1>5, <1>8
      <4>1. n - Len(w) + i \in 1..n
        BY <3>3, <4>0
      <4> QED
        BY <1>6, <2>1, <3>1, <3>3, <4>1
    <3> QED
      BY <1>5, <2>1, <3>2, <3>3
  <2>4. ASSUME NEW i \in 1..(Len(pongs') - Len(outboundControl'))
        PROVE  lastReceive' - pongs'[i] >= Second
    <3>0. n \in Nat /\ Len(w) \in Nat /\ Len(w) <= n /\ Len(pongs') - Len(outboundControl') = n - Len(w)
      BY <1>1, <1>5, <1>8, <2>1
    <3>1. i \in 1..(n - Len(w)) /\ i \in 1..n
      BY <3>0
    <3> QED
      BY <1>2, <1>7, <2>1, <3>1
  <2>5. ASSUME NEW i \in 1..(Len(pongs') - MaxControl)
        PROVE  pongs'[i + MaxControl] - pongs'[i] >= Second
    <3>1. i \in 1..n /\ i + MaxControl \in 1..(n + 1)
      BY <1>0, <1>1, <2>1
    <3>2. CASE i + MaxControl = n + 1
      <4>1. i \in 1..(n - Len(w))
        BY <1>0, <1>1, <1>5, <1>11, <3>1, <3>2
      <4> QED
        BY <1>7, <2>1, <3>1, <3>2, <4>1
    <3>3. CASE i + MaxControl \in 1..n
      <4>1. i \in 1..(n - MaxControl)
        BY <1>0, <1>1, <3>1, <3>3
      <4>2. pongs[i + MaxControl] - pongs[i] >= Second
        BY <4>1 DEF PongInv
      <4> QED
        BY <2>1, <3>1, <3>3, <4>2
    <3>4. n \in Nat /\ MaxControl \in Nat
      BY <1>0, <1>1
    <3> QED
      BY <3>1, <3>2, <3>3, <3>4
  <2>6. lastReceive' \in Times \cup {None} /\ lastReceive' # None
    BY <1>0, <1>2
  <2> QED
    BY <2>1, <2>2, <2>3, <2>4, <2>5, <2>6 DEF PongInv
<1> QED
  BY <1>9, <1>10, <1>11 DEF HandlePing, w

(* Another message moves the clock on, or leaves everything.                 *)
LEMMA PongClock ==
  ASSUME PongInv, UNCHANGED <<pongs, outboundControl>>,
         \/ lastReceive' = lastReceive
         \/ lastReceive' \in Times /\ (lastReceive # None => lastReceive' >= lastReceive)
  PROVE  PongInv'
<1>1. None \notin Times /\ Times \subseteq Nat /\ Second \in Nat
  BY TransportAssumption
<1>2. CASE lastReceive' = lastReceive
  BY <1>2 DEF PongInv
<1>3. CASE lastReceive' \in Times /\ (lastReceive # None => lastReceive' >= lastReceive)
  <2>1. ASSUME NEW i \in 1..(Len(pongs) - Len(outboundControl))
        PROVE  lastReceive' - pongs[i] >= Second
    <3>1. pongs \in Seq(Nat) /\ Len(pongs) \in Nat /\ Len(outboundControl) \in Nat
      BY DEF PongInv
    <3>2. lastReceive - pongs[i] >= Second /\ lastReceive # None /\ lastReceive \in Times
      BY <2>1, <3>1 DEF PongInv
    <3>3. i \in 1..Len(pongs)
      BY <2>1, <3>1
    <3>4. lastReceive \in Nat /\ lastReceive' \in Nat /\ pongs[i] \in Nat
      BY <1>1, <1>3, <3>1, <3>2, <3>3
    <3> QED
      BY <1>1, <1>3, <3>2, <3>4
  <2>2. lastReceive' # None
    BY <1>1, <1>3
  <2> QED
    BY <1>3, <2>1, <2>2 DEF PongInv
<1> QED
  BY <1>2, <1>3

LEMMA PingStep ==
  ASSUME PingInv, NEW now \in Times, WatchdogTick(now)
  PROVE  PingInv'
<1>1. now \in Nat /\ None \notin Times /\ Times \subseteq Nat /\ PingInterval \in Nat
  BY TransportAssumption
<1>2. pings \in Seq(Times) /\ Len(pings) \in Nat
  BY DEF PingInv
<1>3. CASE UNCHANGED <<pings, pingSent>>
  BY <1>3 DEF PingInv
<1>4. CASE /\ pings' = Append(pings, now) /\ pingSent' = now
           /\ pingSent = None \/ now - pingSent >= PingInterval
  <2>1. /\ pings' \in Seq(Times) /\ Len(pings') = Len(pings) + 1 /\ pings'[Len(pings) + 1] = now
        /\ \A i \in 1..Len(pings) : pings'[i] = pings[i]
    BY <1>1, <1>2, <1>4
  <2>2. ASSUME NEW i \in 1..(Len(pings') - 1)
        PROVE  pings'[i + 1] - pings'[i] >= PingInterval
    <3>1. i \in 1..Len(pings)
      BY <1>2, <2>1
    <3>2. CASE i = Len(pings)
      <4>1. pingSent = pings[i] /\ pings[i] \in Times
        BY <1>2, <3>1, <3>2 DEF PingInv
      <4>2. now - pingSent >= PingInterval
        BY <1>1, <1>4, <4>1
      <4>3. pings'[i + 1] = now /\ pings'[i] = pingSent
        BY <2>1, <3>1, <3>2, <4>1
      <4> QED
        BY <4>2, <4>3
    <3>3. CASE i \in 1..(Len(pings) - 1)
      <4>1. pings[i + 1] - pings[i] >= PingInterval /\ i + 1 \in 1..Len(pings)
        BY <1>2, <3>3 DEF PingInv
      <4> QED
        BY <2>1, <3>1, <4>1
    <3> QED
      BY <1>2, <3>1, <3>2, <3>3
  <2> QED
    BY <1>2, <1>4, <2>1, <2>2 DEF PingInv
<1> QED
  BY <1>3, <1>4 DEF WatchdogTick, Tick

LEMMA ControlNext ==
  ASSUME PongInv, PingInv, [TransportNext]_transportVars
  PROVE  PongInv' /\ PingInv'
<1>1. ASSUME UNCHANGED <<pings, pingSent>> PROVE PingInv'
  BY <1>1 DEF PingInv
<1>2. ASSUME NEW now \in Times, Receives(now), UNCHANGED <<pongs, outboundControl>> PROVE PongInv'
  BY <1>2, PongClock DEF Receives
<1>3. ASSUME UNCHANGED <<pongs, outboundControl, lastReceive>> PROVE PongInv'
  BY <1>3, PongClock
<1>4. ASSUME NEW now \in Times, NEW p, HandleData(p, now)
      PROVE  PongInv' /\ PingInv'
  BY <1>1, <1>2, <1>4 DEF HandleData, watchdog
<1>5. ASSUME NEW now \in Times, NEW legal \in BOOLEAN, HandlePing(legal, now)
      PROVE  PongInv' /\ PingInv'
  BY <1>1, <1>5, PongStep DEF HandlePing, watchdog
<1>6. ASSUME NEW now \in Times, HandlePong(now) \/ HandleClose(now) \/ HandleError(now)
      PROVE  PongInv' /\ PingInv'
  BY <1>1, <1>2, <1>6 DEF HandlePong, HandleClose, HandleError, watchdog
<1>7. ASSUME NEW now \in Times, WatchdogTick(now)
      PROVE  PongInv' /\ PingInv'
  BY <1>3, <1>7, PingStep DEF WatchdogTick
<1>8. ASSUME NEW now \in Times, ClockRegressed(now)
      PROVE  PongInv' /\ PingInv'
  BY <1>1, <1>3, <1>8 DEF ClockRegressed, watchdog
<1>9. CASE DrainOne \/ UNCHANGED transportVars
  BY <1>1, <1>3, <1>9 DEF DrainOne, transportVars, watchdog
<1> QED
  BY <1>4, <1>5, <1>6, <1>7, <1>8, <1>9 DEF TransportNext

(* handle_ping and watchdog_tick: in no second, wherever it starts, does a   *)
(* session return more pongs than MAX_CLIENT_CONTROL_PER_SECOND, whatever    *)
(* that limit, the venue's pings and the clock readings are, and its own     *)
(* pings are an interval apart.                                              *)
THEOREM ControlRateHolds == TransportSpec => []ControlRateBounded
<1>1. TransportInit => PongInv /\ PingInv
  BY TransportAssumption DEF TransportInit, PongInv, PingInv
<1>2. PongInv /\ PingInv => ControlRateBounded
  BY DEF PongInv, PingInv, ControlRateBounded
<1> QED
  BY <1>1, <1>2, ControlNext, PTL DEF TransportSpec

-----------------------------------------------------------------------------
(* Every step of a session is a step of the lifecycle or leaves it alone.    *)
LEMMA LifecycleStep ==
  ASSUME TransportNext
  PROVE  [Lifecycle!LifecycleNext]_(Lifecycle!lifecycle)
<1> USE DEF Lifecycle!LifecycleNext, Lifecycle!lifecycle, Lifecycle!Announce,
            Lifecycle!Close, Lifecycle!Invalidate, Lifecycle!Terminal
<1>1. ASSUME NEW now \in Times, ClockRegressed(now)
      PROVE  Lifecycle!LifecycleNext
  BY <1>1 DEF ClockRegressed, Open, Invalidate
<1>2. ASSUME NEW now \in Times, NEW p, HandleData(p, now)
      PROVE  [Lifecycle!LifecycleNext]_(Lifecycle!lifecycle)
  <2>1. CASE p = "TOO_LARGE" \/ SinkFull
    BY <1>2, <2>1 DEF HandleData, DataOverflow, Receives, Open, Invalidate
  <2>2. CASE ~(p = "TOO_LARGE" \/ SinkFull)
    BY <1>2, <2>2 DEF HandleData, Classify, Receives, Open, Invalidate
  <2> QED
    BY <2>1, <2>2
<1>3. ASSUME NEW now \in Times, NEW legal \in BOOLEAN, HandlePing(legal, now)
      PROVE  [Lifecycle!LifecycleNext]_(Lifecycle!lifecycle)
  BY <1>3 DEF HandlePing, Receives, Open, Invalidate
<1>4. ASSUME NEW now \in Times, HandlePong(now)
      PROVE  [Lifecycle!LifecycleNext]_(Lifecycle!lifecycle)
  BY <1>4 DEF HandlePong
<1>5. ASSUME NEW now \in Times, HandleClose(now) \/ HandleError(now)
      PROVE  [Lifecycle!LifecycleNext]_(Lifecycle!lifecycle)
  BY <1>5 DEF HandleClose, HandleError, Receives, Open, Invalidate
<1>6. ASSUME NEW now \in Times, WatchdogTick(now)
      PROVE  [Lifecycle!LifecycleNext]_(Lifecycle!lifecycle)
  BY <1>6 DEF WatchdogTick, Tick, Open, Invalidate
<1>7. CASE DrainOne
  BY <1>7 DEF DrainOne
<1> QED
  BY <1>1, <1>2, <1>3, <1>4, <1>5, <1>6, <1>7 DEF TransportNext

(* A session announces a shutdown at most once and ends once, saying so once *)
(* (PublicWsSession::handle, watchdog_tick): it implements the lifecycle     *)
(* that drives handovers.                                                    *)
THEOREM TransportKeepsLifecycle == TransportSpec => KeepsLifecycle
<1>1. TransportInit => Lifecycle!LifecycleInit
  BY DEF TransportInit, Lifecycle!LifecycleInit
<1>2. [TransportNext]_transportVars => [Lifecycle!LifecycleNext]_(Lifecycle!lifecycle)
  BY LifecycleStep DEF transportVars, Lifecycle!lifecycle
<1> QED
  BY <1>1, <1>2, PTL DEF TransportSpec, KeepsLifecycle, Lifecycle!LifecycleSpec
=============================================================================
