------------------------- MODULE HotRedundancyProofs -------------------------
(***************************************************************************)
(* Proofs that the supervisor's invariants hold for every policy, every    *)
(* set of run tokens and every sequence of clock readings.  Inv, the       *)
(* conjunction of the checked invariants, is inductive as it stands.  Then *)
(* the process around it, for every deadline, grace and number of          *)
(* launches: it implements the supervisor's specification, and only the    *)
(* named errors end it.  The supervisor's own theorems do not use          *)
(* CaptureAssumption.                                                      *)
(***************************************************************************)
EXTENDS HotCapture, TLAPS

GapType ==
  /\ coverage \in CoverageState
  /\ openGap \in Nat \union {None}
  /\ nextGapId \in Nat
  /\ gaps \in [0..(nextGapId - 1) -> [opened : Nat, closed : Nat \union {None}]]

Inv ==
  /\ TypeOK
  /\ GapIffDark
  /\ GapsDisjoint
  /\ OneProbe
  /\ TokensDistinct
  /\ BoundedWait
  /\ TerminalIsFinal

(* The validated configuration, spelled out.                                *)
LEMMA ConfigFacts ==
  /\ BackoffInitial \in Nat /\ BackoffMax \in Nat /\ JitterMax \in Nat
  /\ JitterMax <= BackoffMax
  /\ CircuitCooldown \in Nat
  BY ConfigAssumption DEF Validate

(* CoverageOf names a coverage state, and it names GAP exactly when a lane  *)
(* was once ready and none is.                                              *)
LEMMA CoverageOfFacts ==
  ASSUME NEW st, NEW ever \in BOOLEAN
  PROVE  /\ CoverageOf(st, ever) \in CoverageState
         /\ (CoverageOf(st, ever) = "GAP") <=> (ever /\ ReadyLanes(st) = {})
<1>1. CASE ReadyLanes(st) = {}
  <2>1. ReadyLanes(st) # Lane
    BY <1>1 DEF Lane
  <2> QED
    BY <1>1, <2>1 DEF CoverageOf, CoverageState
<1>2. CASE ReadyLanes(st) # {}
  BY <1>2 DEF CoverageOf, CoverageState
<1> QED
  BY <1>1, <1>2

(* What recompute_coverage and record_transition do to the gap state, for   *)
(* any change of the lane states that never forgets an earlier readiness.   *)
LEMMA RecomputeGaps ==
  ASSUME TypeOK, GapIffDark, GapsDisjoint,
         NEW now \in Times, AdvanceClock(now),
         everReady' \in BOOLEAN, everReady => everReady', terminal' = terminal,
         RecomputeCoverage(now)
  PROVE  GapType' /\ GapIffDark' /\ GapsDisjoint'
<1> DEFINE current == CurrentCoverage
<1>0. /\ now \in Nat /\ lastMono \in Nat /\ lastMono' = now /\ lastMono <= now
      /\ coverage' = current
      /\ current \in CoverageState
      /\ ~terminal => ((current = "GAP") <=> (everReady' /\ ReadyLanes(state') = {}))
      /\ ~terminal => current = CoverageOf(state', everReady')
      /\ terminal => current # "GAP"
  <2>1. /\ CoverageOf(state', everReady') \in CoverageState
        /\ (CoverageOf(state', everReady') = "GAP") <=> (everReady' /\ ReadyLanes(state') = {})
    BY CoverageOfFacts
  <2> QED
    BY <2>1, TimesAssumption
    DEF TypeOK, AdvanceClock, RecomputeCoverage, CurrentCoverage, CoverageState
<1>1. CASE current = "GAP" /\ openGap = None
  <2>1. /\ openGap' = nextGapId
        /\ nextGapId' = nextGapId + 1
        /\ gaps' = [g \in 0..nextGapId |->
                      IF g = nextGapId THEN [opened |-> now, closed |-> None] ELSE gaps[g]]
    BY <1>1 DEF RecomputeCoverage, OpenGap
  <2>2. GapType'
    BY <1>0, <2>1 DEF GapType, TypeOK
  <2>3. GapIffDark'
    <3>1. openGap' # None
      BY <2>1 DEF TypeOK, None
    <3> QED
      BY <1>0, <1>1, <3>1, Zenon DEF GapIffDark
  <2>4. GapsDisjoint'
    BY <1>0, <1>1, <2>1 DEF GapsDisjoint, TypeOK, None
  <2> QED
    BY <2>2, <2>3, <2>4
<1>2. CASE ~(current = "GAP" /\ openGap = None) /\ ReadyLanes(state') # {} /\ openGap # None
  <2>1. /\ openGap' = None
        /\ nextGapId' = nextGapId
        /\ gaps' = [gaps EXCEPT ![openGap].closed = now]
    BY <1>2 DEF RecomputeCoverage, CloseGap
  <2>2. openGap \in 0..(nextGapId - 1)
    BY <1>2 DEF GapsDisjoint, TypeOK, None
  <2>3. GapType'
    BY <1>0, <2>1, <2>2, Zenon DEF GapType, TypeOK
  <2>4. GapIffDark'
    BY <1>0, <1>2, <2>1 DEF GapIffDark
  <2>5. \A g \in 0..(nextGapId - 1) :
          /\ gaps'[g].opened = gaps[g].opened
          /\ gaps'[g].closed = IF g = openGap THEN now ELSE gaps[g].closed
    BY <2>1, <2>2 DEF TypeOK
  <2>6. openGap = nextGapId - 1
    BY <1>2 DEF GapsDisjoint
  <2>7. GapsDisjoint'
    BY <1>0, <2>1, <2>2, <2>5, <2>6 DEF GapsDisjoint, TypeOK, None
  <2> QED
    BY <2>3, <2>4, <2>7
<1>3. CASE /\ ~(current = "GAP" /\ openGap = None)
           /\ ~(ReadyLanes(state') # {} /\ openGap # None)
  <2>1. UNCHANGED <<openGap, nextGapId, gaps>>
    BY <1>3 DEF RecomputeCoverage
  <2>2. GapType'
    BY <1>0, <2>1 DEF GapType, TypeOK
  <2>3. GapIffDark'
    BY <1>0, <1>3, <2>1 DEF GapIffDark
  <2>4. GapsDisjoint'
    BY <1>0, <2>1 DEF GapsDisjoint, TypeOK, None
  <2> QED
    BY <2>2, <2>3, <2>4
<1> QED
  BY <1>1, <1>2, <1>3

(* The reconnect delay never exceeds BackoffMax.                            *)
LEMMA DelayBounded ==
  ASSUME NEW f \in Nat, NEW j \in 0..JitterMax
  PROVE  ReconnectDelay(f, j) \in 0..BackoffMax
<1> DEFINE doubled == BackoffInitial * 2^Least(f - 1, 63)
           base == IF doubled \in 0..BackoffMax THEN doubled ELSE BackoffMax
<1>1. base \in 0..BackoffMax
  <2> HIDE DEF doubled
  <2> QED BY ConfigFacts
<1>2. ReconnectDelay(f, j) = Least(base + j, BackoffMax)
  BY DEF ReconnectDelay
<1> HIDE DEF base
<1> QED
  BY <1>1, <1>2, ConfigFacts DEF Least

(* The initial state.                                                       *)
LEMMA InitInv == Init => Inv
<1> SUFFICES ASSUME Init PROVE Inv
  OBVIOUS
<1>1. ReadyLanes(state) = {}
  BY DEF Init, ReadyLanes
<1>2. TypeOK
  <2>1. gaps \in [0..(nextGapId - 1) -> [opened : Nat, closed : Nat \union {None}]]
    <3>1. 0..(nextGapId - 1) = {}
      BY DEF Init
    <3> QED
      BY <3>1 DEF Init
  <2> QED
    BY <2>1, TimesAssumption, Zenon DEF Init, TypeOK, LaneState, CircuitState, CoverageState
<1>3. GapIffDark
  <2>1. CoverageOf(state, everReady) = "STARTING"
    BY <1>1, Zenon DEF Init, CoverageOf, Lane
  <2> QED
    BY <1>1, <2>1 DEF Init, GapIffDark, None
<1>4. GapsDisjoint
  BY DEF Init, GapsDisjoint, None
<1>5. OneProbe /\ TokensDistinct /\ BoundedWait /\ TerminalIsFinal
  BY DEF Init, OneProbe, TokensDistinct, BoundedWait, TerminalIsFinal
<1> QED
  BY <1>2, <1>3, <1>4, <1>5 DEF Inv

(* The wait of the lanes that do not change only grows shorter.             *)
LEMMA WaitMonotone ==
  ASSUME TypeOK, BoundedWait, lastMono' \in Nat, lastMono <= lastMono',
         terminal' = terminal, NEW l \in Lane, state[l] = "BACKOFF",
         notBefore'[l] = notBefore[l], circuit'[l] = circuit[l],
         circuitOpenAt'[l] = circuitOpenAt[l], state'[l] = state[l]
  PROVE  l \in RestartRequests(lastMono + BackoffMax + CircuitCooldown)'
  BY ConfigFacts DEF TypeOK, BoundedWait, RestartRequests, CircuitBlocked, None

(* The part of TypeOK that the lane operations change themselves.           *)
LaneType ==
  /\ state \in [Lane -> LaneState]
  /\ runToken \in [Lane -> Token \union {NoToken}]
  /\ launchAttempt \in [Lane -> Nat]
  /\ failures \in [Lane -> Nat]
  /\ readyAt \in [Lane -> Nat \union {None}]
  /\ notBefore \in [Lane -> Nat \union {None}]
  /\ circuit \in [Lane -> CircuitState]
  /\ circuitOpenAt \in [Lane -> Nat \union {None}]
  /\ usedTokens \subseteq Token
  /\ everReady \in BOOLEAN
  /\ lastMono \in Nat
  /\ terminal \in BOOLEAN

(* TypeOK is the typing of the lanes and of the gap state.                  *)
LEMMA TypeParts == TypeOK <=> LaneType /\ GapType
  BY DEF TypeOK, LaneType, GapType

(* start_lane preserves the invariant.                                      *)
LEMMA StartLaneStep ==
  ASSUME Inv, NEW now \in Times, NEW l \in Lane, NEW t \in Token, StartLane(l, t, now)
  PROVE  Inv'
<1> USE DEF Inv
<1>1. now \in Nat /\ lastMono' = now /\ lastMono <= now /\ ~terminal /\ terminal' = terminal
  BY TimesAssumption DEF StartLane, AdvanceClock, CanStart
<1>2. LaneType'
  BY <1>1 DEF StartLane, TypeOK, LaneType, LaneState, CircuitState, None
<1>3. GapType' /\ GapIffDark' /\ GapsDisjoint'
  BY <1>1, <1>2, RecomputeGaps DEF StartLane, LaneType
<1>4. OneProbe'
  BY DEF StartLane, TypeOK, OneProbe
<1>5. TokensDistinct'
  BY TokenAssumption DEF StartLane, CanStart, TypeOK, TokensDistinct
<1>6. BoundedWait'
  BY <1>1, WaitMonotone, Zenon DEF StartLane, TypeOK, BoundedWait
<1>7. TerminalIsFinal'
  BY <1>1 DEF TerminalIsFinal
<1> QED
  BY <1>2, <1>3, <1>4, <1>5, <1>6, <1>7, TypeParts, PTL

(* mark_ready of a STARTING lane preserves the invariant.                     *)
LEMMA MarkReadyStep ==
  ASSUME Inv, NEW now \in Times, NEW l \in Lane, NEW t \in Token, MarkReady(l, t, now)
  PROVE  Inv'
<1> USE DEF Inv
<1>1. now \in Nat /\ lastMono' = now /\ lastMono <= now /\ ~terminal /\ terminal' = terminal
  BY TimesAssumption DEF MarkReady, AdvanceClock, TerminalIsFinal
<1>2. LaneType'
  BY <1>1 DEF MarkReady, TypeOK, LaneType, LaneState, CircuitState
<1>3. GapType' /\ GapIffDark' /\ GapsDisjoint'
  BY <1>1, <1>2, RecomputeGaps DEF MarkReady, LaneType
<1>4. OneProbe'
  BY DEF MarkReady, TypeOK, OneProbe
<1>5. TokensDistinct'
  BY DEF MarkReady, TokensDistinct
<1>6. BoundedWait'
  BY <1>1, WaitMonotone, Zenon DEF MarkReady, TypeOK, BoundedWait
<1>7. TerminalIsFinal'
  BY <1>1 DEF TerminalIsFinal
<1> QED
  BY <1>2, <1>3, <1>4, <1>5, <1>6, <1>7, TypeParts, PTL

(* A repeated mark_ready preserves the invariant.                             *)
LEMMA MarkReadyAgainStep ==
  ASSUME Inv, NEW now \in Times, NEW l \in Lane, NEW t \in Token, MarkReadyAgain(l, t, now)
  PROVE  Inv'
<1> USE DEF Inv
<1>1. now \in Nat /\ lastMono' = now /\ lastMono <= now /\ ~terminal /\ terminal' = terminal
  BY TimesAssumption DEF MarkReadyAgain, AdvanceClock, TerminalIsFinal
<1>2. LaneType'
  BY <1>1, Zenon DEF MarkReadyAgain, laneVars, TypeOK, LaneType
<1>3. GapType' /\ GapIffDark' /\ GapsDisjoint'
  BY <1>1, <1>2, RecomputeGaps, Zenon DEF MarkReadyAgain, LaneType
<1>4. OneProbe' /\ TokensDistinct'
  BY DEF MarkReadyAgain, laneVars, OneProbe, TokensDistinct
<1>5. BoundedWait'
  BY <1>1, WaitMonotone, Zenon DEF MarkReadyAgain, laneVars, BoundedWait
<1>6. TerminalIsFinal'
  BY <1>1 DEF TerminalIsFinal
<1> QED
  BY <1>2, <1>3, <1>4, <1>5, <1>6, TypeParts, PTL

(* retire_lane preserves the invariant.                                       *)
LEMMA RetireLaneStep ==
  ASSUME Inv, NEW now \in Times, NEW l \in Lane, NEW t \in Token, RetireLane(l, t, now)
  PROVE  Inv'
<1> USE DEF Inv
<1>1. now \in Nat /\ lastMono' = now /\ lastMono <= now /\ ~terminal /\ terminal' = terminal
  BY TimesAssumption DEF RetireLane, AdvanceClock, TerminalIsFinal
<1>2. LaneType'
  BY <1>1 DEF RetireLane, TypeOK, LaneType, LaneState, CircuitState
<1>3. GapType' /\ GapIffDark' /\ GapsDisjoint'
  BY <1>1, <1>2, RecomputeGaps DEF RetireLane, LaneType
<1>4. OneProbe'
  BY DEF RetireLane, TypeOK, OneProbe
<1>5. TokensDistinct'
  BY DEF RetireLane, TokensDistinct
<1>6. BoundedWait'
  <2> SUFFICES ASSUME NEW m \in Lane, state'[m] = "BACKOFF"
               PROVE  m \in RestartRequests(lastMono + BackoffMax + CircuitCooldown)'
    BY DEF BoundedWait
  <2>1. CASE m = l
    BY <1>1, <2>1, ConfigFacts DEF RetireLane, TypeOK, RestartRequests, CircuitBlocked, None
  <2>2. CASE m # l
    BY <1>1, <2>2, WaitMonotone, Zenon DEF RetireLane, TypeOK
  <2> QED
    BY <2>1, <2>2
<1>7. TerminalIsFinal'
  BY <1>1 DEF TerminalIsFinal
<1> QED
  BY <1>2, <1>3, <1>4, <1>5, <1>6, <1>7, TypeParts, PTL

(* fail_lane, which may open the breaker, preserves the invariant.            *)
LEMMA FailLaneStep ==
  ASSUME Inv, NEW now \in Times, NEW l \in Lane, NEW t \in Token, FailLane(l, t, now)
  PROVE  Inv'
<1> USE DEF Inv
<1> DEFINE f == failures[l] + 1
<1>1. now \in Nat /\ lastMono' = now /\ lastMono <= now /\ ~terminal /\ terminal' = terminal
  BY TimesAssumption DEF FailLane, AdvanceClock, TerminalIsFinal
<1>2. f \in Nat
  BY DEF TypeOK
<1>3. PICK j \in 0..JitterMax :
        notBefore' = [notBefore EXCEPT ![l] = now + ReconnectDelay(f, j)]
  BY Zenon DEF FailLane
<1>4. ReconnectDelay(f, j) \in 0..BackoffMax
  BY <1>2, DelayBounded
<1> DEFINE d == ReconnectDelay(f, j)
<1> HIDE DEF d
<1>5. d \in 0..BackoffMax /\ notBefore' = [notBefore EXCEPT ![l] = now + d]
  BY <1>3, <1>4, Zenon DEF d
<1>6. LaneType'
  <2>1. notBefore' \in [Lane -> Nat \union {None}]
    BY <1>1, <1>5, ConfigFacts DEF TypeOK
  <2> QED
    BY <1>1, <2>1 DEF FailLane, TypeOK, LaneType, LaneState, CircuitState
<1>7. GapType' /\ GapIffDark' /\ GapsDisjoint'
  BY <1>1, <1>6, RecomputeGaps DEF FailLane, LaneType
<1>8. OneProbe'
  BY <1>1 DEF FailLane, Opens, TypeOK, OneProbe, None
<1>9. TokensDistinct'
  BY DEF FailLane, TokensDistinct
<1>10. BoundedWait'
  <2> SUFFICES ASSUME NEW m \in Lane, state'[m] = "BACKOFF"
               PROVE  m \in RestartRequests(lastMono + BackoffMax + CircuitCooldown)'
    BY DEF BoundedWait
  <2>1. CASE m = l
    <3>1. circuit'[l] = "OPEN" => circuitOpenAt'[l] = now
      BY Zenon DEF FailLane, TypeOK, OneProbe
    <3>2. notBefore'[l] = now + d
      BY <1>5 DEF TypeOK
    <3> QED
      BY <1>1, <1>5, <2>1, <3>1, <3>2, ConfigFacts
      DEF RestartRequests, CircuitBlocked, None
  <2>2. CASE m # l
    BY <1>1, <2>2, WaitMonotone, Zenon DEF FailLane, TypeOK
  <2> QED
    BY <2>1, <2>2
<1>11. TerminalIsFinal'
  BY <1>1 DEF TerminalIsFinal
<1> QED
  BY <1>6, <1>7, <1>8, <1>9, <1>10, <1>11, TypeParts, PTL

(* advance_time preserves the invariant.                                    *)
LEMMA AdvanceTimeStep ==
  ASSUME Inv, NEW now \in Times, AdvanceTime(now)
  PROVE  Inv'
<1> USE DEF Inv
<1>1. now \in Nat /\ lastMono' = now /\ lastMono <= now /\ terminal' = terminal
  BY TimesAssumption DEF AdvanceTime, AdvanceClock
<1>2. LaneType'
  BY <1>1 DEF AdvanceTime, TypeOK, LaneType
<1>3. GapType' /\ GapIffDark' /\ GapsDisjoint'
  BY <1>1, <1>2, RecomputeGaps, Zenon DEF AdvanceTime, LaneType
<1>4. OneProbe' /\ TokensDistinct'
  BY DEF AdvanceTime, OneProbe, TokensDistinct
<1>5. BoundedWait'
  BY <1>1, WaitMonotone DEF AdvanceTime, BoundedWait
<1>6. TerminalIsFinal'
  BY DEF AdvanceTime, RecomputeCoverage, CurrentCoverage, TerminalIsFinal
<1> QED
  BY <1>2, <1>3, <1>4, <1>5, <1>6, TypeParts, PTL

(* A step that only moves the clock, or consumes a token, preserves it too. *)
LEMMA ClockStep ==
  ASSUME Inv, NEW now \in Times, AdvanceClock(now),
         usedTokens \subseteq usedTokens', usedTokens' \subseteq Token,
         UNCHANGED <<laneVars, coverage, everReady, openGap, nextGapId, terminal, gaps>>
  PROVE  Inv'
<1> USE DEF Inv, laneVars
<1>1. now \in Nat /\ lastMono' = now /\ lastMono <= now
  BY TimesAssumption DEF AdvanceClock
<1>2. TypeOK'
  BY <1>1, Zenon DEF TypeOK
<1>3. GapIffDark' /\ OneProbe' /\ TokensDistinct' /\ TerminalIsFinal'
  BY DEF GapIffDark, OneProbe, TokensDistinct, TerminalIsFinal
<1>4. GapsDisjoint'
  BY <1>1 DEF GapsDisjoint, TypeOK, None
<1>5. BoundedWait'
  BY <1>1, WaitMonotone DEF BoundedWait
<1> QED
  BY <1>2, <1>3, <1>4, <1>5

(* terminate preserves it: the gap that is open stays open in the ledger.   *)
LEMMA TerminateStep ==
  ASSUME Inv, NEW now \in Times, Terminate(now)
  PROVE  Inv'
<1> USE DEF Inv
<1>1. now \in Nat /\ lastMono' = now /\ lastMono <= now /\ terminal'
  BY TimesAssumption DEF Terminate, AdvanceClock
<1>2. TypeOK'
  BY <1>1, Zenon DEF Terminate, TypeOK, LaneState, CoverageState
<1>3. GapIffDark' /\ TerminalIsFinal' /\ OneProbe' /\ TokensDistinct' /\ BoundedWait'
  BY <1>1, Zenon DEF Terminate, GapIffDark, TerminalIsFinal, OneProbe, TokensDistinct, BoundedWait
<1>4. GapsDisjoint'
  BY <1>1 DEF Terminate, GapsDisjoint, TypeOK, None
<1> QED
  BY <1>2, <1>3, <1>4

(* Every step preserves the invariant.                                      *)
LEMMA NextInv == Inv /\ [Next]_vars => Inv'
<1> SUFFICES ASSUME Inv, [Next]_vars PROVE Inv'
  OBVIOUS
<1>1. CASE UNCHANGED vars
  BY <1>1, Zenon DEF vars, laneVars, Inv, TypeOK, GapIffDark, ReadyLanes, CoverageOf, GapsDisjoint,
     OneProbe, TokensDistinct, BoundedWait, RestartRequests, CircuitBlocked, TerminalIsFinal
<1>2. CASE Next
  <2>1. PICK now \in Times :
          \/ \E l \in Lane, t \in Token :
               \/ StartLane(l, t, now)
               \/ StartRejected(l, t, now)
               \/ MarkReady(l, t, now)
               \/ MarkReadyAgain(l, t, now)
               \/ FailLane(l, t, now)
               \/ RetireLane(l, t, now)
          \/ ClockOnly(now)
          \/ AdvanceTime(now)
          \/ Terminate(now)
    BY <1>2 DEF Next
  <2>2. ASSUME NEW l \in Lane, NEW t \in Token, StartRejected(l, t, now) PROVE Inv'
    BY <2>2, ClockStep, Zenon DEF StartRejected, Inv, TypeOK
  <2>3. CASE ClockOnly(now)
    BY <2>3, ClockStep, Zenon DEF ClockOnly, Inv, TypeOK
  <2> QED
    BY <2>1, <2>2, <2>3, StartLaneStep, MarkReadyStep, MarkReadyAgainStep, FailLaneStep,
       RetireLaneStep, AdvanceTimeStep, TerminateStep
<1> QED
  BY <1>1, <1>2

(* The supervisor's invariants hold in every reachable state.               *)
THEOREM Invariance == Spec => []Inv
  BY InitInv, NextInv, PTL DEF Spec

(* Outages are explicit: a gap is open exactly while both lanes are dark.   *)
THEOREM GapsExplicit == Spec => []GapIffDark
<1>1. Inv => GapIffDark
  BY DEF Inv
<1> QED
  BY <1>1, Invariance, PTL

(* The ledger of outages is an ordered list of disjoint intervals.          *)
THEOREM GapLedgerOrdered == Spec => []GapsDisjoint
<1>1. Inv => GapsDisjoint
  BY DEF Inv
<1> QED
  BY <1>1, Invariance, PTL

(* The half-open breaker admits one probe at a time.                        *)
THEOREM BreakerAdmitsOneProbe == Spec => []OneProbe
<1>1. Inv => OneProbe
  BY DEF Inv
<1> QED
  BY <1>1, Invariance, PTL

(* A lane in BACKOFF becomes restartable within a fixed time.               *)
THEOREM WaitIsBounded == Spec => []BoundedWait
<1>1. Inv => BoundedWait
  BY DEF Inv
<1> QED
  BY <1>1, Invariance, PTL

(* Outages are never forgotten, moved or rewritten.                         *)
THEOREM LedgerNeverRewritten == Spec => LedgerAppendOnly
<1> DEFINE Kept == \A g \in 0..(nextGapId - 1) :
                     /\ g < nextGapId'
                     /\ gaps'[g].opened = gaps[g].opened
                     /\ gaps[g].closed # None => gaps'[g].closed = gaps[g].closed
<1>1. ASSUME Inv, UNCHANGED <<nextGapId, gaps>> PROVE Kept
  BY <1>1 DEF Inv, TypeOK
<1>2. ASSUME Inv, NEW now \in Times, RecomputeCoverage(now) PROVE Kept
  <2>1. CASE OpenGap(now)
    BY <1>2, <2>1 DEF OpenGap, Inv, TypeOK
  <2>2. CASE openGap # None /\ CloseGap(now)
    BY <1>2, <2>2 DEF CloseGap, Inv, TypeOK, GapsDisjoint, None
  <2>3. CASE UNCHANGED <<openGap, nextGapId, gaps>>
    BY <1>1, <1>2, <2>3
  <2> QED
    BY <1>2, <2>1, <2>2, <2>3, Zenon DEF RecomputeCoverage
<1>3. ASSUME Inv, Next PROVE Kept
  <2>1. PICK now \in Times :
          \/ \E l \in Lane, t \in Token :
               \/ StartLane(l, t, now) \/ StartRejected(l, t, now) \/ MarkReady(l, t, now)
               \/ MarkReadyAgain(l, t, now) \/ FailLane(l, t, now) \/ RetireLane(l, t, now)
          \/ ClockOnly(now) \/ AdvanceTime(now) \/ Terminate(now)
    BY <1>3 DEF Next
  <2>2. RecomputeCoverage(now) \/ UNCHANGED <<nextGapId, gaps>>
    <3>1. ASSUME NEW l \in Lane, NEW t \in Token,
                 StartLane(l, t, now) \/ MarkReady(l, t, now) \/ FailLane(l, t, now) \/ RetireLane(l, t, now)
          PROVE  RecomputeCoverage(now)
      BY <3>1, Zenon DEF StartLane, MarkReady, FailLane, RetireLane
    <3>2. ASSUME NEW l \in Lane, NEW t \in Token,
                 StartRejected(l, t, now) \/ MarkReadyAgain(l, t, now)
          PROVE  RecomputeCoverage(now) \/ UNCHANGED <<nextGapId, gaps>>
      BY <3>2 DEF StartRejected, MarkReadyAgain
    <3>3. ASSUME ClockOnly(now) \/ AdvanceTime(now) \/ Terminate(now)
          PROVE  RecomputeCoverage(now) \/ UNCHANGED <<nextGapId, gaps>>
      BY <3>3 DEF ClockOnly, AdvanceTime, Terminate
    <3> QED
      BY <2>1, <3>1, <3>2, <3>3, Zenon
  <2> QED
    BY <1>1, <1>2, <1>3, <2>2
<1>4. Inv /\ [Next]_vars => [Kept]_vars
  BY <1>3
<1> QED
  BY <1>4, Invariance, PTL DEF Spec, LedgerAppendOnly

-----------------------------------------------------------------------------
(* The polling loop.  LoopTypeOK types what the loop keeps; while the lanes *)
(* are being launched, work and launches say how far it got.                *)
LoopPc == {"launch", "drain", "horizon", "scan", "complete", "restart", "advance",
           "finish", "committed", "error"}
Runtime == [token : Token, lines : 0..2, ready : BOOLEAN, exitSeen : Nat \union {None}]
Process == [life : {"none", "running", "exited"}, lines : 0..2, facts : BOOLEAN,
            failed : BOOLEAN, clean : BOOLEAN]

LoopTypeOK ==
  /\ pc \in LoopPc
  /\ clock \in 0..MaxClock /\ nowNs \in 0..MaxClock
  /\ work \subseteq Lane
  /\ rt \in [Lane -> Runtime \union {Absent}]
  /\ child \in [Lane -> Process]
  /\ horizonClosed \in BOOLEAN
  /\ launches \in 0..MaxLaunches
  /\ pc = "launch" => \/ work = Lane /\ launches = 0
                      \/ work = {"SHADOW"} /\ launches = 1
  /\ pc \in {"scan", "restart"} => work # {}
  /\ pc = "complete" => work \subseteq Runtimes

(* The loop and the supervisor agree until the horizon is closed.  The      *)
(* iteration's clock reading is not behind the supervisor's clock           *)
(* and lies before the deadline once the horizon has been checked; a lane   *)
(* with a runtime runs under the runtime's token and is READY exactly when  *)
(* the loop has marked it so; the lanes about to be restarted may start.    *)
Reading == {"scan", "complete", "restart", "advance"}

TimeInv ==
  /\ pc = "launch" => clock = 0
  /\ ~horizonClosed /\ pc # "committed" => ~terminal /\ lastMono <= Deadline
  /\ ~horizonClosed /\ pc \in {"launch", "drain"} => lastMono <= clock
  /\ ~horizonClosed /\ pc \in Reading \union {"horizon"} => lastMono <= nowNs /\ nowNs <= clock
  /\ ~horizonClosed /\ pc \in Reading => nowNs < Deadline

TokenInv == pc # "error" => usedTokens \subseteq 1..launches

LaneInv ==
  ~terminal => \A l \in Runtimes :
    /\ runToken[l] = rt[l].token
    /\ state[l] = IF rt[l].ready THEN "READY" ELSE "STARTING"

MayRestart(l) == state[l] = "BACKOFF" /\ BackoffElapsed(l, nowNs) /\ ~CircuitBlocked(l, nowNs)
RestartInv ==
  pc = "restart" => ~terminal /\ lastMono = nowNs /\ \A l \in work : MayRestart(l)

LoopInv == TimeInv /\ TokenInv /\ LaneInv /\ RestartInv /\ OnlyKnownErrors

LEMMA CaptureFacts ==
  /\ Deadline \in Nat \ {0} /\ Grace \in Nat /\ MaxClock \in Nat /\ Deadline < MaxClock
  /\ 0..MaxClock \subseteq Times
  /\ MaxLaunches \in Nat /\ MaxLaunches >= 2 /\ Token = 1..MaxLaunches
  BY CaptureAssumption

LEMMA OrderedIn ==
  ASSUME NEW S \in SUBSET Lane, S # {}
  PROVE  Ordered(S) \in S
  BY Zenon DEF Ordered, Lane

(* What launch_lane returns is a runtime and a process.                     *)
LEMMA LaunchTypes ==
  ASSUME NEW t \in Token
  PROVE  Launched(t) \in Runtime /\ Launched(t) # Absent /\ NewChild \in Process
<1>1. Launched(t) \in Runtime
  BY DEF Launched, Runtime
<1>2. Launched(t).token # Absent.token
  BY TokenAssumption DEF Launched, Absent
<1>3. NoChild \in Process
  BY DEF NoChild, Process
<1>4. NewChild \in Process
  BY <1>3 DEF NewChild, Process
<1> QED
  BY <1>1, <1>2, <1>4

LEMMA LaunchType ==
  ASSUME LoopTypeOK, NEW l \in Lane, NEW now, NEW e, launches < MaxLaunches, LaunchUnder(l, now, e)
  PROVE  /\ rt' \in [Lane -> Runtime \union {Absent}]
         /\ child' \in [Lane -> Process]
         /\ launches' = launches + 1 /\ launches' \in 0..MaxLaunches
<1>1. launches + 1 \in Token /\ launches + 1 \in 0..MaxLaunches
  BY CaptureFacts DEF LoopTypeOK
<1>2. Launched(launches + 1) \in Runtime /\ NewChild \in Process
  BY <1>1, LaunchTypes
<1> QED
  BY <1>1, <1>2 DEF LoopTypeOK, LaunchUnder

LEMMA NotAbsent ==
  ASSUME NEW r \in Runtime
  PROVE  r # Absent
<1>1. r.token # Absent.token
  BY TokenAssumption DEF Runtime, Absent
<1> QED
  BY <1>1

(* A run that ends with an error leaves the loop's state well typed.        *)
LEMMA DropType ==
  ASSUME LoopTypeOK, LoopDropped, pc' = "error", UNCHANGED <<clock, horizonClosed, launches>>
  PROVE  LoopTypeOK'
<1>1. NoChild \in Process
  BY DEF NoChild, Process
<1>2. child' \in [Lane -> Process] /\ rt' \in [Lane -> Runtime \union {Absent}]
  BY <1>1, Zenon DEF LoopDropped
<1>3. 0 \in 0..MaxClock
  BY CaptureFacts
<1>4. work' = {} /\ nowNs' = 0
  BY DEF LoopDropped
<1> QED
  BY <1>2, <1>3, <1>4, Zenon DEF LoopTypeOK, LoopPc

LEMMA FailType ==
  ASSUME LoopTypeOK, NEW why, Fail(why), clock' = clock
  PROVE  LoopTypeOK'
  BY DropType, Zenon DEF Fail

LEMMA InitLoopType == CaptureInit => LoopTypeOK
<1> SUFFICES ASSUME CaptureInit PROVE LoopTypeOK
  OBVIOUS
<1>1. NoChild \in Process
  BY DEF NoChild, Process
<1>2. child \in [Lane -> Process] /\ rt \in [Lane -> Runtime \union {Absent}]
  BY <1>1 DEF CaptureInit
<1>3. 0 \in 0..MaxClock /\ 0 \in 0..MaxLaunches
  BY CaptureFacts
<1> QED
  BY <1>2, <1>3, Zenon DEF CaptureInit, LoopTypeOK, LoopPc

LEMMA LaunchFirstType ==
  ASSUME LoopTypeOK, LaunchFirst
  PROVE  LoopTypeOK'
<1> DEFINE l == Ordered(work)
<1>1. \/ work = Lane /\ launches = 0 /\ l = "PRIMARY"
      \/ work = {"SHADOW"} /\ launches = 1 /\ l = "SHADOW"
  BY DEF LaunchFirst, LoopTypeOK, Ordered, Lane
<1>2. l \in Lane /\ launches < MaxLaunches
  BY <1>1, CaptureFacts DEF Lane
<1>3. \/ /\ LaunchUnder(l, clock, "LANE_LAUNCHED") /\ work' = work \ {l}
         /\ pc' = IF work = {l} THEN "drain" ELSE "launch"
         /\ UNCHANGED <<clock, nowNs, horizonClosed>>
      \/ Fail("launch") /\ clock' = clock
  BY Zenon DEF LaunchFirst
<1>4. CASE /\ LaunchUnder(l, clock, "LANE_LAUNCHED") /\ work' = work \ {l}
           /\ pc' = IF work = {l} THEN "drain" ELSE "launch"
           /\ UNCHANGED <<clock, nowNs, horizonClosed>>
  <2>1. /\ rt' \in [Lane -> Runtime \union {Absent}] /\ child' \in [Lane -> Process]
        /\ launches' = launches + 1 /\ launches' \in 0..MaxLaunches
    BY <1>2, <1>4, LaunchType
  <2>2. work' \subseteq Lane
        /\ (pc' = "launch" => work' = {"SHADOW"} /\ launches' = 1)
        /\ pc' \in {"drain", "launch"}
    BY <1>1, <1>4, <2>1 DEF Lane
  <2> QED
    BY <1>4, <2>1, <2>2 DEF LoopTypeOK, LoopPc
<1> QED
  BY <1>3, <1>4, FailType, Zenon

LEMMA DrainType ==
  ASSUME LoopTypeOK, DrainOutput
  PROVE  LoopTypeOK'
<1> DEFINE read == [l \in Lane |-> IF l \in Runtimes
                                   THEN [rt[l] EXCEPT !.lines = child[l].lines] ELSE rt[l]]
<1>1. read \in [Lane -> Runtime \union {Absent}]
  <2>1. ASSUME NEW l \in Lane, l \in Runtimes
        PROVE  [rt[l] EXCEPT !.lines = child[l].lines] \in Runtime
    <3>1. rt[l] \in Runtime /\ child[l].lines \in 0..2
      BY <2>1 DEF LoopTypeOK, Runtimes, Process
    <3> QED
      BY <3>1 DEF Runtime
  <2> QED
    BY <2>1 DEF LoopTypeOK
<1> HIDE DEF read
<1>2. \/ /\ rt' = read /\ pc' = "horizon" /\ nowNs' = clock
         /\ UNCHANGED <<clock, child, work, horizonClosed, launches>>
      \/ Fail("output") /\ clock' = clock
  BY Zenon DEF DrainOutput, OutputRefused, read
<1>3. CASE /\ rt' = read /\ pc' = "horizon" /\ nowNs' = clock
           /\ UNCHANGED <<clock, child, work, horizonClosed, launches>>
  BY <1>1, <1>3 DEF LoopTypeOK, LoopPc
<1> QED
  BY <1>2, <1>3, FailType, Zenon

LEMMA HorizonType ==
  ASSUME LoopTypeOK, CheckHorizon
  PROVE  LoopTypeOK'
<1>1. \/ /\ UNCHANGED <<clock, child, nowNs, rt, launches>>
         /\ pc' = "scan" /\ work' = Lane /\ horizonClosed' \in BOOLEAN
      \/ Fail("terminate") /\ clock' = clock
  BY Zenon DEF CheckHorizon, LoopTypeOK
<1>2. Lane # {}
  BY DEF Lane
<1>3. CASE /\ UNCHANGED <<clock, child, nowNs, rt, launches>>
           /\ pc' = "scan" /\ work' = Lane /\ horizonClosed' \in BOOLEAN
  BY <1>2, <1>3 DEF LoopTypeOK, LoopPc
<1> QED
  BY <1>1, <1>3, FailType, Zenon

(* A scan of lane l writes at most l's runtime, and goes on with the next   *)
(* lane or with the lanes that are complete.                                *)
LEMMA ScanCases ==
  ASSUME LoopTypeOK, ScanLane
  PROVE  \E l \in Lane :
           /\ l \in work
           /\ UNCHANGED <<clock, horizonClosed, launches>>
           /\ \/ /\ UNCHANGED <<child, nowNs>> /\ NextScan(l)
                 /\ rt' \in [Lane -> Runtime \union {Absent}]
                 /\ \A m \in Lane : /\ (rt'[m] # Absent) <=> (rt[m] # Absent)
                                    /\ rt'[m].token = rt[m].token
                                    /\ m # l => rt'[m] = rt[m]
                 /\ \/ UNCHANGED supervisorVars /\ rt'[l].ready = rt[l].ready
                    \/ l \in Runtimes /\ MarkReady(l, rt[l].token, nowNs) /\ rt'[l].ready
              \/ /\ l \in Runtimes /\ UNCHANGED supervisorVars /\ BecomesReady(l)
                 /\ nowNs < lastMono \/ runToken[l] # rt[l].token \/ state[l] # "STARTING"
                 /\ Fail(IF nowNs < lastMono THEN "clock" ELSE "ready")
              \/ Fail("journal") /\ UNCHANGED supervisorVars
<1> DEFINE l == Ordered(work)
           waited == IF ExitNoticed(l) THEN [rt EXCEPT ![l].exitSeen = clock] ELSE rt
<1>1. l \in Lane /\ l \in work /\ clock \in Nat
  BY OrderedIn, CaptureFacts DEF ScanLane, LoopTypeOK
<1>2. UNCHANGED <<clock, horizonClosed, launches>>
  BY DEF ScanLane
<1> DEFINE Kept(r) == /\ r \in [Lane -> Runtime \union {Absent}]
                      /\ \A m \in Lane : /\ (r[m] # Absent) <=> (rt[m] # Absent)
                                         /\ r[m].token = rt[m].token
                                         /\ m # l => r[m] = rt[m]
<1>3. Kept(rt)
  BY DEF LoopTypeOK
<1>4. ASSUME l \in Runtimes
      PROVE  Kept(waited) /\ waited[l] \in Runtime /\ waited[l].ready = rt[l].ready
  <2>1. rt[l] \in Runtime
    BY <1>1, <1>4 DEF Runtimes, LoopTypeOK
  <2>2. [rt[l] EXCEPT !.exitSeen = clock] \in Runtime
    BY <1>1, <2>1 DEF Runtime
  <2>3. [rt[l] EXCEPT !.exitSeen = clock] # Absent /\ rt[l] # Absent
    BY <2>1, <2>2, NotAbsent
  <2>4. CASE ExitNoticed(l)
    <3>1. waited = [rt EXCEPT ![l] = [rt[l] EXCEPT !.exitSeen = clock]]
      BY <2>4
    <3> QED
      BY <1>1, <2>1, <2>2, <2>3, <3>1 DEF LoopTypeOK, Runtime
  <2>5. CASE ~ExitNoticed(l)
    BY <1>3, <2>1, <2>5
  <2> QED
    BY <2>4, <2>5
<1>5. ASSUME l \in Runtimes
      PROVE  Kept([waited EXCEPT ![l].ready = TRUE]) /\ [waited EXCEPT ![l].ready = TRUE][l].ready
  <2>1. Kept(waited) /\ waited[l] \in Runtime
    BY <1>4, <1>5
  <2>2. [waited[l] EXCEPT !.ready = TRUE] \in Runtime /\ [waited[l] EXCEPT !.ready = TRUE].token = waited[l].token
        /\ [waited[l] EXCEPT !.ready = TRUE].ready
    BY <2>1, Zenon DEF Runtime
  <2>3. [waited[l] EXCEPT !.ready = TRUE] # Absent /\ rt[l] # Absent
    BY <1>5, <2>2, NotAbsent, Zenon DEF Runtimes
  <2> HIDE DEF waited
  <2> QED
    BY <1>1, <2>1, <2>2, <2>3
<1> HIDE DEF l, waited, Kept
<1>6. \/ /\ UNCHANGED <<child, nowNs>> /\ NextScan(l)
         /\ \/ l \notin Runtimes /\ UNCHANGED <<supervisorVars, rt>>
            \/ l \in Runtimes /\ rt' = waited /\ UNCHANGED supervisorVars
            \/ /\ l \in Runtimes /\ MarkReady(l, rt[l].token, nowNs)
               /\ rt' = [waited EXCEPT ![l].ready = TRUE]
      \/ /\ l \in Runtimes /\ BecomesReady(l)
         /\ nowNs < lastMono \/ runToken[l] # rt[l].token \/ state[l] # "STARTING"
         /\ Fail(IF nowNs < lastMono THEN "clock" ELSE "ready")
         /\ UNCHANGED supervisorVars
      \/ Fail("journal") /\ UNCHANGED supervisorVars
  BY Zenon DEF ScanLane, JournalRefused, l, waited
<1> USE <1>1
<1> WITNESS l \in Lane
<1>7. CASE /\ UNCHANGED <<child, nowNs>> /\ NextScan(l)
           /\ \/ l \notin Runtimes /\ UNCHANGED <<supervisorVars, rt>>
              \/ l \in Runtimes /\ rt' = waited /\ UNCHANGED supervisorVars
              \/ /\ l \in Runtimes /\ MarkReady(l, rt[l].token, nowNs)
                 /\ rt' = [waited EXCEPT ![l].ready = TRUE]
  <2>1. Kept(rt')
    BY <1>3, <1>4, <1>5, <1>7, Zenon
  <2>2. \/ UNCHANGED supervisorVars /\ rt'[l].ready = rt[l].ready
        \/ l \in Runtimes /\ MarkReady(l, rt[l].token, nowNs) /\ rt'[l].ready
    BY <1>4, <1>5, <1>7, Zenon
  <2> QED
    BY <1>1, <1>2, <1>7, <2>1, <2>2, Zenon DEF Kept
<1> QED
  BY <1>1, <1>2, <1>6, <1>7, Zenon

(* Fewer runtimes than at the start of the scan are complete.               *)
LEMMA ScanType ==
  ASSUME LoopTypeOK, ScanLane
  PROVE  LoopTypeOK'
<1>1. PICK l \in Lane :
        /\ l \in work
        /\ UNCHANGED <<clock, horizonClosed, launches>>
        /\ \/ /\ UNCHANGED <<child, nowNs>> /\ NextScan(l)
              /\ rt' \in [Lane -> Runtime \union {Absent}]
           \/ \E why : Fail(why)
  BY ScanCases, Zenon
<1>2. CASE /\ UNCHANGED <<child, nowNs>> /\ NextScan(l)
           /\ rt' \in [Lane -> Runtime \union {Absent}]
  <2>1. /\ pc' \in {"complete", "scan"} /\ work' \subseteq Lane
        /\ pc' = "scan" => work' # {}
        /\ pc' = "complete" => \A m \in work' : rt'[m] # Absent
    BY <1>1, <1>2, Zenon DEF NextScan, LoopTypeOK
  <2> QED
    BY <1>1, <1>2, <2>1, Zenon DEF LoopTypeOK, LoopPc, Runtimes
<1> QED
  BY <1>1, <1>2, FailType, Zenon

(* One completed lane loses its runtime; the others keep theirs.            *)
LEMMA CompleteCases ==
  ASSUME LoopTypeOK, CompleteLane
  PROVE  \E l \in Lane, n \in 0..2 :
           /\ l \in work /\ l \in Runtimes /\ rt[l].token \in Token /\ rt[l].ready \in BOOLEAN
           /\ UNCHANGED <<clock, horizonClosed, launches>>
           /\ \/ ~horizonClosed /\ OutcomeIllegal(l, n) /\ Fail("outcome") /\ UNCHANGED supervisorVars
              \/ (Fail("output") \/ Fail("journal")) /\ UNCHANGED supervisorVars
              \/ /\ rt' = [rt EXCEPT ![l] = Absent] /\ child' = [child EXCEPT ![l] = NoChild]
                 /\ work' = work \ {l} /\ UNCHANGED <<nowNs, pc, cause>>
                 /\ \/ UNCHANGED supervisorVars
                    \/ Clean(l, n) /\ RetireLane(l, rt[l].token, nowNs)
                    \/ FailLane(l, rt[l].token, nowNs)
<1> DEFINE l == Ordered(work)
<1>1. l \in Lane /\ l \in work /\ l \in Runtimes
  BY OrderedIn DEF CompleteLane, LoopTypeOK
<1>2. rt[l] \in Runtime /\ child[l] \in Process
  BY <1>1, Zenon DEF LoopTypeOK, Runtimes
<1>3. rt[l].token \in Token /\ rt[l].ready \in BOOLEAN /\ rt[l].lines..child[l].lines \subseteq 0..2
  BY <1>2 DEF Runtime, Process
<1> DEFINE Outcome(n) ==
        IF ReportsOutcome /\ OutcomeIllegal(l, n)
        THEN Fail("outcome") /\ UNCHANGED supervisorVars
        ELSE /\ \/ ~ReportsOutcome /\ UNCHANGED supervisorVars
                \/ ReportsOutcome /\ Clean(l, n) /\ RetireLane(l, rt[l].token, nowNs)
                \/ ReportsOutcome /\ ~Clean(l, n) /\ FailLane(l, rt[l].token, nowNs)
             /\ rt' = [rt EXCEPT ![l] = Absent]
             /\ child' = [child EXCEPT ![l] = NoChild]
             /\ work' = work \ {l}
             /\ UNCHANGED <<pc, nowNs, horizonClosed, launches, artifact, cause>>
<1> HIDE DEF l
<1>4. \/ (Fail("output") \/ Fail("journal")) /\ UNCHANGED supervisorVars
      \/ \E n \in rt[l].lines..child[l].lines : Outcome(n)
  BY Zenon DEF CompleteLane, OutputRefused, JournalRefused, l
<1>5. clock' = clock
  BY DEF CompleteLane
<1>6. CASE (Fail("output") \/ Fail("journal")) /\ UNCHANGED supervisorVars
  <2>1. 0 \in 0..2
    OBVIOUS
  <2>2. UNCHANGED <<horizonClosed, launches>>
    BY <1>6, Zenon DEF Fail
  <2> USE <1>1, <2>1
  <2> WITNESS l \in Lane, 0 \in 0..2
  <2> QED
    BY <1>3, <1>5, <1>6, <2>2, Zenon
<1>7. ASSUME NEW n \in rt[l].lines..child[l].lines, Outcome(n)
      PROVE  \E l_1 \in Lane, n_1 \in 0..2 :
           /\ l_1 \in work /\ l_1 \in Runtimes /\ rt[l_1].token \in Token /\ rt[l_1].ready \in BOOLEAN
           /\ UNCHANGED <<clock, horizonClosed, launches>>
           /\ \/ ~horizonClosed /\ OutcomeIllegal(l_1, n_1) /\ Fail("outcome") /\ UNCHANGED supervisorVars
              \/ (Fail("output") \/ Fail("journal")) /\ UNCHANGED supervisorVars
              \/ /\ rt' = [rt EXCEPT ![l_1] = Absent] /\ child' = [child EXCEPT ![l_1] = NoChild]
                 /\ work' = work \ {l_1} /\ UNCHANGED <<nowNs, pc, cause>>
                 /\ \/ UNCHANGED supervisorVars
                    \/ Clean(l_1, n_1) /\ RetireLane(l_1, rt[l_1].token, nowNs)
                    \/ FailLane(l_1, rt[l_1].token, nowNs)
  <2>1. n \in 0..2
    BY <1>3, <1>7, Zenon
  <2> USE <1>1, <2>1
  <2> WITNESS l \in Lane, n \in 0..2
  <2> QED
    BY <1>3, <1>5, <1>7, Zenon DEF Fail, ReportsOutcome
<1> QED
  BY <1>4, <1>6, <1>7, Zenon

LEMMA CompleteType ==
  ASSUME LoopTypeOK, CompleteLane
  PROVE  LoopTypeOK'
<1>1. PICK l \in Lane, n \in 0..2 :
        /\ UNCHANGED <<clock, horizonClosed, launches>>
        /\ \/ \E why : Fail(why)
           \/ /\ rt' = [rt EXCEPT ![l] = Absent] /\ child' = [child EXCEPT ![l] = NoChild]
              /\ work' = work \ {l} /\ UNCHANGED <<nowNs, pc>>
  BY CompleteCases, Zenon
<1>2. CASE /\ rt' = [rt EXCEPT ![l] = Absent] /\ child' = [child EXCEPT ![l] = NoChild]
           /\ work' = work \ {l} /\ UNCHANGED <<nowNs, pc>>
  <2>1. NoChild \in Process
    BY DEF NoChild, Process
  <2>2. rt' \in [Lane -> Runtime \union {Absent}] /\ child' \in [Lane -> Process]
    BY <1>2, <2>1, Zenon DEF LoopTypeOK
  <2>3. pc = "complete"
    BY DEF CompleteLane
  <2>4. \A m \in work' : m \in Runtimes'
    BY <1>2, <2>3, Zenon DEF LoopTypeOK, Runtimes
  <2> QED
    BY <1>1, <1>2, <2>2, <2>3, <2>4, Zenon DEF LoopTypeOK
<1> QED
  BY <1>1, <1>2, FailType, Zenon

LEMMA RequestType ==
  ASSUME LoopTypeOK, RequestRestarts
  PROVE  LoopTypeOK'
<1>1. \/ /\ UNCHANGED <<clock, child, nowNs, rt, horizonClosed, launches>>
         /\ \/ pc' = "advance" /\ work' = work
            \/ pc' = "restart" /\ work' = RestartRequests(nowNs) /\ work' # {}
            \/ pc' = "advance" /\ work' = {}
      \/ Fail("clock") /\ clock' = clock
  BY DEF RequestRestarts
<1>2. RestartRequests(nowNs) \subseteq Lane
  BY DEF RestartRequests
<1>3. CASE /\ UNCHANGED <<clock, child, nowNs, rt, horizonClosed, launches>>
           /\ \/ pc' = "advance" /\ work' = work
              \/ pc' = "restart" /\ work' = RestartRequests(nowNs) /\ work' # {}
              \/ pc' = "advance" /\ work' = {}
  BY <1>2, <1>3, Zenon DEF LoopTypeOK, LoopPc
<1> QED
  BY <1>1, <1>3, FailType, Zenon

(* What a restart request leads to.                                         *)
LEMMA RestartCases ==
  ASSUME LoopTypeOK, RestartLane
  PROVE  \E l \in Lane :
           /\ l \in work
           /\ UNCHANGED <<clock, horizonClosed>>
           /\ \/ rt[l] # Absent /\ Fail("restart_over_runtime") /\ UNCHANGED supervisorVars
              \/ /\ rt[l] = Absent /\ (nowNs < lastMono \/ ~CanStart(l, launches + 1, nowNs))
                 /\ Fail("start") /\ UNCHANGED supervisorVars
              \/ /\ launches < MaxLaunches /\ StartLane(l, launches + 1, nowNs)
                 /\ Fail("launch")
              \/ /\ work' = work \ {l} /\ UNCHANGED <<nowNs, cause>>
                 /\ pc' = IF work = {l} THEN "advance" ELSE "restart"
                 /\ \/ UNCHANGED <<supervisorVars, child, rt, launches>>
                    \/ /\ launches < MaxLaunches /\ rt[l] = Absent
                       /\ LaunchUnder(l, nowNs, "LANE_RESTARTED")
<1> DEFINE l == Ordered(work)
<1>1. l \in Lane /\ l \in work
  BY OrderedIn DEF RestartLane, LoopTypeOK
<1>2. launches # MaxLaunches => launches < MaxLaunches
  BY CaptureFacts DEF LoopTypeOK
<1> HIDE DEF l
<1>3. /\ clock' = clock
      /\ IF rt[l] # Absent
         THEN Fail("restart_over_runtime") /\ UNCHANGED supervisorVars
         ELSE IF Deadline - clock < Overlap \/ launches = MaxLaunches
         THEN /\ work' = work \ {l} /\ pc' = IF work = {l} THEN "advance" ELSE "restart"
              /\ UNCHANGED <<supervisorVars, child, nowNs, rt, horizonClosed, launches, cause>>
         ELSE IF nowNs < lastMono \/ ~CanStart(l, launches + 1, nowNs)
         THEN Fail("start") /\ UNCHANGED supervisorVars
         ELSE \/ /\ LaunchUnder(l, nowNs, "LANE_RESTARTED")
                 /\ work' = work \ {l} /\ pc' = IF work = {l} THEN "advance" ELSE "restart"
                 /\ UNCHANGED <<nowNs, horizonClosed, cause>>
              \/ StartLane(l, launches + 1, nowNs) /\ Fail("launch")
  BY Zenon DEF RestartLane, l
<1> USE <1>1
<1> WITNESS l \in Lane
<1> QED
  BY <1>2, <1>3, Zenon DEF Fail

LEMMA RestartType ==
  ASSUME LoopTypeOK, RestartLane
  PROVE  LoopTypeOK'
<1>1. PICK l \in Lane :
        /\ l \in work
        /\ UNCHANGED <<clock, horizonClosed>>
        /\ \/ \E why : Fail(why)
           \/ /\ work' = work \ {l} /\ nowNs' = nowNs
              /\ pc' = IF work = {l} THEN "advance" ELSE "restart"
              /\ \/ UNCHANGED <<child, rt, launches>>
                 \/ launches < MaxLaunches /\ LaunchUnder(l, nowNs, "LANE_RESTARTED")
  BY RestartCases, Zenon
<1>2. CASE \E why : Fail(why)
  BY <1>1, <1>2, FailType, Zenon
<1>3. CASE /\ work' = work \ {l} /\ nowNs' = nowNs
           /\ pc' = IF work = {l} THEN "advance" ELSE "restart"
           /\ \/ UNCHANGED <<child, rt, launches>>
              \/ launches < MaxLaunches /\ LaunchUnder(l, nowNs, "LANE_RESTARTED")
  <2>1. /\ rt' \in [Lane -> Runtime \union {Absent}] /\ child' \in [Lane -> Process]
        /\ launches' \in 0..MaxLaunches
    BY <1>3, LaunchType DEF LoopTypeOK
  <2>2. work' \subseteq Lane /\ pc' \in {"advance", "restart"} /\ (pc' = "restart" => work' # {})
    BY <1>1, <1>3, Zenon DEF LoopTypeOK
  <2> QED
    BY <1>1, <1>3, <2>1, <2>2, Zenon DEF LoopTypeOK, LoopPc
<1> QED
  BY <1>1, <1>2, <1>3

LEMMA EndType ==
  ASSUME LoopTypeOK, FinishIteration \/ Commit
  PROVE  LoopTypeOK'
<1>1. /\ UNCHANGED <<clock, horizonClosed, launches>>
      /\ \/ /\ UNCHANGED <<child, work, rt>>
            /\ pc' \in {"finish", "drain", "committed"} /\ nowNs' \in {0, nowNs}
         \/ pc' = "error" /\ LoopDropped
  BY DEF FinishIteration, Commit, Fail
<1>2. CASE /\ UNCHANGED <<child, work, rt>>
           /\ pc' \in {"finish", "drain", "committed"} /\ nowNs' \in {0, nowNs}
  BY <1>1, <1>2, CaptureFacts DEF LoopTypeOK, LoopPc
<1>3. CASE pc' = "error" /\ LoopDropped
  BY <1>1, <1>3, DropType, Zenon
<1> QED
  BY <1>1, <1>2, <1>3

(* The steps of a child's life.                                             *)
Named(c) == [c EXCEPT !.lines = 1]
Reported(c) == [c EXCEPT !.lines = 2]
Ready(c) == [c EXCEPT !.facts = TRUE]
Failed(c) == [c EXCEPT !.failed = TRUE]
Exited(c) == [c EXCEPT !.life = "exited"]

LEMMA ProcessSteps ==
  ASSUME NEW c \in Process
  PROVE  /\ Named(c) \in Process /\ Reported(c) \in Process /\ Ready(c) \in Process
         /\ Failed(c) \in Process /\ Exited(c) \in Process /\ CleanExit \in Process
<1>1. Named(c) \in Process /\ Reported(c) \in Process
  BY DEF Process, Named, Reported
<1>2. Ready(c) \in Process /\ Failed(c) \in Process
  BY Zenon DEF Process, Ready, Failed
<1>3. Exited(c) \in Process
  BY DEF Process, Exited
<1>4. CleanExit \in Process
  BY DEF Process, CleanExit
<1> QED
  BY <1>1, <1>2, <1>3, <1>4

LEMMA WorldType ==
  ASSUME LoopTypeOK, Tick \/ \E l \in Lane : ChildNames(l) \/ ChildStep(l)
  PROVE  LoopTypeOK'
<1>1. CASE Tick
  <2>1. clock' \in 0..MaxClock /\ UNCHANGED <<loopVars, child>>
    BY <1>1, CaptureFacts DEF Tick, LoopTypeOK
  <2> QED
    BY <2>1, Zenon DEF LoopTypeOK, loopVars, Runtimes
<1>2. ASSUME NEW l \in Lane, ChildNames(l) \/ ChildStep(l)
      PROVE  LoopTypeOK'
  <2>1. UNCHANGED <<loopVars, clock>>
    BY <1>2 DEF ChildNames, ChildStep
  <2>2. child[l] \in Process
    BY DEF LoopTypeOK
  <2>3. \E c \in Process : child' = [child EXCEPT ![l] = c]
    <3>1. CASE ChildNames(l)
      <4>1. child' = [child EXCEPT ![l] = Named(child[l])]
        BY <3>1 DEF ChildNames, Named
      <4> QED
        BY <2>2, <4>1, ProcessSteps, Zenon
    <3>2. CASE ChildStep(l)
      <4>1. \/ child' = [child EXCEPT ![l] = Ready(child[l])]
            \/ child' = [child EXCEPT ![l] = Failed(child[l])]
            \/ child' = [child EXCEPT ![l] = Reported(child[l])]
            \/ child' = [child EXCEPT ![l] = Exited(child[l])]
            \/ child' = [child EXCEPT ![l] = CleanExit]
        BY <3>2, Zenon DEF ChildStep, Ready, Failed, Reported, Exited
      <4> QED
        BY <2>2, <4>1, ProcessSteps, Zenon
    <3> QED
      BY <1>2, <3>1, <3>2
  <2>4. child' \in [Lane -> Process]
    BY <2>3 DEF LoopTypeOK
  <2> QED
    BY <2>1, <2>4 DEF LoopTypeOK, loopVars, Runtimes
<1> QED
  BY <1>1, <1>2, Zenon

(* Every step keeps the types of the loop.                                  *)
LEMMA NextLoopType ==
  ASSUME LoopTypeOK, [CaptureNext]_captureVars
  PROVE  LoopTypeOK'
<1>1. CASE UNCHANGED captureVars
  BY <1>1 DEF captureVars, loopVars, LoopTypeOK, Runtimes
<1>2. CASE LoopStep
  BY <1>2, LaunchFirstType, DrainType, HorizonType, ScanType, CompleteType, RequestType,
     RestartType, EndType, Zenon DEF LoopStep
<1>3. CASE Tick \/ \E l \in Lane : ChildNames(l) \/ ChildStep(l)
  BY <1>3, WorldType
<1>4. CASE IoFails
  BY <1>4, FailType, Zenon DEF IoFails
<1> QED
  BY <1>1, <1>2, <1>3, <1>4, Zenon DEF CaptureNext, Ended

(* The operations of the supervisor that the loop calls are steps of it.    *)
LEMMA SupervisorCalls ==
  ASSUME NEW now \in 0..MaxClock
  PROVE  /\ \A l \in Lane, t \in Token :
              \/ StartLane(l, t, now) \/ MarkReady(l, t, now)
              \/ FailLane(l, t, now) \/ RetireLane(l, t, now)
              => Next
         /\ ClockOnly(now) \/ AdvanceTime(now) \/ Terminate(now) => Next
<1>1. now \in Times
  BY CaptureFacts
<1> QED
  BY <1>1, Zenon DEF Next

(* Every step of the capture is a step of the supervisor or leaves it       *)
(* alone: the readings and tokens the loop passes are ones the supervisor   *)
(* admits.                                                                  *)
LEMMA CaptureStep ==
  ASSUME LoopTypeOK, [CaptureNext]_captureVars
  PROVE  [Next]_vars
<1>1. clock \in 0..MaxClock /\ nowNs \in 0..MaxClock /\ Deadline \in 0..MaxClock
  BY CaptureFacts DEF LoopTypeOK
<1>2. launches < MaxLaunches => launches + 1 \in Token
  BY CaptureFacts DEF LoopTypeOK
<1>3. CASE LaunchFirst
  <2>1. Ordered(work) \in Lane /\ launches < MaxLaunches
    BY <1>3, OrderedIn, CaptureFacts DEF LaunchFirst, LoopTypeOK, Lane, Ordered
  <2>2. StartLane(Ordered(work), launches + 1, clock)
    BY <1>3, Zenon DEF LaunchFirst, LaunchUnder
  <2> QED
    BY <1>1, <1>2, <2>1, <2>2, SupervisorCalls, Zenon
<1>4. CASE DrainOutput
  BY <1>4, Zenon DEF DrainOutput, supervisorVars
<1>5. CASE CheckHorizon
  <2>1. UNCHANGED supervisorVars \/ Terminate(Deadline)
    BY <1>5, Zenon DEF CheckHorizon
  <2> QED
    BY <1>1, <2>1, SupervisorCalls, Zenon DEF supervisorVars
<1>6. CASE ScanLane
  <2>1. PICK l \in Lane : \/ UNCHANGED supervisorVars
                          \/ l \in Runtimes /\ MarkReady(l, rt[l].token, nowNs)
    BY <1>6, ScanCases, Zenon
  <2>2. l \in Runtimes => rt[l].token \in Token
    BY DEF LoopTypeOK, Runtimes, Runtime
  <2> QED
    BY <1>1, <2>1, <2>2, SupervisorCalls, Zenon DEF supervisorVars
<1>7. CASE CompleteLane
  <2>1. PICK l \in Lane : /\ rt[l].token \in Token
                          /\ \/ UNCHANGED supervisorVars
                             \/ RetireLane(l, rt[l].token, nowNs)
                             \/ FailLane(l, rt[l].token, nowNs)
    BY <1>7, CompleteCases, Zenon
  <2> QED
    BY <1>1, <2>1, SupervisorCalls, Zenon DEF supervisorVars
<1>8. CASE RequestRestarts
  <2>1. UNCHANGED supervisorVars \/ ClockOnly(nowNs)
    BY <1>8, Zenon DEF RequestRestarts
  <2> QED
    BY <1>1, <2>1, SupervisorCalls, Zenon DEF supervisorVars
<1>9. CASE RestartLane
  <2>1. PICK l \in Lane : \/ UNCHANGED supervisorVars
                          \/ launches < MaxLaunches /\ StartLane(l, launches + 1, nowNs)
    BY <1>9, RestartCases, Zenon DEF LaunchUnder
  <2> QED
    BY <1>1, <1>2, <2>1, SupervisorCalls, Zenon DEF supervisorVars
<1>10. CASE FinishIteration
  <2>1. UNCHANGED supervisorVars \/ AdvanceTime(nowNs)
    BY <1>10, Zenon DEF FinishIteration
  <2> QED
    BY <1>1, <2>1, SupervisorCalls, Zenon DEF supervisorVars
<1>11. CASE Commit
  <2>1. UNCHANGED supervisorVars \/ Terminate(clock)
    BY <1>11, Zenon DEF Commit
  <2> QED
    BY <1>1, <2>1, SupervisorCalls, Zenon DEF supervisorVars
<1>12. CASE Tick \/ (\E l \in Lane : ChildNames(l) \/ ChildStep(l)) \/ UNCHANGED captureVars
  BY <1>12, Zenon DEF Tick, ChildNames, ChildStep, captureVars, supervisorVars
<1>13. CASE IoFails
  BY <1>13, Zenon DEF IoFails, supervisorVars
<1> QED
  BY <1>3, <1>4, <1>5, <1>6, <1>7, <1>8, <1>9, <1>10, <1>11, <1>12, <1>13, Zenon
  DEF CaptureNext, LoopStep, Ended

(* The process of hot_redundant_capture.rs implements the supervisor of     *)
(* hot_redundancy.rs: it passes only admissible readings and tokens, and    *)
(* nothing else touches the supervisor or the ledger of outages.            *)
THEOREM CaptureImplementsSupervisor == CaptureSpec => Spec
<1>1. CaptureInit => Init
  BY DEF CaptureInit
<1> QED
  BY <1>1, InitLoopType, NextLoopType, CaptureStep, PTL DEF CaptureSpec, Spec

(* So a running capture reports every outage: a gap is open exactly while   *)
(* both of its lanes are dark.                                              *)
THEOREM CaptureGapsExplicit == CaptureSpec => []GapIffDark
  BY CaptureImplementsSupervisor, GapsExplicit, PTL

-----------------------------------------------------------------------------
(* What the supervisor's calls do to the lanes the call is not about, and   *)
(* to the lane it is about.                                                 *)
SameLane(m) ==
  /\ state'[m] = state[m] /\ runToken'[m] = runToken[m] /\ notBefore'[m] = notBefore[m]
  /\ circuit'[m] = circuit[m] /\ circuitOpenAt'[m] = circuitOpenAt[m]

LEMMA StartEffect ==
  ASSUME TypeOK, NEW l \in Lane, NEW t \in Token, NEW now, StartLane(l, t, now)
  PROVE  /\ terminal' = terminal /\ lastMono' = now /\ usedTokens' = usedTokens \union {t}
         /\ state'[l] = "STARTING" /\ runToken'[l] = t
         /\ \A m \in Lane \ {l} : SameLane(m)
  BY Zenon DEF TypeOK, StartLane, AdvanceClock, SameLane

LEMMA ReadyEffect ==
  ASSUME TypeOK, NEW l \in Lane, NEW t \in Token, NEW now, MarkReady(l, t, now)
  PROVE  /\ terminal' = terminal /\ lastMono' = now /\ usedTokens' = usedTokens
         /\ state'[l] = "READY" /\ runToken[l] = t /\ runToken'[l] = t
         /\ \A m \in Lane \ {l} : SameLane(m)
  BY DEF TypeOK, MarkReady, AdvanceClock, SameLane

LEMMA OutcomeEffect ==
  ASSUME TypeOK, NEW l \in Lane, NEW t \in Token, NEW now,
         RetireLane(l, t, now) \/ FailLane(l, t, now)
  PROVE  /\ terminal' = terminal /\ lastMono' = now /\ usedTokens' = usedTokens
         /\ \A m \in Lane \ {l} : SameLane(m)
<1>1. /\ terminal' = terminal /\ lastMono' = now /\ usedTokens' = usedTokens
  BY Zenon DEF RetireLane, FailLane, AdvanceClock
<1>2. CASE RetireLane(l, t, now)
  BY <1>1, <1>2, Zenon DEF TypeOK, RetireLane, SameLane
<1>3. CASE FailLane(l, t, now)
  <2>1. \E d : notBefore' = [notBefore EXCEPT ![l] = d]
    BY <1>3, Zenon DEF FailLane
  <2>2. \A m \in Lane \ {l} : notBefore'[m] = notBefore[m]
    BY <2>1 DEF TypeOK
  <2> QED
    BY <1>1, <1>3, <2>2 DEF TypeOK, FailLane, SameLane
<1> QED
  BY <1>2, <1>3, Zenon

LEMMA InitLoopInv == CaptureInit => LoopInv
<1> SUFFICES ASSUME CaptureInit PROVE LoopInv
  OBVIOUS
<1>1. Runtimes = {}
  BY Zenon DEF CaptureInit, Runtimes
<1>2. TimeInv
  BY CaptureFacts DEF CaptureInit, Init, TimeInv, Reading
<1>3. TokenInv /\ LaneInv /\ RestartInv /\ OnlyKnownErrors
  BY <1>1 DEF CaptureInit, Init, TokenInv, LaneInv, RestartInv, OnlyKnownErrors
<1> QED
  BY <1>2, <1>3 DEF LoopInv

(* A run that ends with a known error keeps the invariant: its runtimes are *)
(* gone, and the supervisor has not passed the deadline.                    *)
LEMMA DropInv ==
  ASSUME LoopDropped, pc' = "error", OnlyKnownErrors', horizonClosed' = horizonClosed,
         ~horizonClosed => ~terminal' /\ lastMono' <= Deadline
  PROVE  LoopInv'
<1>1. Runtimes' = {}
  BY Zenon DEF LoopDropped, Runtimes
<1>2. TimeInv' /\ TokenInv' /\ RestartInv'
  BY Zenon DEF TimeInv, TokenInv, RestartInv, Reading
<1> QED
  BY <1>1, <1>2, Zenon DEF LoopInv, LaneInv

LEMMA FailInv ==
  ASSUME LoopInv, pc # "committed", UNCHANGED supervisorVars, NEW why, Fail(why),
         why \in OutsideErrors \/ (why \in {"ready", "clock"} /\ horizonClosed)
  PROVE  LoopInv'
<1>1. lastMono' = lastMono /\ terminal' = terminal
  BY Zenon DEF supervisorVars, vars
<1>2. /\ pc' = "error" /\ cause' = why /\ LoopDropped /\ horizonClosed' = horizonClosed
  BY Zenon DEF Fail
<1>3. OnlyKnownErrors'
  BY <1>2, Zenon DEF OnlyKnownErrors
<1>4. ~horizonClosed => ~terminal' /\ lastMono' <= Deadline
  BY <1>1, Zenon DEF LoopInv, TimeInv
<1> QED
  BY <1>2, <1>3, <1>4, DropInv, Zenon

(* A launch under an unused token keeps the lanes and the tokens in step.   *)
LEMMA LaunchInv ==
  ASSUME LoopTypeOK, TypeOK, LaneInv, usedTokens \subseteq 1..launches, launches < MaxLaunches,
         NEW l \in Lane, NEW now, NEW e, LaunchUnder(l, now, e)
  PROVE  LaneInv' /\ usedTokens' \subseteq 1..launches'
<1> DEFINE t == launches + 1
<1>1. t \in Token /\ launches \in Nat
  BY CaptureFacts DEF LoopTypeOK
<1>2. StartLane(l, t, now) /\ launches' = t /\ rt' = [rt EXCEPT ![l] = Launched(t)]
  BY Zenon DEF LaunchUnder
<1>3. /\ terminal' = terminal /\ usedTokens' = usedTokens \union {t}
      /\ state'[l] = "STARTING" /\ runToken'[l] = t
      /\ \A m \in Lane \ {l} : SameLane(m)
  BY <1>1, <1>2, StartEffect
<1>4. usedTokens' \subseteq 1..launches'
  <2>1. launches' = launches + 1 /\ usedTokens' = usedTokens \union {launches + 1}
    BY <1>2, <1>3
  <2>2. ASSUME NEW u \in usedTokens' PROVE u \in 1..launches'
    BY <1>1, <2>1, <2>2
  <2> QED
    BY <2>2, Zenon
<1>5. rt'[l].token = t /\ rt'[l].ready = FALSE /\ \A m \in Lane \ {l} : rt'[m] = rt[m]
  BY <1>2, Zenon DEF LoopTypeOK, Launched
<1>6. LaneInv'
  <2> SUFFICES ASSUME ~terminal', NEW m \in Lane, m \in Runtimes'
               PROVE  /\ runToken'[m] = rt'[m].token
                      /\ state'[m] = IF rt'[m].ready THEN "READY" ELSE "STARTING"
    BY Zenon DEF LaneInv, Runtimes
  <2>1. CASE m = l
    BY <1>3, <1>5, <2>1, Zenon
  <2>2. CASE m # l
    BY <1>3, <1>5, <2>2, Zenon DEF LaneInv, SameLane, Runtimes
  <2> QED
    BY <2>1, <2>2, Zenon
<1> QED
  BY <1>4, <1>6, Zenon

LEMMA LaunchFirstInv ==
  ASSUME LoopTypeOK, TypeOK, LoopInv, LaunchFirst
  PROVE  LoopInv'
<1>1. /\ pc = "launch" /\ UNCHANGED <<clock, horizonClosed>>
      /\ \/ /\ pc' \in {"launch", "drain"} /\ nowNs' = nowNs
            /\ LaunchUnder(Ordered(work), clock, "LANE_LAUNCHED")
         \/ StartLane(Ordered(work), launches + 1, clock) /\ Fail("launch")
  BY Zenon DEF LaunchFirst, Fail
<1>2. Ordered(work) \in Lane /\ launches < MaxLaunches
  BY <1>1, OrderedIn, CaptureFacts DEF LoopTypeOK, Lane, Ordered
<1>3. usedTokens \subseteq 1..launches
  BY <1>1 DEF LoopInv, TokenInv
<1>4. terminal' = terminal /\ lastMono' = clock
  BY <1>1, Zenon DEF LaunchUnder, StartLane, AdvanceClock
<1>5. CASE /\ pc' \in {"launch", "drain"} /\ nowNs' = nowNs
           /\ LaunchUnder(Ordered(work), clock, "LANE_LAUNCHED")
  <2>1. LaneInv' /\ TokenInv'
    BY <1>2, <1>3, <1>5, LaunchInv DEF LoopInv, TokenInv
  <2>2. TimeInv'
    BY <1>1, <1>4, <1>5, CaptureFacts DEF LoopInv, TimeInv, Reading
  <2> QED
    BY <1>5, <2>1, <2>2 DEF LoopInv, RestartInv, OnlyKnownErrors
<1>6. CASE Fail("launch")
  <2>1. LoopDropped /\ pc' = "error" /\ cause' = "launch"
    BY <1>6, Zenon DEF Fail
  <2>2. OnlyKnownErrors'
    BY <2>1, Zenon DEF OnlyKnownErrors, OutsideErrors
  <2>3. ~horizonClosed => ~terminal'
    BY <1>1, <1>4, Zenon DEF LoopInv, TimeInv
  <2>4. lastMono' <= Deadline
    BY <1>1, <1>4, CaptureFacts DEF LoopInv, TimeInv
  <2> QED
    BY <1>1, <2>1, <2>2, <2>3, <2>4, DropInv, Zenon
<1> QED
  BY <1>1, <1>5, <1>6, Zenon

LEMMA DrainInv ==
  ASSUME LoopTypeOK, LoopInv, DrainOutput
  PROVE  LoopInv'
<1> DEFINE read == [l \in Lane |-> IF l \in Runtimes
                                   THEN [rt[l] EXCEPT !.lines = child[l].lines] ELSE rt[l]]
<1>1. /\ pc = "drain" /\ UNCHANGED <<supervisorVars, clock, horizonClosed, launches>>
      /\ \/ pc' = "horizon" /\ nowNs' = clock /\ rt' = read
         \/ Fail("output")
  BY Zenon DEF DrainOutput, OutputRefused, Fail
<1>2. CASE pc' = "horizon" /\ nowNs' = clock /\ rt' = read
  <2>1. UNCHANGED <<state, runToken, usedTokens, lastMono, terminal>>
    BY <1>1, Zenon DEF supervisorVars, vars, laneVars
  <2>2. TimeInv' /\ TokenInv'
    <3> HIDE DEF read
    <3> QED
      BY <1>1, <1>2, <2>1, CaptureFacts DEF LoopTypeOK, LoopInv, TimeInv, TokenInv, Reading
  <2>3. ASSUME NEW l \in Lane, l \in Runtimes'
        PROVE  l \in Runtimes /\ rt'[l].token = rt[l].token /\ rt'[l].ready = rt[l].ready
    <3>1. rt'[l] = IF l \in Runtimes THEN [rt[l] EXCEPT !.lines = child[l].lines] ELSE rt[l]
      BY <1>2
    <3>2. l \in Runtimes
      BY <2>3, <3>1 DEF Runtimes
    <3>3. rt[l] \in Runtime
      BY <3>2, Zenon DEF LoopTypeOK, Runtimes
    <3> QED
      BY <3>1, <3>2, <3>3 DEF Runtime
  <2>4. LaneInv'
    <3> HIDE DEF read
    <3> QED
      BY <2>1, <2>3 DEF LoopInv, LaneInv, Runtimes
  <2> QED
    BY <1>2, <2>2, <2>4, Zenon DEF LoopInv, RestartInv, OnlyKnownErrors
<1>3. CASE Fail("output")
  BY <1>1, <1>3, FailInv, Zenon DEF OutsideErrors
<1> QED
  BY <1>1, <1>2, <1>3, Zenon

LEMMA HorizonInv ==
  ASSUME LoopTypeOK, TypeOK, LoopInv, CheckHorizon
  PROVE  LoopInv'
<1>1. pc = "horizon" /\ UNCHANGED <<clock, launches>>
  BY Zenon DEF CheckHorizon, Fail
<1>2. CASE horizonClosed \/ clock < Deadline
  <2>1. pc' = "scan" /\ UNCHANGED <<supervisorVars, horizonClosed, nowNs, rt>>
    BY <1>2 DEF CheckHorizon
  <2>2. UNCHANGED <<state, runToken, usedTokens, lastMono, terminal>>
    BY <2>1, Zenon DEF supervisorVars, vars, laneVars
  <2>3. TimeInv'
    BY <1>1, <1>2, <2>1, <2>2, CaptureFacts DEF LoopTypeOK, LoopInv, TimeInv, Reading
  <2> QED
    BY <1>1, <2>1, <2>2, <2>3, Zenon DEF LoopInv, TokenInv, LaneInv, RestartInv, OnlyKnownErrors, Runtimes
<1>3. CASE ~(horizonClosed \/ clock < Deadline)
  <2>1. ~(Deadline < lastMono)
    <3>1. lastMono <= Deadline
      BY <1>1, <1>3, Zenon DEF LoopInv, TimeInv
    <3> QED
      BY <3>1, CaptureFacts DEF TypeOK
  <2>2. Terminate(Deadline) /\ horizonClosed' /\ pc' = "scan" /\ UNCHANGED <<nowNs, rt>>
    BY <1>3, <2>1 DEF CheckHorizon
  <2>3. terminal' /\ usedTokens' = usedTokens
    BY <2>2, Zenon DEF Terminate
  <2> QED
    BY <1>1, <2>2, <2>3, Zenon DEF LoopInv, TimeInv, TokenInv, LaneInv, RestartInv, OnlyKnownErrors
<1> QED
  BY <1>2, <1>3, Zenon

LEMMA ScanInv ==
  ASSUME LoopTypeOK, TypeOK, LoopInv, ScanLane
  PROVE  LoopInv'
<1>1. pc = "scan"
  BY DEF ScanLane
<1>2. PICK l \in Lane :
        /\ l \in work
        /\ UNCHANGED <<clock, horizonClosed, launches>>
        /\ \/ /\ UNCHANGED <<child, nowNs>> /\ NextScan(l)
              /\ rt' \in [Lane -> Runtime \union {Absent}]
              /\ \A m \in Lane : /\ (rt'[m] # Absent) <=> (rt[m] # Absent)
                                 /\ rt'[m].token = rt[m].token
                                 /\ m # l => rt'[m] = rt[m]
              /\ \/ UNCHANGED supervisorVars /\ rt'[l].ready = rt[l].ready
                 \/ l \in Runtimes /\ MarkReady(l, rt[l].token, nowNs) /\ rt'[l].ready
           \/ /\ l \in Runtimes /\ UNCHANGED supervisorVars /\ BecomesReady(l)
              /\ nowNs < lastMono \/ runToken[l] # rt[l].token \/ state[l] # "STARTING"
              /\ Fail(IF nowNs < lastMono THEN "clock" ELSE "ready")
           \/ Fail("journal") /\ UNCHANGED supervisorVars
  BY ScanCases, Zenon
<1> DEFINE Kept == /\ UNCHANGED nowNs /\ NextScan(l)
                   /\ \A m \in Lane : /\ (rt'[m] # Absent) <=> (rt[m] # Absent)
                                      /\ rt'[m].token = rt[m].token
                                      /\ m # l => rt'[m] = rt[m]
<1>3. CASE Kept /\ UNCHANGED supervisorVars /\ rt'[l].ready = rt[l].ready
  <2>1. pc' \in {"complete", "scan"}
    BY <1>3, Zenon DEF NextScan
  <2>2. UNCHANGED <<state, runToken, usedTokens, lastMono, terminal>>
    BY <1>3, Zenon DEF supervisorVars, vars, laneVars
  <2>3. \A m \in Lane : rt'[m].ready = rt[m].ready
    BY <1>3, Zenon
  <2>4. LaneInv'
    BY <1>3, <2>2, <2>3, Zenon DEF LoopInv, LaneInv, Runtimes
  <2> QED
    BY <1>1, <1>2, <1>3, <2>1, <2>2, <2>4, Zenon DEF LoopInv, TimeInv, TokenInv, RestartInv, OnlyKnownErrors, Reading
<1>4. CASE Kept /\ l \in Runtimes /\ MarkReady(l, rt[l].token, nowNs) /\ rt'[l].ready
  <2>1. pc' \in {"complete", "scan"}
    BY <1>4, Zenon DEF NextScan
  <2>2. rt[l].token \in Token
    BY <1>4, Zenon DEF LoopTypeOK, Runtimes, Runtime
  <2>3. /\ terminal' = terminal /\ lastMono' = nowNs /\ usedTokens' = usedTokens
        /\ state'[l] = "READY" /\ runToken'[l] = rt[l].token
        /\ \A m \in Lane \ {l} : SameLane(m)
    BY <1>4, <2>2, ReadyEffect, Zenon
  <2>4. LaneInv'
    <3> SUFFICES ASSUME ~terminal', NEW m \in Lane, m \in Runtimes'
                 PROVE  /\ runToken'[m] = rt'[m].token
                        /\ state'[m] = IF rt'[m].ready THEN "READY" ELSE "STARTING"
      BY Zenon DEF LaneInv, Runtimes
    <3>1. CASE m = l
      BY <1>4, <2>3, <3>1, Zenon
    <3>2. CASE m # l
      <4>1. rt'[m] = rt[m] /\ m \in Runtimes
        BY <1>4, <3>2, Zenon DEF Runtimes
      <4>2. state'[m] = state[m] /\ runToken'[m] = runToken[m] /\ ~terminal
        BY <2>3, <3>2, Zenon DEF SameLane
      <4> QED
        BY <4>1, <4>2, Zenon DEF LoopInv, LaneInv
    <3> QED
      BY <3>1, <3>2, Zenon
  <2>5. TimeInv'
    <3>1. UNCHANGED <<terminal, clock, nowNs, horizonClosed>> /\ lastMono' = nowNs
      BY <1>2, <1>4, <2>3, Zenon
    <3> QED
      BY <1>1, <2>1, <3>1, CaptureFacts DEF LoopTypeOK, LoopInv, TimeInv, Reading
  <2>6. TokenInv'
    BY <1>1, <1>2, <2>3, Zenon DEF LoopInv, TokenInv
  <2> QED
    BY <1>1, <2>1, <2>4, <2>5, <2>6, Zenon DEF LoopInv, RestartInv, OnlyKnownErrors
<1>5. CASE /\ l \in Runtimes /\ UNCHANGED supervisorVars /\ BecomesReady(l)
           /\ nowNs < lastMono \/ runToken[l] # rt[l].token \/ state[l] # "STARTING"
           /\ Fail(IF nowNs < lastMono THEN "clock" ELSE "ready")
  <2>1. horizonClosed
    <3>1. CASE nowNs < lastMono
      <4>1. ~(lastMono <= nowNs)
        BY <3>1, CaptureFacts DEF LoopTypeOK, TypeOK
      <4>2. pc \in Reading
        BY <1>1, Zenon DEF Reading
      <4> QED
        BY <4>1, <4>2, Zenon DEF LoopInv, TimeInv
    <3>2. CASE runToken[l] # rt[l].token \/ state[l] # "STARTING"
      <4>1. rt[l].ready = FALSE
        BY <1>5, Zenon DEF BecomesReady, LoopTypeOK, Runtimes, Runtime
      <4> QED
        BY <1>1, <1>5, <3>2, <4>1, Zenon DEF LoopInv, LaneInv, TimeInv
    <3> QED
      BY <1>5, <3>1, <3>2
  <2>2. (IF nowNs < lastMono THEN "clock" ELSE "ready") \in {"ready", "clock"}
    OBVIOUS
  <2> QED
    BY <1>1, <1>5, <2>1, <2>2, FailInv, Zenon
<1>6. CASE Fail("journal") /\ UNCHANGED supervisorVars
  BY <1>1, <1>6, FailInv, Zenon DEF OutsideErrors
<1> QED
  BY <1>2, <1>3, <1>4, <1>5, <1>6, Zenon

LEMMA CompleteInv ==
  ASSUME LoopTypeOK, TypeOK, LoopInv, CompleteLane
  PROVE  LoopInv'
<1>1. pc = "complete"
  BY DEF CompleteLane
<1>2. PICK l \in Lane, n \in 0..2 :
        /\ l \in work /\ l \in Runtimes /\ rt[l].token \in Token /\ rt[l].ready \in BOOLEAN
        /\ UNCHANGED <<clock, horizonClosed, launches>>
        /\ \/ ~horizonClosed /\ OutcomeIllegal(l, n) /\ Fail("outcome") /\ UNCHANGED supervisorVars
           \/ (Fail("output") \/ Fail("journal")) /\ UNCHANGED supervisorVars
           \/ /\ rt' = [rt EXCEPT ![l] = Absent] /\ child' = [child EXCEPT ![l] = NoChild]
              /\ work' = work \ {l} /\ UNCHANGED <<nowNs, pc, cause>>
              /\ \/ UNCHANGED supervisorVars
                 \/ Clean(l, n) /\ RetireLane(l, rt[l].token, nowNs)
                 \/ FailLane(l, rt[l].token, nowNs)
  BY CompleteCases, Zenon
<1>3. ~(~horizonClosed /\ OutcomeIllegal(l, n))
  <2> SUFFICES ASSUME ~horizonClosed PROVE ~OutcomeIllegal(l, n)
    OBVIOUS
  <2>1. lastMono <= nowNs /\ ~terminal
    BY <1>1, Zenon DEF LoopInv, TimeInv, Reading
  <2>2. ~(nowNs < lastMono)
    BY <2>1, CaptureFacts DEF LoopTypeOK, TypeOK
  <2>3. runToken[l] = rt[l].token /\ state[l] = IF rt[l].ready THEN "READY" ELSE "STARTING"
    BY <1>2, <2>1, Zenon DEF LoopInv, LaneInv
  <2>4. state[l] \in {"STARTING", "READY"} /\ (Clean(l, n) => state[l] = "READY")
    BY <1>2, <2>3, Zenon DEF Clean
  <2> QED
    BY <2>2, <2>3, <2>4, Zenon DEF OutcomeIllegal
<1>4. CASE (Fail("output") \/ Fail("journal")) /\ UNCHANGED supervisorVars
  BY <1>1, <1>4, FailInv, Zenon DEF OutsideErrors
<1>5. CASE /\ rt' = [rt EXCEPT ![l] = Absent] /\ UNCHANGED <<pc, nowNs>>
           /\ \/ UNCHANGED supervisorVars
              \/ RetireLane(l, rt[l].token, nowNs) \/ FailLane(l, rt[l].token, nowNs)
  <2>1. /\ terminal' = terminal /\ usedTokens' = usedTokens /\ lastMono' \in {lastMono, nowNs}
        /\ \A m \in Lane \ {l} : SameLane(m)
    <3>1. CASE UNCHANGED supervisorVars
      BY <3>1, Zenon DEF supervisorVars, vars, laneVars, SameLane
    <3>2. CASE RetireLane(l, rt[l].token, nowNs) \/ FailLane(l, rt[l].token, nowNs)
      BY <1>2, <3>2, OutcomeEffect, Zenon
    <3> QED
      BY <1>5, <3>1, <3>2, Zenon
  <2>2. LaneInv'
    <3>1. rt'[l] = Absent /\ \A m \in Lane \ {l} : rt'[m] = rt[m]
      BY <1>5, Zenon DEF LoopTypeOK
    <3> QED
      BY <2>1, <3>1, Zenon DEF LoopInv, LaneInv, SameLane, Runtimes
  <2>3. TimeInv'
    <3>1. /\ UNCHANGED <<terminal, clock, nowNs, horizonClosed, pc>> /\ lastMono' \in {lastMono, nowNs}
      BY <1>2, <1>5, <2>1, Zenon
    <3> QED
      BY <1>1, <3>1, CaptureFacts DEF LoopTypeOK, TypeOK, LoopInv, TimeInv, Reading
  <2>4. TokenInv'
    BY <1>2, <1>5, <2>1 DEF LoopInv, TokenInv
  <2> QED
    BY <1>1, <1>5, <2>2, <2>3, <2>4, Zenon DEF LoopInv, RestartInv, OnlyKnownErrors
<1> QED
  BY <1>2, <1>3, <1>4, <1>5, Zenon

LEMMA RequestInv ==
  ASSUME LoopTypeOK, TypeOK, LoopInv, RequestRestarts
  PROVE  LoopInv'
<1>1. pc = "complete" /\ UNCHANGED <<clock, horizonClosed, launches>>
  BY Zenon DEF RequestRestarts, Fail
<1>2. CASE clock >= Deadline
  <2>1. pc' = "advance" /\ UNCHANGED <<supervisorVars, nowNs, rt>>
    BY <1>2 DEF RequestRestarts
  <2>2. UNCHANGED <<state, runToken, usedTokens, lastMono, terminal>>
    BY <2>1, Zenon DEF supervisorVars, vars, laneVars
  <2> QED
    BY <1>1, <2>1, <2>2,
    Zenon DEF LoopInv, TimeInv, TokenInv, LaneInv, RestartInv, OnlyKnownErrors, Reading, Runtimes
<1>3. CASE ~(clock >= Deadline) /\ nowNs < lastMono
  <2>1. Fail("clock") /\ UNCHANGED supervisorVars
    BY <1>3, Zenon DEF RequestRestarts
  <2>2. horizonClosed
    <3>1. ~(lastMono <= nowNs) /\ pc \in Reading
      BY <1>1, <1>3, CaptureFacts DEF LoopTypeOK, TypeOK, Reading
    <3> QED
      BY <3>1, Zenon DEF LoopInv, TimeInv
  <2> QED
    BY <1>1, <2>1, <2>2, FailInv, Zenon
<1>4. CASE ~(clock >= Deadline) /\ ~(nowNs < lastMono)
  <2>1. /\ ClockOnly(nowNs) /\ work' = RestartRequests(nowNs)
        /\ pc' = IF work' = {} THEN "advance" ELSE "restart"
        /\ UNCHANGED <<nowNs, rt>>
    BY <1>4, Zenon DEF RequestRestarts
  <2>2. /\ UNCHANGED <<state, runToken, usedTokens, terminal, notBefore, circuit, circuitOpenAt>>
        /\ lastMono' = nowNs
    BY <2>1, Zenon DEF ClockOnly, AdvanceClock, laneVars
  <2>3. TimeInv'
    BY <1>1, <2>1, <2>2, CaptureFacts DEF LoopTypeOK, TypeOK, LoopInv, TimeInv, Reading
  <2>4. RestartInv'
    <3> SUFFICES ASSUME pc' = "restart"
                 PROVE  (~terminal /\ lastMono = nowNs /\ \A l \in work : MayRestart(l))'
      BY Zenon DEF RestartInv
    <3>1. ~terminal /\ work' # {}
      <4>1. work' # {} /\ work' = RestartRequests(nowNs)
        BY <2>1, Zenon
      <4> QED
        BY <4>1, Zenon DEF RestartRequests
    <3>2. ASSUME NEW l \in work' PROVE MayRestart(l)'
      <4>1. state[l] = "BACKOFF" /\ nowNs >= notBefore[l] /\ ~CircuitBlocked(l, nowNs)
        BY <2>1, <3>1, Zenon DEF RestartRequests
      <4> QED
        BY <2>1, <2>2, <4>1, Zenon DEF MayRestart, BackoffElapsed, CircuitBlocked
    <3> QED
      BY <2>1, <2>2, <3>1, <3>2
  <2>5. TokenInv' /\ LaneInv' /\ OnlyKnownErrors'
    BY <1>1, <2>1, <2>2, Zenon DEF LoopInv, TokenInv, LaneInv, OnlyKnownErrors, Runtimes
  <2> QED
    BY <2>3, <2>4, <2>5, Zenon DEF LoopInv
<1> QED
  BY <1>2, <1>3, <1>4, Zenon

(* No restart request is refused: the lane it names has no runtime, its     *)
(* backoff has elapsed and the token is new.                                *)
LEMMA RestartLaneInv ==
  ASSUME LoopTypeOK, TypeOK, LoopInv, RestartLane
  PROVE  LoopInv'
<1>1. pc = "restart"
  BY DEF RestartLane
<1>2. /\ ~terminal /\ lastMono = nowNs /\ usedTokens \subseteq 1..launches
      /\ \A l \in work : MayRestart(l)
  BY <1>1 DEF LoopInv, RestartInv, TokenInv
<1>3. PICK l \in Lane :
        /\ l \in work
        /\ UNCHANGED <<clock, horizonClosed>>
        /\ \/ rt[l] # Absent /\ Fail("restart_over_runtime") /\ UNCHANGED supervisorVars
           \/ /\ rt[l] = Absent /\ (nowNs < lastMono \/ ~CanStart(l, launches + 1, nowNs))
              /\ Fail("start") /\ UNCHANGED supervisorVars
           \/ /\ launches < MaxLaunches /\ StartLane(l, launches + 1, nowNs)
              /\ Fail("launch")
           \/ /\ work' = work \ {l} /\ UNCHANGED <<nowNs, cause>>
              /\ pc' = IF work = {l} THEN "advance" ELSE "restart"
              /\ \/ UNCHANGED <<supervisorVars, child, rt, launches>>
                 \/ /\ launches < MaxLaunches /\ rt[l] = Absent
                    /\ LaunchUnder(l, nowNs, "LANE_RESTARTED")
  BY RestartCases, Zenon
<1>4. rt[l] = Absent
  <2> SUFFICES ASSUME rt[l] # Absent PROVE FALSE
    OBVIOUS
  <2>1. l \in Runtimes
    BY Zenon DEF Runtimes
  <2>2. rt[l] \in Runtime
    BY Zenon DEF LoopTypeOK
  <2>3. state[l] \in {"READY", "STARTING"}
    BY <1>2, <2>1, Zenon DEF LoopInv, LaneInv
  <2> QED
    BY <1>2, <1>3, <2>3, Zenon DEF MayRestart
<1>5. ~(nowNs < lastMono) /\ CanStart(l, launches + 1, nowNs)
  <2>1. ~(nowNs < lastMono)
    BY <1>2, CaptureFacts DEF LoopTypeOK, TypeOK
  <2>2. launches + 1 \notin usedTokens
    BY <1>2 DEF LoopTypeOK
  <2> QED
    BY <1>2, <1>3, <2>1, <2>2, Zenon DEF MayRestart, CanStart
<1>6. CASE /\ launches < MaxLaunches /\ StartLane(l, launches + 1, nowNs)
           /\ Fail("launch")
  <2>1. terminal' = terminal /\ lastMono' = nowNs
    BY <1>6, Zenon DEF StartLane, AdvanceClock
  <2>2. LoopDropped /\ pc' = "error" /\ cause' = "launch"
    BY <1>6, Zenon DEF Fail
  <2>3. OnlyKnownErrors'
    BY <2>2, Zenon DEF OnlyKnownErrors, OutsideErrors
  <2>4. ~horizonClosed => ~terminal' /\ lastMono' <= Deadline
    BY <1>1, <1>2, <2>1, Zenon DEF LoopInv, TimeInv
  <2> QED
    BY <1>3, <2>2, <2>3, <2>4, DropInv, Zenon
<1>7. CASE /\ work' = work \ {l} /\ UNCHANGED <<nowNs, cause>>
           /\ pc' = IF work = {l} THEN "advance" ELSE "restart"
           /\ UNCHANGED <<supervisorVars, child, rt, launches>>
  <2>1. UNCHANGED <<state, runToken, usedTokens, lastMono, terminal, notBefore, circuit, circuitOpenAt>>
    BY <1>7, Zenon DEF supervisorVars, vars, laneVars
  <2>2. RestartInv'
    BY <1>2, <1>3, <1>7, <2>1, Zenon DEF RestartInv, MayRestart, BackoffElapsed, CircuitBlocked
  <2> QED
    BY <1>1, <1>3, <1>7, <2>1, <2>2,
    Zenon DEF LoopInv, TimeInv, TokenInv, LaneInv, OnlyKnownErrors, Reading, Runtimes
<1>8. CASE /\ work' = work \ {l} /\ UNCHANGED <<nowNs, cause>>
           /\ pc' = IF work = {l} THEN "advance" ELSE "restart"
           /\ launches < MaxLaunches /\ LaunchUnder(l, nowNs, "LANE_RESTARTED")
  <2>1. launches + 1 \in Token /\ StartLane(l, launches + 1, nowNs)
    BY <1>8, CaptureFacts DEF LoopTypeOK, LaunchUnder
  <2>2. terminal' = terminal /\ lastMono' = nowNs /\ \A m \in Lane \ {l} : SameLane(m)
    BY <2>1, StartEffect, Zenon
  <2>3. LaneInv' /\ TokenInv'
    BY <1>2, <1>8, LaunchInv, Zenon DEF LoopInv, TokenInv
  <2>4. TimeInv'
    BY <1>1, <1>2, <1>3, <1>8, <2>2, Zenon DEF LoopInv, TimeInv, Reading
  <2>5. RestartInv'
    <3>1. work' \subseteq Lane \ {l}
      BY <1>8, Zenon DEF LoopTypeOK
    <3>2. ASSUME NEW m \in work' PROVE MayRestart(m)'
      <4>1. MayRestart(m) /\ SameLane(m) /\ nowNs' = nowNs
        BY <1>2, <1>3, <1>8, <2>2, <3>1
      <4> QED
        BY <4>1, Zenon DEF MayRestart, SameLane, BackoffElapsed, CircuitBlocked
    <3> QED
      BY <1>2, <1>8, <2>2, <3>2, Zenon DEF RestartInv
  <2> QED
    BY <1>8, <2>3, <2>4, <2>5, Zenon DEF LoopInv, OnlyKnownErrors
<1> QED
  BY <1>3, <1>4, <1>5, <1>6, <1>7, <1>8, Zenon

LEMMA FinishInv ==
  ASSUME LoopTypeOK, TypeOK, LoopInv, FinishIteration
  PROVE  LoopInv'
<1>1. pc = "advance" /\ UNCHANGED <<clock, horizonClosed, launches>>
  BY Zenon DEF FinishIteration, Fail
<1>2. CASE nowNs < lastMono
  <2>1. Fail("clock") /\ UNCHANGED supervisorVars
    BY <1>2, Zenon DEF FinishIteration
  <2>2. horizonClosed
    <3>1. ~(lastMono <= nowNs) /\ pc \in Reading
      BY <1>1, <1>2, CaptureFacts DEF LoopTypeOK, TypeOK, Reading
    <3> QED
      BY <3>1, Zenon DEF LoopInv, TimeInv
  <2> QED
    BY <1>1, <2>1, <2>2, FailInv, Zenon
<1>3. CASE ~(nowNs < lastMono)
  <2>1. AdvanceTime(nowNs)
    BY <1>3, Zenon DEF FinishIteration
  <2>2. \/ pc' \in {"finish", "drain"} /\ rt' = rt
        \/ pc' = "error" /\ cause' = "grace" /\ LoopDropped
    BY <1>3, Zenon DEF FinishIteration
  <2>3. UNCHANGED <<state, runToken, usedTokens, terminal>> /\ lastMono' = nowNs
    BY <2>1, Zenon DEF AdvanceTime, AdvanceClock
  <2>4. CASE pc' \in {"finish", "drain"} /\ rt' = rt
    <3>1. TimeInv'
      BY <1>1, <2>3, <2>4, CaptureFacts DEF LoopTypeOK, LoopInv, TimeInv, Reading
    <3> QED
      BY <1>1, <2>3, <2>4, <3>1, Zenon DEF LoopInv, TokenInv, LaneInv, RestartInv, OnlyKnownErrors, Runtimes
  <2>5. CASE pc' = "error" /\ cause' = "grace" /\ LoopDropped
    <3>1. OnlyKnownErrors'
      BY <2>5, Zenon DEF OnlyKnownErrors, OutsideErrors
    <3>2. ~horizonClosed => ~terminal'
      BY <1>1, <2>3, Zenon DEF LoopInv, TimeInv
    <3>3. ~horizonClosed => lastMono' <= Deadline
      BY <1>1, <2>3, CaptureFacts DEF LoopTypeOK, LoopInv, TimeInv, Reading
    <3> QED
      BY <1>1, <2>5, <3>1, <3>2, <3>3, DropInv, Zenon
  <2> QED
    BY <2>2, <2>4, <2>5, Zenon
<1> QED
  BY <1>2, <1>3, Zenon

LEMMA CommitInv ==
  ASSUME LoopInv, Commit
  PROVE  LoopInv'
<1>1. /\ pc = "finish" /\ pc' = "committed" /\ UNCHANGED <<rt, horizonClosed, launches>>
      /\ UNCHANGED supervisorVars \/ Terminate(clock)
  BY Zenon DEF Commit
<1>2. usedTokens' = usedTokens /\ (terminal' \/ UNCHANGED <<state, runToken, terminal>>)
  BY <1>1, Zenon DEF supervisorVars, vars, laneVars, Terminate
<1> QED
  BY <1>1, <1>2,
  Zenon DEF LoopInv, TimeInv, TokenInv, LaneInv, RestartInv, OnlyKnownErrors, Runtimes, Reading

LEMMA WorldInv ==
  ASSUME LoopTypeOK, TypeOK, LoopInv, (Running /\ Tick) \/ \E l \in Lane : ChildNames(l) \/ ChildStep(l)
  PROVE  LoopInv'
<1>1. /\ UNCHANGED <<supervisorVars, loopVars>>
      /\ clock' \in {clock, clock + 1} /\ (pc = "launch" => clock' = clock)
  BY Zenon DEF Tick, ChildNames, ChildStep
<1>2. UNCHANGED <<state, runToken, usedTokens, lastMono, terminal, notBefore, circuit, circuitOpenAt,
                  pc, nowNs, work, rt, horizonClosed, launches, cause>>
  BY <1>1 DEF supervisorVars, vars, laneVars, loopVars
<1>3. TimeInv'
  <2>1. (lastMono <= clock => lastMono' <= clock') /\ (nowNs <= clock => nowNs' <= clock')
    BY <1>1, <1>2, CaptureFacts DEF LoopTypeOK, TypeOK
  <2> QED
    BY <1>1, <1>2, <2>1, Zenon DEF LoopInv, TimeInv
<1> QED
  BY <1>2, <1>3,
  Zenon DEF LoopInv, TokenInv, LaneInv, RestartInv, MayRestart, BackoffElapsed, CircuitBlocked,
      OnlyKnownErrors, Runtimes

(* Every step of the capture keeps the loop and the supervisor in step.     *)
LEMMA NextLoopInv ==
  ASSUME LoopTypeOK, TypeOK, LoopInv, [CaptureNext]_captureVars
  PROVE  LoopInv'
<1>1. CASE UNCHANGED captureVars
  <2>1. UNCHANGED <<state, runToken, usedTokens, lastMono, terminal, notBefore, circuit, circuitOpenAt,
                    pc, clock, nowNs, work, rt, horizonClosed, launches, cause>>
    BY <1>1, Zenon DEF captureVars, vars, laneVars, loopVars
  <2> QED
    BY <2>1,
    Zenon DEF LoopInv, TimeInv, TokenInv, LaneInv, RestartInv, MayRestart, BackoffElapsed, CircuitBlocked,
        OnlyKnownErrors, Runtimes
<1>2. CASE LoopStep
  BY <1>2, LaunchFirstInv, DrainInv, HorizonInv, ScanInv, CompleteInv, RequestInv, RestartLaneInv,
     FinishInv, CommitInv, Zenon DEF LoopStep
<1>3. CASE (Running /\ Tick) \/ \E l \in Lane : ChildNames(l) \/ ChildStep(l)
  BY <1>3, WorldInv
<1>4. CASE IoFails
  BY <1>4, FailInv, Zenon DEF IoFails, OutsideErrors
<1> QED
  BY <1>1, <1>2, <1>3, <1>4, Zenon DEF CaptureNext, Ended

(* The loop and the supervisor it drives stay in step, whatever the         *)
(* children do between the reads of an iteration.                           *)
THEOREM CaptureInvariance == CaptureSpec => [](LoopTypeOK /\ LoopInv)
<1>1. CaptureSpec => []TypeOK
  <2>1. Inv => TypeOK
    BY DEF Inv
  <2> QED
    BY <2>1, CaptureImplementsSupervisor, Invariance, PTL
<1> QED
  BY <1>1, InitLoopType, NextLoopType, InitLoopInv, NextLoopInv, PTL DEF CaptureSpec

(* No call hot_redundant_capture.rs makes of its supervisor is refused,     *)
(* except for readiness or a stale clock reading after the horizon closed:  *)
(* every other run that ends without a terminal artifact was ended from     *)
(* outside (a launch, a line or journal of a child, the grace, I/O).        *)
THEOREM CaptureErrorsKnown == CaptureSpec => []OnlyKnownErrors
<1>1. LoopInv => OnlyKnownErrors
  BY DEF LoopInv
<1> QED
  BY <1>1, CaptureInvariance, PTL
=============================================================================
