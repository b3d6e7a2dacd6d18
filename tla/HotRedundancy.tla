---------------------------- MODULE HotRedundancy ----------------------------
(***************************************************************************)
(* The availability supervisor of the two capture lanes                    *)
(* (rust/lob-replay/src/hot_redundancy.rs) together with the gap ledger    *)
(* its caller keeps from the returned CoverageTransitions                  *)
(* (record_transition, rust/lob-replay/src/bin/hot_redundant_capture.rs).  *)
(*                                                                         *)
(* Every operation takes the caller's monotonic time.  An operation that   *)
(* fails after advance_clock has already moved the clock, and a rejected   *)
(* start_lane has already consumed its run token: both are modelled.       *)
(*                                                                         *)
(* Bounds: Times, the monotonic readings callers may pass, and Token, the  *)
(* run tokens they may generate.  A lane status is kept as one function    *)
(* per field; started_mono_ns and last_failure_reason guard nothing and    *)
(* are left out.                                                           *)
(***************************************************************************)
EXTENDS Integers

CONSTANTS
  Times,              \* monotonic clock readings (nanoseconds in the code)
  Token,              \* run tokens
  NoToken,            \* run_token: None
  BackoffInitial, BackoffMax, JitterMax, BackoffResetAfter,
  CircuitThreshold,   \* circuit_failure_threshold; 0 disables the breaker
  CircuitCooldown     \* circuit_reset_cooldown_ns

ASSUME TimesAssumption == Times \subseteq Nat
ASSUME TokenAssumption == NoToken \notin Token

(* HotRedundancyConfig::validate *)
Validate ==
  /\ BackoffInitial \in Nat \ {0}
  /\ BackoffMax \in Nat \ {0}
  /\ BackoffResetAfter \in Nat \ {0}
  /\ JitterMax \in Nat
  /\ BackoffInitial <= BackoffMax
  /\ JitterMax <= BackoffMax
  /\ CircuitThreshold \in Nat
  /\ CircuitCooldown \in Nat
  /\ CircuitThreshold > 0 => CircuitCooldown > 0
ASSUME ConfigAssumption == Validate

Lane == {"PRIMARY", "SHADOW"}
LaneState == {"ABSENT", "STARTING", "READY", "BACKOFF", "TERMINAL"}
CircuitState == {"CLOSED", "OPEN", "HALF_OPEN"}
CoverageState == {"STARTING", "REDUNDANT", "DEGRADED", "GAP", "TERMINAL"}
None == -1            \* Option::None of a time or of a gap identity

VARIABLES
  state, runToken, launchAttempt, failures, readyAt, notBefore,  \* LaneStatus
  circuit, circuitOpenAt,
  usedTokens, coverage, everReady, openGap, nextGapId, lastMono, terminal,
  gaps                \* the caller's ledger: gap id -> [opened, closed]

laneVars == <<state, runToken, launchAttempt, failures, readyAt, notBefore,
              circuit, circuitOpenAt>>
vars == <<laneVars, usedTokens, coverage, everReady, openGap, nextGapId,
          lastMono, terminal, gaps>>

-----------------------------------------------------------------------------
Init ==
  /\ state = [l \in Lane |-> "ABSENT"]
  /\ runToken = [l \in Lane |-> NoToken]
  /\ launchAttempt = [l \in Lane |-> 0]
  /\ failures = [l \in Lane |-> 0]
  /\ readyAt = [l \in Lane |-> None]
  /\ notBefore = [l \in Lane |-> None]
  /\ circuit = [l \in Lane |-> "CLOSED"]
  /\ circuitOpenAt = [l \in Lane |-> None]
  /\ usedTokens = {}
  /\ coverage = "STARTING"
  /\ everReady = FALSE
  /\ openGap = None
  /\ nextGapId = 0
  /\ lastMono \in Times
  /\ terminal = FALSE
  /\ gaps = [g \in {} |-> [opened |-> None, closed |-> None]]

AdvanceClock(now) ==
  /\ now >= lastMono
  /\ lastMono' = now

ReadyLanes(st) == {l \in Lane : st[l] = "READY"}

CoverageOf(st, ever) ==
  CASE ReadyLanes(st) = Lane -> "REDUNDANT"
    [] ReadyLanes(st) # Lane /\ ReadyLanes(st) # {} -> "DEGRADED"
    [] ReadyLanes(st) = {} /\ ever -> "GAP"
    [] OTHER -> "STARTING"

(* A gap opens: the supervisor consumes a gap identity and the caller's     *)
(* record_transition appends the outage.                                    *)
OpenGap(now) ==
  /\ openGap' = nextGapId
  /\ nextGapId' = nextGapId + 1
  /\ gaps' = [g \in 0..nextGapId |->
                IF g = nextGapId THEN [opened |-> now, closed |-> None] ELSE gaps[g]]

(* The open gap closes, in the supervisor and in the ledger.                *)
\* Mutant: the open identity is not taken.
CloseGapKeptOpen(now) ==
  /\ gaps' = [gaps EXCEPT ![openGap].closed = now]
  /\ UNCHANGED <<openGap, nextGapId>>
CloseGap(now) ==
  /\ openGap' = None
  /\ gaps' = [gaps EXCEPT ![openGap].closed = now]
  /\ UNCHANGED nextGapId

CurrentCoverage == IF terminal THEN "TERMINAL" ELSE CoverageOf(state', everReady')

(* recompute_coverage on the lane states and everReady of the next state,   *)
(* followed by the caller's record_transition.                              *)
RecomputeCoverage(now) ==
  LET opens == CurrentCoverage = "GAP" /\ openGap = None
      closes == ~opens /\ ReadyLanes(state') # {} /\ openGap # None
  IN  /\ coverage' = CurrentCoverage
      /\ \/ opens /\ OpenGap(now)
         \/ closes /\ CloseGap(now)
         \/ ~opens /\ ~closes /\ UNCHANGED <<openGap, nextGapId, gaps>>

(* The breaker denies attempts while it is OPEN within its cooldown.        *)
CircuitBlocked(l, now) ==
  /\ circuit[l] = "OPEN"
  /\ circuitOpenAt[l] # None
  /\ now - circuitOpenAt[l] < CircuitCooldown

BackoffElapsed(l, now) == notBefore[l] = None \/ now >= notBefore[l]

(* reconnect_delay_ns: the base doubles with every consecutive failure f    *)
(* until it saturates at BackoffMax; j is the hashed jitter.                *)
Least(a, b) == IF a <= b THEN a ELSE b
ReconnectDelay(f, j) ==
  LET doubled == BackoffInitial * 2^Least(f - 1, 63)
      base == IF doubled \in 0..BackoffMax THEN doubled ELSE BackoffMax
  IN  Least(base + j, BackoffMax)

-----------------------------------------------------------------------------

CanStart(l, t, now) ==
  /\ ~terminal
  /\ t \notin usedTokens
  /\ state[l] \in {"ABSENT", "BACKOFF"}
  /\ BackoffElapsed(l, now)
  /\ ~CircuitBlocked(l, now)

StartLane(l, t, now) ==
  /\ AdvanceClock(now)
  /\ CanStart(l, t, now)
  /\ usedTokens' = usedTokens \union {t}
  /\ circuit' = [circuit EXCEPT ![l] = IF @ = "OPEN" THEN "HALF_OPEN" ELSE @]
  /\ state' = [state EXCEPT ![l] = "STARTING"]
  /\ runToken' = [runToken EXCEPT ![l] = t]
  /\ launchAttempt' = [launchAttempt EXCEPT ![l] = @ + 1]
  /\ readyAt' = [readyAt EXCEPT ![l] = None]
  /\ notBefore' = [notBefore EXCEPT ![l] = None]
  /\ UNCHANGED <<failures, circuitOpenAt, everReady, terminal>>
  /\ RecomputeCoverage(now)

(* start_lane fails after advance_clock.  Unless the supervisor is terminal *)
(* or the token was seen before, the token is consumed all the same.        *)
StartRejected(l, t, now) ==
  /\ AdvanceClock(now)
  /\ ~CanStart(l, t, now)
  /\ usedTokens' = IF terminal THEN usedTokens ELSE usedTokens \union {t}
  /\ UNCHANGED <<laneVars, coverage, everReady, openGap, nextGapId, terminal, gaps>>

(* mark_ready of a STARTING lane under its current token.                   *)
MarkReady(l, t, now) ==
  /\ AdvanceClock(now)
  /\ runToken[l] = t
  /\ state[l] = "STARTING"
  /\ state' = [state EXCEPT ![l] = "READY"]
  /\ readyAt' = [readyAt EXCEPT ![l] = now]
  /\ circuit' = [circuit EXCEPT ![l] = "CLOSED"]
  /\ circuitOpenAt' = [circuitOpenAt EXCEPT ![l] = None]
  /\ everReady' = TRUE
  /\ UNCHANGED <<runToken, launchAttempt, failures, notBefore, usedTokens, terminal>>
  /\ RecomputeCoverage(now)

(* A repeated mark_ready of a READY lane only recomputes the coverage.      *)
MarkReadyAgain(l, t, now) ==
  /\ AdvanceClock(now)
  /\ runToken[l] = t
  /\ state[l] = "READY"
  /\ UNCHANGED <<laneVars, usedTokens, everReady, terminal>>
  /\ RecomputeCoverage(now)

(* Too many consecutive failures, or a failed half-open probe.              *)
Opens(l, f) ==
  /\ CircuitThreshold > 0
  /\ \/ circuit[l] = "HALF_OPEN"
     \/ circuit[l] = "CLOSED" /\ f >= CircuitThreshold

FailLane(l, t, now) ==
  /\ AdvanceClock(now)
  /\ runToken[l] = t
  /\ state[l] \in {"STARTING", "READY"}
  /\ LET f == failures[l] + 1 IN
       /\ failures' = [failures EXCEPT ![l] = f]
       /\ circuit' = [circuit EXCEPT ![l] = IF Opens(l, f) THEN "OPEN" ELSE @]
       /\ circuitOpenAt' = [circuitOpenAt EXCEPT ![l] = IF Opens(l, f) THEN now ELSE @]
       /\ \E j \in 0..JitterMax :
            notBefore' = [notBefore EXCEPT ![l] = now + ReconnectDelay(f, j)]
  /\ state' = [state EXCEPT ![l] = "BACKOFF"]
  /\ readyAt' = [readyAt EXCEPT ![l] = None]
  /\ UNCHANGED <<runToken, launchAttempt, usedTokens, everReady, terminal>>
  /\ RecomputeCoverage(now)

(* A clean end of a lane's window: restart at once, breaker reset.          *)
RetireLane(l, t, now) ==
  /\ AdvanceClock(now)
  /\ runToken[l] = t
  /\ state[l] = "READY"
  /\ state' = [state EXCEPT ![l] = "BACKOFF"]
  /\ readyAt' = [readyAt EXCEPT ![l] = None]
  /\ notBefore' = [notBefore EXCEPT ![l] = now]
  /\ failures' = [failures EXCEPT ![l] = 0]
  /\ circuit' = [circuit EXCEPT ![l] = "CLOSED"]
  /\ circuitOpenAt' = [circuitOpenAt EXCEPT ![l] = None]
  /\ UNCHANGED <<runToken, launchAttempt, usedTokens, everReady, terminal>>
  /\ RecomputeCoverage(now)

(* mark_ready, fail_lane or retire_lane with a stale token or from a state  *)
(* that does not allow it, and restart_requests: only the clock moves.      *)
ClockOnly(now) ==
  /\ AdvanceClock(now)
  /\ UNCHANGED <<laneVars, usedTokens, coverage, everReady, openGap, nextGapId,
                 terminal, gaps>>

(* restart_requests: the lanes whose backoff and breaker allow a restart.   *)
RestartRequests(now) ==
  IF terminal THEN {}
  ELSE {l \in Lane : /\ state[l] = "BACKOFF"
                     /\ notBefore[l] # None /\ now >= notBefore[l]
                     /\ ~CircuitBlocked(l, now)}

(* advance_time: a lane that stayed READY long enough forgets its failures. *)
AdvanceTime(now) ==
  /\ AdvanceClock(now)
  /\ failures' = [l \in Lane |->
       IF state[l] = "READY" /\ readyAt[l] # None /\ now - readyAt[l] >= BackoffResetAfter
       THEN 0 ELSE failures[l]]
  /\ UNCHANGED <<state, runToken, launchAttempt, readyAt, notBefore, circuit,
                 circuitOpenAt, usedTokens, everReady, terminal>>
  /\ RecomputeCoverage(now)

Terminate(now) ==
  /\ AdvanceClock(now)
  /\ terminal' = TRUE
  /\ state' = [l \in Lane |-> "TERMINAL"]
  /\ notBefore' = [l \in Lane |-> None]
  /\ coverage' = "TERMINAL"
  /\ UNCHANGED <<runToken, launchAttempt, failures, readyAt, circuit, circuitOpenAt,
                 usedTokens, everReady, openGap, nextGapId, gaps>>

Next ==
  \E now \in Times :
    \/ \E l \in Lane, t \in Token :
         \/ StartLane(l, t, now)
         \/ StartRejected(l, t, now)
         \/ MarkReady(l, t, now)
         \/ MarkReadyAgain(l, t, now)
         \/ FailLane(l, t, now)
         \/ RetireLane(l, t, now)
    \/ ClockOnly(now)
    \/ AdvanceTime(now)
    \/ Terminate(now)

Spec == Init /\ [][Next]_vars

-----------------------------------------------------------------------------
(* The fields of the supervisor and of the gap ledger keep their types.     *)
TypeOK ==
  /\ state \in [Lane -> LaneState]
  /\ runToken \in [Lane -> Token \union {NoToken}]
  /\ launchAttempt \in [Lane -> Nat]
  /\ failures \in [Lane -> Nat]
  /\ readyAt \in [Lane -> Nat \union {None}]
  /\ notBefore \in [Lane -> Nat \union {None}]
  /\ circuit \in [Lane -> CircuitState]
  /\ circuitOpenAt \in [Lane -> Nat \union {None}]
  /\ usedTokens \subseteq Token
  /\ coverage \in CoverageState
  /\ everReady \in BOOLEAN
  /\ openGap \in Nat \union {None}
  /\ nextGapId \in Nat
  /\ lastMono \in Nat
  /\ terminal \in BOOLEAN
  /\ gaps \in [0..(nextGapId - 1) -> [opened : Nat, closed : Nat \union {None}]]

(* Outages are explicit: until termination a gap is open exactly when a     *)
(* lane has once been ready and none is ready now, and the reported         *)
(* coverage agrees with the lanes.                                          *)
GapIffDark ==
  ~terminal =>
    /\ (openGap # None) <=> (everReady /\ ReadyLanes(state) = {})
    /\ coverage = CoverageOf(state, everReady)

(* The caller's ledger is a sequence of disjoint outages in order: at most  *)
(* the last one is open, it is the one the supervisor holds open, and each  *)
(* outage closes before the next one opens.                                 *)
GapsDisjoint ==
  /\ \A g \in 0..(nextGapId - 1) :
       /\ gaps[g].opened <= lastMono
       /\ (gaps[g].closed = None) <=> (g = openGap)
       /\ gaps[g].closed # None =>
            /\ gaps[g].opened <= gaps[g].closed
            /\ gaps[g].closed <= lastMono
            /\ g + 1 < nextGapId => gaps[g].closed <= gaps[g + 1].opened
  /\ openGap # None => openGap = nextGapId - 1

(* The breaker admits one probe: HALF_OPEN only while the probe it admitted *)
(* is starting, OPEN only while the lane waits, and never without the time  *)
(* it opened.                                                               *)
OneProbe ==
  \A l \in Lane :
    /\ circuit[l] = "HALF_OPEN" => state[l] \in {"STARTING", "TERMINAL"}
    /\ circuit[l] = "OPEN" => state[l] \in {"BACKOFF", "TERMINAL"}
    /\ circuit[l] # "CLOSED" => circuitOpenAt[l] # None /\ CircuitThreshold > 0

(* Two lane runs are never confused: the lanes never run under one token,   *)
(* and every run token was consumed.                                        *)
TokensDistinct ==
  /\ \A l \in Lane : runToken[l] # NoToken => runToken[l] \in usedTokens
  /\ \A l, m \in Lane : l # m /\ runToken[l] # NoToken => runToken[l] # runToken[m]

(* A waiting lane is never stranded: whatever mixture of failures, probes   *)
(* and retirements led to BACKOFF, restart_requests names the lane once the *)
(* largest backoff and the breaker's cooldown have passed.                  *)
BoundedWait ==
  \A l \in Lane :
    state[l] = "BACKOFF" => l \in RestartRequests(lastMono + BackoffMax + CircuitCooldown)

(* terminate is final: no late readiness, failure or tick revives a lane or *)
(* the coverage.                                                            *)
TerminalIsFinal ==
  terminal => coverage = "TERMINAL" /\ \A l \in Lane : state[l] = "TERMINAL"

(* The ledger of outages is append-only: no step forgets an outage, moves   *)
(* its start or rewrites one that is closed.                                *)
LedgerAppendOnly ==
  [][\A g \in 0..(nextGapId - 1) :
       /\ g < nextGapId'
       /\ gaps'[g].opened = gaps[g].opened
       /\ gaps[g].closed # None => gaps'[g].closed = gaps[g].closed]_vars
=============================================================================
