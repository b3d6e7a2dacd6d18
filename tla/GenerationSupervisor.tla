------------------------ MODULE GenerationSupervisor ------------------------
(***************************************************************************)
(* The lifecycle of the raw generations of one campaign:                   *)
(* RawGenerationSupervisor of rust/lob-replay/src/generation_supervisor.rs. *)
(*                                                                         *)
(* Every public call first runs advance_time, whose effects stay even when *)
(* the call then returns Err or declines: such a call is the AdvanceTime   *)
(* action.  A call whose clock reading is in the past changes nothing.     *)
(*                                                                         *)
(* An identity is its generation id and two epochs, tokens that may be     *)
(* shared between the identities a caller offers.  None stands for an      *)
(* absent Option.                                                          *)
(***************************************************************************)
EXTENDS Integers

CONSTANTS
  Identity,               \* identities a caller may offer
  Token,                  \* ids and epochs
  IdOf(_), DepthOf(_), TradeOf(_),
  SegmentInterval, PlannedRotationAge, ActiveMaxAge, CandidateTimeout,
  BackoffInitial, BackoffMax,
  AttemptMax,             \* u32::MAX, where retry_attempt saturates
  Times,                  \* clock readings considered
  None

(* RawSupervisorConfig::validate and GenerationIdentity::validate.          *)
ValidConfig ==
  /\ {SegmentInterval, PlannedRotationAge, ActiveMaxAge, CandidateTimeout,
      BackoffInitial, BackoffMax} \subseteq Nat \ {0}
  /\ PlannedRotationAge < ActiveMaxAge
  /\ BackoffInitial <= BackoffMax

ValidIdentity(i) ==
  /\ {IdOf(i), DepthOf(i), TradeOf(i)} \subseteq Token
  /\ IdOf(i) # DepthOf(i) /\ IdOf(i) # TradeOf(i) /\ DepthOf(i) # TradeOf(i)

EpochsOf(i) == {DepthOf(i), TradeOf(i)}              \* contains_epoch
TokensOf(i) == EpochsOf(i) \union {IdOf(i)}

Fact == {"DEPTH_CONNECTED", "TRADE_CONNECTED", "SNAPSHOT_PERSISTED", "DEPTH_DURABLE",
         "TRADE_DURABLE", "DEPTH_CONTINUITY_PROVEN", "TRADE_CONTINUITY_PROVEN"}

(* What CandidateReadiness::observe requires before it accepts a fact.      *)
Requires(f) ==
  CASE f = "SNAPSHOT_PERSISTED" -> {"DEPTH_CONNECTED"}
    [] f = "DEPTH_DURABLE" -> {"DEPTH_CONNECTED"}
    [] f = "TRADE_DURABLE" -> {"TRADE_CONNECTED"}
    [] f = "DEPTH_CONTINUITY_PROVEN" -> {"SNAPSHOT_PERSISTED", "DEPTH_DURABLE"}
    [] f = "TRADE_CONTINUITY_PROVEN" -> {"TRADE_DURABLE"}
    [] OTHER -> {}

Accepts(f, have) == Requires(f) \subseteq have

State == {"LIVE", "HANDOVER", "GAP", "RECOVERING"}
(* GenerationStatus: the role is the variable that holds it, and readiness  *)
(* the facts observed.                                                      *)
Generation == [id : Identity, opened : Times, facts : SUBSET Fact]

Reason == {"PLANNED_ROTATION", "SERVER_SHUTDOWN", "RETRY_AFTER_FAILURE", "RECOVERY_AFTER_GAP"}

ASSUME SupervisorAssumption ==
  /\ ValidConfig
  /\ \A i \in Identity : ValidIdentity(i)
  /\ AttemptMax \in Nat
  /\ Times \subseteq Nat
  /\ None \notin Generation /\ None \notin Nat /\ None \notin Reason

VARIABLES
  origin, lastMono, segment,
  active, candidate,      \* a GenerationStatus or None
  draining,               \* set of GenerationStatus
  used,                   \* used_tokens
  state, pending, notBefore, attempt, gapCount

life == <<active, candidate, state, pending, notBefore, attempt, gapCount>>
clocks == <<origin, lastMono, segment>>
vars == <<clocks, life, draining, used>>

Init ==
  \E i \in Identity, now \in Times :
    /\ origin = now /\ lastMono = now /\ segment = 0
    /\ active = [id |-> i, opened |-> now, facts |-> Fact] /\ candidate = None
    /\ draining = {}
    /\ used = TokensOf(i)
    /\ state = "LIVE"
    /\ pending = None /\ notBefore = None /\ attempt = 0 /\ gapCount = 0

-----------------------------------------------------------------------------
(* The private steps, as functions of the lifecycle part of the state.      *)
Current ==
  [active |-> active, candidate |-> candidate, state |-> state, pending |-> pending,
   notBefore |-> notBefore, attempt |-> attempt, gapCount |-> gapCount]

Least(a, b) == IF a <= b THEN a ELSE b

(* min(backoff_initial * 2^attempt, backoff_max), saturating.               *)
RetryDelay(n) ==
  LET doubled == BackoffInitial * 2^Least(n, 63)
  IN  IF doubled \in 0..BackoffMax THEN doubled ELSE BackoffMax

ScheduleRetry(s, now, reason) ==
  [s EXCEPT !.attempt = Least(s.attempt + 1, AttemptMax),
            !.pending = reason,
            !.notBefore = now + RetryDelay(s.attempt)]

EnterGap(s, now) ==
  [ScheduleRetry(s, now, "RECOVERY_AFTER_GAP")
     EXCEPT !.active = None, !.candidate = None, !.gapCount = s.gapCount + 1, !.state = "GAP"]

FailCandidate(s, now) ==
  [ScheduleRetry(s, now, "RETRY_AFTER_FAILURE")
     EXCEPT !.candidate = None, !.state = IF s.active # None THEN "LIVE" ELSE "GAP"]

(* The deadlines advance_time enforces, the active generation's first.      *)
\* Mutant: only the candidate's deadline is enforced while one exists.
AfterTimeCandidateFirst(now) ==
  IF candidate # None
  THEN IF now - candidate.opened >= CandidateTimeout THEN FailCandidate(Current, now)
                                                      ELSE Current
  ELSE IF active # None /\ now - active.opened >= ActiveMaxAge
  THEN EnterGap(Current, now) ELSE Current
AfterTime(now) ==
  IF active # None /\ now - active.opened >= ActiveMaxAge THEN EnterGap(Current, now)
  ELSE IF candidate # None /\ now - candidate.opened >= CandidateTimeout
  THEN FailCandidate(Current, now)
  ELSE Current

(* candidate_request: what advance_time reports as due.                     *)
RequestIn(s, now) ==
  IF s.candidate # None \/ (s.notBefore # None /\ now < s.notBefore) THEN None
  ELSE IF s.active = None THEN "RECOVERY_AFTER_GAP"
  ELSE IF s.pending # None THEN s.pending
  ELSE IF now - s.active.opened >= PlannedRotationAge THEN "PLANNED_ROTATION" ELSE None

Fresh(i) == TokensOf(i) \intersect used = {}          \* register_identity

Started(s, i, now) ==
  [s EXCEPT !.candidate = [id |-> i, opened |-> now, facts |-> {}],
            !.pending = None, !.notBefore = None,
            !.state = IF s.active # None THEN "HANDOVER" ELSE "RECOVERING"]

(* validate_monotonic and the segment clock.                                *)
Clock(now) ==
  /\ now >= lastMono
  /\ lastMono' = now
  /\ segment' = (now - origin) \div SegmentInterval
  /\ UNCHANGED origin

Becomes(s) ==
  /\ active' = s.active /\ candidate' = s.candidate /\ state' = s.state
  /\ pending' = s.pending /\ notBefore' = s.notBefore
  /\ attempt' = s.attempt /\ gapCount' = s.gapCount

-----------------------------------------------------------------------------
AdvanceTime(now) ==
  /\ Clock(now)
  /\ Becomes(AfterTime(now))
  /\ UNCHANGED <<draining, used>>

(* start_candidate, after advance_time.                                     *)
StartCandidate(s, i, now) ==
  /\ s.candidate = None
  /\ Fresh(i)
  /\ used' = used \union TokensOf(i)
  /\ Becomes(Started(s, i, now))
  /\ UNCHANGED draining

StartDueCandidate(i, now) ==
  /\ Clock(now)
  /\ LET s == AfterTime(now) IN
       /\ RequestIn(s, now) # None
       /\ StartCandidate(s, i, now)

(* A server announcing its shutdown on an epoch of the active generation    *)
(* starts a candidate at once, whatever the backoff.                        *)
OnServerShutdown(e, i, now) ==
  /\ Clock(now)
  /\ LET s == AfterTime(now) IN
       /\ s.active # None /\ e \in EpochsOf(s.active.id)
       /\ StartCandidate(s, i, now)

ObserveCandidateFact(f, now) ==
  /\ Clock(now)
  /\ LET s == AfterTime(now) IN
       /\ s.candidate # None
       /\ Accepts(f, s.candidate.facts)
       /\ Becomes([s EXCEPT !.candidate.facts = @ \union {f}])
  /\ UNCHANGED <<draining, used>>

IsReady(g) == g.facts = Fact

PromoteCandidate(now) ==
  /\ Clock(now)
  /\ LET s == AfterTime(now) IN
       /\ s.candidate # None /\ IsReady(s.candidate)
       /\ Becomes([s EXCEPT !.active = s.candidate, !.candidate = None, !.state = "LIVE",
                            !.pending = None, !.notBefore = None, !.attempt = 0])
       /\ draining' = draining \union ({s.active} \ {None})
  /\ UNCHANGED used

CloseDraining(i, now) ==
  /\ Clock(now)
  /\ \E g \in draining : g.id = i
  /\ draining' = {g \in draining : g.id # i}
  /\ Becomes(AfterTime(now))
  /\ UNCHANGED used

(* The epoch is looked up in the active generation, then in the candidate,  *)
(* then among the draining ones.                                            *)
DisconnectEpoch(e, now) ==
  /\ Clock(now)
  /\ LET s == AfterTime(now) IN
       IF s.active # None /\ e \in EpochsOf(s.active.id)
       THEN Becomes(EnterGap(s, now)) /\ UNCHANGED draining
       ELSE IF s.candidate # None /\ e \in EpochsOf(s.candidate.id)
       THEN Becomes(FailCandidate(s, now)) /\ UNCHANGED draining
       ELSE /\ Becomes(s)
            /\ draining' = {g \in draining : e \notin EpochsOf(g.id)}
  /\ UNCHANGED used

Next ==
  \E now \in Times :
    \/ AdvanceTime(now)
    \/ \E i \in Identity : StartDueCandidate(i, now) \/ CloseDraining(i, now)
    \/ \E i \in Identity, e \in Token : OnServerShutdown(e, i, now)
    \/ \E f \in Fact : ObserveCandidateFact(f, now)
    \/ PromoteCandidate(now)
    \/ \E e \in Token : DisconnectEpoch(e, now)

Spec == Init /\ [][Next]_vars

-----------------------------------------------------------------------------
(* Every part of the state keeps its type; the segment is the one the       *)
(* campaign clock says.                                                     *)
TypeOK ==
  /\ origin \in Times /\ lastMono \in Times /\ origin <= lastMono
  /\ segment = (lastMono - origin) \div SegmentInterval
  /\ active \in Generation \union {None} /\ candidate \in Generation \union {None}
  /\ draining \subseteq Generation /\ used \subseteq Token
  /\ \A g \in {active, candidate} \ {None} : g.opened <= lastMono
  /\ state \in State /\ pending \in Reason \union {None}
  /\ notBefore \in Nat \union {None} /\ attempt \in 0..AttemptMax /\ gapCount \in Nat

(* The published state says which generations exist: LIVE an active one     *)
(* alone, HANDOVER both, RECOVERING a candidate without an active one, GAP  *)
(* neither.                                                                 *)
StateMatchesRoles ==
  state = IF active # None THEN IF candidate # None THEN "HANDOVER" ELSE "LIVE"
                           ELSE IF candidate # None THEN "RECOVERING" ELSE "GAP"

(* The generations in a role, by role.                                      *)
Held == ({active, candidate} \ {None}) \union draining

(* An epoch or id names at most one generation in the active, candidate and *)
(* draining roles, so disconnect_epoch and close_draining never act on the  *)
(* wrong one; and every token in a role is recorded as used.                *)
EpochsUnambiguous ==
  /\ active # None => active # candidate /\ active \notin draining
  /\ candidate # None => candidate \notin draining
  /\ \A g \in Held : TokensOf(g.id) \subseteq used
  /\ \A g, h \in Held : g # h => TokensOf(g.id) \intersect TokensOf(h.id) = {}

(* The active generation, and each one it replaced, was promoted with the   *)
(* complete raw continuity evidence.                                        *)
ActiveFullyProven ==
  \A g \in Held : g # candidate => g.facts = Fact

(* A generation's evidence is closed under what each fact rests on: nothing *)
(* is durable before it connects, nothing continuous before it is durable.  *)
EvidenceOrdered ==
  \A g \in Held : \A f \in g.facts : Requires(f) \subseteq g.facts

(* With no active generation recovery is under way or due within            *)
(* backoff_max of the last clock reading, and a backoff is only ever        *)
(* pending while there is no candidate.                                     *)
RecoveryScheduled ==
  /\ active = None /\ candidate = None => notBefore # None /\ pending # None
  /\ notBefore # None => notBefore <= lastMono + BackoffMax /\ candidate = None

(* No call leaves an active generation in place at its hard deadline: its   *)
(* age is below active_max_age, or, when a candidate may take longer than   *)
(* that to prove, below candidate_timeout.                                  *)
AgeBounded ==
  active # None => \/ lastMono - active.opened < ActiveMaxAge
                   \/ lastMono - active.opened < CandidateTimeout

(* gap_count counts every loss of the active generation, and nothing else:  *)
(* a promotion or a candidate's failure never hides or invents a gap.       *)
EveryGapCounted ==
  [][gapCount' = IF active # None /\ active' = None THEN gapCount + 1 ELSE gapCount]_vars

(* Tokens are never released, and an identity that left its roles never     *)
(* comes back to one.                                                       *)
NoResurrection ==
  [][/\ used \subseteq used'
     /\ \A h \in Held' :
          TokensOf(h.id) \intersect used # {} => \E g \in Held : g.id = h.id]_vars
=============================================================================
