--------------------- MODULE GenerationSupervisorProofs ---------------------
(***************************************************************************)
(* Proofs about GenerationSupervisor, for every set of identities, every   *)
(* valid configuration and every sequence of clock readings.  The checked  *)
(* invariants are inductive together.  The proof follows the code: every   *)
(* call turns one lifecycle record into another, first by the deadlines    *)
(* (AfterTimeGood) and then by the call's own step.                        *)
(***************************************************************************)
EXTENDS GenerationSupervisor, TLAPS

Life ==
  [active : Generation \union {None}, candidate : Generation \union {None},
   state : State, pending : Reason \union {None}, notBefore : Nat \union {None},
   attempt : 0..AttemptMax, gapCount : Nat]

(* The invariants that concern one lifecycle record, at a clock reading.    *)
GoodLife(s, now) ==
  /\ s \in Life
  /\ s.active # None => s.active.opened <= now /\ s.active.facts = Fact
  /\ s.candidate # None => /\ s.candidate.opened <= now
                           /\ \A f \in s.candidate.facts : Requires(f) \subseteq s.candidate.facts
  /\ s.state = IF s.active # None THEN IF s.candidate # None THEN "HANDOVER" ELSE "LIVE"
                                  ELSE IF s.candidate # None THEN "RECOVERING" ELSE "GAP"
  /\ s.active = None /\ s.candidate = None => s.notBefore # None /\ s.pending # None
  /\ s.notBefore # None => s.notBefore <= now + BackoffMax /\ s.candidate = None

Young(s, now) ==
  s.active # None => \/ now - s.active.opened < ActiveMaxAge
                     \/ now - s.active.opened < CandidateTimeout

HeldIn(s, d) == ({s.active, s.candidate} \ {None}) \union d

Distinct(s, d, u) ==
  /\ s.active # None => s.active # s.candidate /\ s.active \notin d
  /\ s.candidate # None => s.candidate \notin d
  /\ \A g \in HeldIn(s, d) : TokensOf(g.id) \subseteq u
  /\ \A g, h \in HeldIn(s, d) : g # h => TokensOf(g.id) \intersect TokensOf(h.id) = {}

Rest ==
  /\ origin \in Times /\ lastMono \in Times /\ origin <= lastMono
  /\ segment = (lastMono - origin) \div SegmentInterval
  /\ draining \subseteq Generation /\ used \subseteq Token
  /\ \A g \in draining : g.facts = Fact

Inv ==
  /\ TypeOK
  /\ StateMatchesRoles
  /\ EpochsUnambiguous
  /\ ActiveFullyProven
  /\ EvidenceOrdered
  /\ RecoveryScheduled
  /\ AgeBounded

-----------------------------------------------------------------------------
LEMMA ConfigFacts ==
  /\ SegmentInterval \in Nat \ {0} /\ ActiveMaxAge \in Nat \ {0}
  /\ CandidateTimeout \in Nat \ {0} /\ BackoffMax \in Nat \ {0}
  /\ PlannedRotationAge \in Nat \ {0} /\ BackoffInitial \in Nat \ {0}
  /\ Times \subseteq Nat /\ AttemptMax \in Nat
  /\ None \notin Generation /\ None \notin Nat /\ None \notin Reason
  BY SupervisorAssumption DEF ValidConfig

(* The complete evidence is closed under what each fact rests on.           *)
LEMMA FactsClosed == \A f \in Fact : Requires(f) \subseteq Fact
  BY DEF Fact, Requires

(* The backoff never exceeds its maximum.                                   *)
LEMMA DelayBounded == ASSUME NEW n PROVE RetryDelay(n) \in 0..BackoffMax
  BY ConfigFacts DEF RetryDelay

(* schedule_retry keeps the types and sets a retry within backoff_max.      *)
LEMMA ScheduleRetryFacts ==
  ASSUME NEW s \in Life, NEW now \in Times, NEW reason \in Reason
  PROVE  LET r == ScheduleRetry(s, now, reason) IN
           /\ r \in Life
           /\ r.pending # None /\ r.notBefore # None /\ r.notBefore <= now + BackoffMax
           /\ r.active = s.active /\ r.candidate = s.candidate /\ r.gapCount = s.gapCount
<1> DEFINE d == RetryDelay(s.attempt)
<1>1. d \in 0..BackoffMax
  BY DelayBounded
<1>2. Least(s.attempt + 1, AttemptMax) \in 0..AttemptMax
  BY ConfigFacts DEF Least, Life
<1>3. now + d \in Nat /\ now + d <= now + BackoffMax
  BY <1>1, ConfigFacts
<1> HIDE DEF d
<1>4. ScheduleRetry(s, now, reason)
        = [s EXCEPT !.attempt = Least(s.attempt + 1, AttemptMax), !.pending = reason,
                    !.notBefore = now + d]
  BY DEF ScheduleRetry, d
<1> QED
  BY <1>2, <1>3, <1>4, ConfigFacts, ZenonT(30) DEF Life

LEMMA EnterGapFacts ==
  ASSUME NEW s \in Life, NEW now \in Times
  PROVE  LET r == EnterGap(s, now) IN
           /\ GoodLife(r, now)
           /\ r.active = None /\ r.candidate = None /\ r.gapCount = s.gapCount + 1
<1> DEFINE q == ScheduleRetry(s, now, "RECOVERY_AFTER_GAP")
<1>1. /\ q \in Life /\ q.pending # None /\ q.notBefore # None
      /\ q.notBefore <= now + BackoffMax
  BY ScheduleRetryFacts DEF Reason
<1> HIDE DEF q
<1>0. s.gapCount + 1 \in Nat
  BY DEF Life
<1>2. EnterGap(s, now)
        = [q EXCEPT !.active = None, !.candidate = None, !.gapCount = s.gapCount + 1,
                    !.state = "GAP"]
  BY DEF EnterGap, q
<1> QED
  BY <1>0, <1>1, <1>2, Zenon DEF GoodLife, Life, State

LEMMA FailCandidateFacts ==
  ASSUME NEW s \in Life, NEW now \in Times,
         s.active # None => s.active.opened <= now /\ s.active.facts = Fact
  PROVE  LET r == FailCandidate(s, now) IN
           /\ GoodLife(r, now)
           /\ r.active = s.active /\ r.candidate = None /\ r.gapCount = s.gapCount
<1> DEFINE q == ScheduleRetry(s, now, "RETRY_AFTER_FAILURE")
<1>1. /\ q \in Life /\ q.pending # None /\ q.notBefore # None
      /\ q.notBefore <= now + BackoffMax
      /\ q.active = s.active /\ q.gapCount = s.gapCount
  BY ScheduleRetryFacts DEF Reason
<1> HIDE DEF q
<1>2. FailCandidate(s, now)
        = [q EXCEPT !.candidate = None, !.state = IF s.active # None THEN "LIVE" ELSE "GAP"]
  BY DEF FailCandidate, q
<1> QED
  BY <1>1, <1>2, Zenon DEF GoodLife, Life, State

-----------------------------------------------------------------------------
(* The invariant, taken apart by what it is about, and put together again.  *)
LEMMA Unfold ==
  ASSUME Inv
  PROVE  /\ Rest
         /\ GoodLife(Current, lastMono) /\ Young(Current, lastMono)
         /\ Distinct(Current, draining, used)
<1>0. Current \in Life
  BY DEF Inv, TypeOK, Current, Life
<1>1. Current \in Life /\ Rest
  <2>1. \A g \in draining : g # candidate
    BY ConfigFacts DEF Inv, TypeOK, EpochsUnambiguous
  <2>2. \A g \in draining : g.facts = Fact
    BY <2>1 DEF Inv, ActiveFullyProven, Held
  <2> QED
    BY <1>0, <2>2 DEF Inv, TypeOK, Rest
<1>2. /\ Current.active = active /\ Current.candidate = candidate /\ Current.state = state
      /\ Current.pending = pending /\ Current.notBefore = notBefore
  BY DEF Current
<1>3. GoodLife(Current, lastMono)
  <2>1. active # None => active.opened <= lastMono /\ active.facts = Fact
    BY DEF Inv, TypeOK, ActiveFullyProven, EpochsUnambiguous, Held
  <2>2. candidate # None => /\ candidate.opened <= lastMono
                            /\ \A f \in candidate.facts : Requires(f) \subseteq candidate.facts
    BY DEF Inv, TypeOK, EvidenceOrdered, Held
  <2> QED
    BY <1>1, <1>2, <2>1, <2>2 DEF Inv, GoodLife, StateMatchesRoles, RecoveryScheduled
<1>4. Young(Current, lastMono)
  BY <1>2 DEF Inv, AgeBounded, Young
<1>5. Distinct(Current, draining, used)
  BY <1>2 DEF Inv, EpochsUnambiguous, Held, Distinct, HeldIn
<1> QED
  BY <1>1, <1>3, <1>4, <1>5

LEMMA Fold ==
  ASSUME NEW s, Becomes(s), Rest', GoodLife(s, lastMono'), Young(s, lastMono'),
         Distinct(s, draining', used')
  PROVE  Inv'
<1>1. /\ active' = s.active /\ candidate' = s.candidate /\ state' = s.state
      /\ pending' = s.pending /\ notBefore' = s.notBefore
      /\ attempt' = s.attempt /\ gapCount' = s.gapCount
  BY DEF Becomes
<1>2. s \in Life
  BY DEF GoodLife
<1>3. TypeOK'
  BY <1>1, <1>2 DEF TypeOK, Rest, GoodLife, Life
<1>4. StateMatchesRoles' /\ RecoveryScheduled' /\ AgeBounded'
  BY <1>1 DEF GoodLife, Young, StateMatchesRoles, RecoveryScheduled, AgeBounded
<1>5. EpochsUnambiguous'
  BY <1>1 DEF EpochsUnambiguous, Distinct, Held, HeldIn
<1>6. ActiveFullyProven'
  BY <1>1 DEF ActiveFullyProven, GoodLife, Rest, Held
<1>7. EvidenceOrdered'
  BY <1>1, FactsClosed DEF EvidenceOrdered, GoodLife, Rest, Held
<1> QED
  BY <1>3, <1>4, <1>5, <1>6, <1>7 DEF Inv

(* advance_time: the deadlines leave a good lifecycle at the new reading,   *)
(* with no generation past its own deadline, and count a gap exactly when   *)
(* they drop the active generation.                                         *)
LEMMA AfterTimeGood ==
  ASSUME Inv, NEW now \in Times, now >= lastMono
  PROVE  LET s == AfterTime(now) IN
           /\ GoodLife(s, now) /\ Young(s, now)
           /\ s.candidate # None => now - s.candidate.opened < CandidateTimeout
           /\ s.active \in {active, None} /\ s.candidate \in {candidate, None}
           /\ s.candidate # None => s.active = active
           /\ s.gapCount = IF active # None /\ s.active = None THEN gapCount + 1 ELSE gapCount
           /\ Distinct(s, draining, used)
<1> DEFINE s == AfterTime(now)
<1>1. /\ Rest /\ GoodLife(Current, lastMono) /\ Distinct(Current, draining, used)
      /\ Current \in Life
  BY Unfold DEF GoodLife
<1>2. /\ Current.active = active /\ Current.candidate = candidate
      /\ Current.gapCount = gapCount
  BY DEF Current
<1>3. now \in Nat /\ lastMono \in Nat
  BY <1>1, ConfigFacts DEF Rest
<1>a. /\ active # None => active \in Generation /\ active.opened \in Nat
      /\ candidate # None => candidate \in Generation /\ candidate.opened \in Nat
  BY ConfigFacts DEF Inv, TypeOK, Generation
<1>b. GoodLife(Current, now)
  <2>1. Current.notBefore # None => Current.notBefore \in Nat
    BY <1>1 DEF Life
  <2> QED
    BY <1>1, <1>3, <1>a, <1>2, <2>1, ConfigFacts DEF GoodLife
<1>4. CASE active # None /\ now - active.opened >= ActiveMaxAge
  <2>1. s = EnterGap(Current, now)
    BY <1>4 DEF AfterTime
  <2>2. GoodLife(s, now) /\ s.active = None /\ s.candidate = None /\ s.gapCount = gapCount + 1
    BY <1>1, <1>2, <2>1, EnterGapFacts
  <2>3. HeldIn(s, draining) \subseteq HeldIn(Current, draining)
    BY <2>2 DEF HeldIn
  <2> QED
    BY <1>1, <1>4, <2>2, <2>3 DEF Young, Distinct
<1>5. CASE /\ ~(active # None /\ now - active.opened >= ActiveMaxAge)
           /\ candidate # None /\ now - candidate.opened >= CandidateTimeout
  <2>1. s = FailCandidate(Current, now)
    BY <1>5 DEF AfterTime
  <2>2. GoodLife(s, now) /\ s.active = active /\ s.candidate = None /\ s.gapCount = gapCount
    BY <1>1, <1>2, <1>b, <2>1, FailCandidateFacts DEF GoodLife
  <2>3. HeldIn(s, draining) \subseteq HeldIn(Current, draining)
    BY <1>2, <2>2 DEF HeldIn
  <2>4. Young(s, now)
    BY <1>3, <1>5, <1>a, <2>2, ConfigFacts DEF Young
  <2> QED
    BY <1>1, <1>2, <2>2, <2>3, <2>4 DEF Distinct
<1>6. CASE /\ ~(active # None /\ now - active.opened >= ActiveMaxAge)
           /\ ~(candidate # None /\ now - candidate.opened >= CandidateTimeout)
  <2>1. s = Current
    BY <1>6 DEF AfterTime
  <2>2. Young(s, now)
    BY <1>2, <1>3, <1>6, <1>a, <2>1, ConfigFacts DEF Young
  <2>3. s.candidate # None => now - s.candidate.opened < CandidateTimeout
    BY <1>2, <1>3, <1>6, <1>a, <2>1, ConfigFacts
  <2> QED
    BY <1>1, <1>2, <1>b, <2>1, <2>2, <2>3
<1> QED
  BY <1>4, <1>5, <1>6

-----------------------------------------------------------------------------
Counted == gapCount' = IF active # None /\ active' = None THEN gapCount + 1 ELSE gapCount

NotResurrected ==
  /\ used \subseteq used'
  /\ \A h \in Held' : TokensOf(h.id) \intersect used # {} => \E g \in Held : g.id = h.id

StepGood == Inv' /\ Counted /\ NotResurrected

(* The clock part of every call.                                            *)
LEMMA ClockFacts ==
  ASSUME Inv, NEW now \in Times, Clock(now)
  PROVE  /\ now >= lastMono /\ lastMono' = now /\ now \in Nat
         /\ origin' \in Times /\ lastMono' \in Times /\ origin' <= lastMono'
         /\ segment' = (lastMono' - origin') \div SegmentInterval
<1>1. lastMono \in Nat /\ origin \in Nat /\ now \in Nat /\ origin <= lastMono
  BY ConfigFacts DEF Inv, TypeOK
<1> QED
  BY <1>1 DEF Inv, TypeOK, Clock

(* A step that only drops generations from their roles.                     *)
LEMMA DropStep ==
  ASSUME Inv, NEW now \in Times, Clock(now), NEW s, Becomes(s),
         GoodLife(s, now), Young(s, now),
         s.active \in {active, candidate, None}, s.candidate \in {candidate, None},
         s.active # None => s.active # s.candidate /\ s.active \notin draining',
         s.gapCount = IF active # None /\ s.active = None THEN gapCount + 1 ELSE gapCount,
         draining' \subseteq Held, \A g \in draining' : g.facts = Fact,
         s.candidate # None => s.candidate \notin draining',
         used' = used
  PROVE  StepGood
<1>1. /\ Rest' /\ lastMono' = now
  <2>1. Held \subseteq Generation
    BY DEF Inv, TypeOK, Held
  <2> QED
    BY <2>1, ClockFacts DEF Rest, Inv, TypeOK
<1>2. HeldIn(s, draining') \subseteq Held
  BY DEF HeldIn, Held
<1>3. Distinct(s, draining', used')
  BY <1>2 DEF Inv, EpochsUnambiguous, Distinct
<1>4. Inv'
  BY <1>1, <1>3, Fold
<1>5. Held' \subseteq Held
  BY <1>2 DEF Held, HeldIn, Becomes
<1>6. Counted
  BY DEF Counted, Becomes
<1>7. NotResurrected
  BY <1>5 DEF NotResurrected
<1> QED
  BY <1>4, <1>6, <1>7 DEF StepGood

LEMMA DrainingFacts ==
  ASSUME Inv
  PROVE  /\ draining \subseteq Held
         /\ \A g \in draining : g.facts = Fact
         /\ active # None => active \notin draining /\ active # candidate
         /\ candidate # None => candidate \notin draining
  BY Unfold, Zenon DEF Rest, Held, Inv, EpochsUnambiguous

LEMMA AdvanceTimeStep ==
  ASSUME Inv, NEW now \in Times, AdvanceTime(now)
  PROVE  StepGood
<1> DEFINE s == AfterTime(now)
<1>1. Clock(now) /\ Becomes(s) /\ draining' = draining /\ used' = used /\ now >= lastMono
  BY DEF AdvanceTime, Clock
<1>2. /\ GoodLife(s, now) /\ Young(s, now)
      /\ s.active \in {active, None} /\ s.candidate \in {candidate, None}
      /\ s.gapCount = IF active # None /\ s.active = None THEN gapCount + 1 ELSE gapCount
  BY <1>1, AfterTimeGood
<1> HIDE DEF s
<1> QED
  BY <1>1, <1>2, DropStep, DrainingFacts

LEMMA CloseDrainingStep ==
  ASSUME Inv, NEW now \in Times, NEW i \in Identity, CloseDraining(i, now)
  PROVE  StepGood
<1> DEFINE s == AfterTime(now)
<1>1. Clock(now) /\ Becomes(s) /\ draining' \subseteq draining /\ used' = used /\ now >= lastMono
  BY DEF CloseDraining, Clock
<1>2. /\ GoodLife(s, now) /\ Young(s, now)
      /\ s.active \in {active, None} /\ s.candidate \in {candidate, None}
      /\ s.gapCount = IF active # None /\ s.active = None THEN gapCount + 1 ELSE gapCount
  BY <1>1, AfterTimeGood
<1> HIDE DEF s
<1> QED
  BY <1>1, <1>2, DropStep, DrainingFacts

LEMMA DisconnectEpochStep ==
  ASSUME Inv, NEW now \in Times, NEW e \in Token, DisconnectEpoch(e, now)
  PROVE  StepGood
<1> DEFINE s == AfterTime(now)
<1>1. Clock(now) /\ used' = used /\ now >= lastMono
  BY DEF DisconnectEpoch, Clock
<1>2. /\ GoodLife(s, now) /\ Young(s, now) /\ s \in Life
      /\ s.active \in {active, None} /\ s.candidate \in {candidate, None}
      /\ s.gapCount = IF active # None /\ s.active = None THEN gapCount + 1 ELSE gapCount
  BY <1>1, AfterTimeGood DEF GoodLife
<1>3. \/ s.active # None /\ Becomes(EnterGap(s, now)) /\ draining' = draining
      \/ Becomes(FailCandidate(s, now)) /\ draining' = draining
      \/ Becomes(s) /\ draining' \subseteq draining
  BY DEF DisconnectEpoch
<1> HIDE DEF s
<1>4. CASE s.active # None /\ Becomes(EnterGap(s, now)) /\ draining' = draining
  <2> DEFINE r == EnterGap(s, now)
  <2>1. /\ GoodLife(r, now) /\ r.active = None /\ r.candidate = None
        /\ r.gapCount = gapCount + 1 /\ active # None
    BY <1>2, <1>4, EnterGapFacts
  <2>2. Young(r, now) /\ Becomes(r)
    BY <1>4, <2>1 DEF Young
  <2> HIDE DEF r
  <2> QED
    BY <1>1, <1>4, <2>1, <2>2, DropStep, DrainingFacts
<1>5. CASE Becomes(FailCandidate(s, now)) /\ draining' = draining
  <2> DEFINE r == FailCandidate(s, now)
  <2>1. /\ GoodLife(r, now) /\ r.active = s.active /\ r.candidate = None
        /\ r.gapCount = s.gapCount
    BY <1>2, FailCandidateFacts DEF GoodLife
  <2>2. Young(r, now) /\ Becomes(r)
    BY <1>2, <1>5, <2>1 DEF Young
  <2> HIDE DEF r
  <2> QED
    BY <1>1, <1>2, <1>5, <2>1, <2>2, DropStep, DrainingFacts
<1>6. CASE Becomes(s) /\ draining' \subseteq draining
  BY <1>1, <1>2, <1>6, DropStep, DrainingFacts
<1> QED
  BY <1>3, <1>4, <1>5, <1>6

LEMMA PromoteCandidateStep ==
  ASSUME Inv, NEW now \in Times, PromoteCandidate(now)
  PROVE  StepGood
<1> DEFINE s == AfterTime(now)
           r == [s EXCEPT !.active = s.candidate, !.candidate = None, !.state = "LIVE",
                          !.pending = None, !.notBefore = None, !.attempt = 0]
<1>1. /\ Clock(now) /\ used' = used /\ now >= lastMono
      /\ s.candidate # None /\ s.candidate.facts = Fact
      /\ Becomes(r) /\ draining' = draining \union ({s.active} \ {None})
  BY DEF PromoteCandidate, Clock, IsReady
<1>2. /\ GoodLife(s, now) /\ s \in Life
      /\ s.active \in {active, None} /\ s.candidate \in {candidate, None}
      /\ s.gapCount = IF active # None /\ s.active = None THEN gapCount + 1 ELSE gapCount
      /\ s.active = active /\ s.gapCount = gapCount
      /\ now - s.candidate.opened < CandidateTimeout
  BY <1>1, AfterTimeGood DEF GoodLife
<1> HIDE DEF s
<1>3. /\ r \in Life /\ r.active = s.candidate /\ r.candidate = None /\ r.state = "LIVE"
      /\ r.notBefore = None /\ r.gapCount = s.gapCount
  <2>1. 0 \in 0..AttemptMax /\ "LIVE" \in State
    BY ConfigFacts DEF State
  <2> QED
    BY <1>2, <2>1, Zenon DEF Life
<1> HIDE DEF r
<1>4. GoodLife(r, now) /\ Young(r, now)
  BY <1>1, <1>2, <1>3 DEF GoodLife, Young
<1>5. /\ r.active \notin draining' /\ draining' \subseteq Held
      /\ \A g \in draining' : g.facts = Fact
  BY <1>1, <1>2, <1>3, DrainingFacts DEF Held, GoodLife
<1> QED
  BY <1>1, <1>2, <1>3, <1>4, <1>5, DropStep

(* start_candidate, from any caller: the new generation's tokens are        *)
(* disjoint from every token in use.                                        *)
LEMMA StartCandidateStep ==
  ASSUME Inv, NEW now \in Times, NEW i \in Identity, Clock(now),
         StartCandidate(AfterTime(now), i, now)
  PROVE  StepGood
<1> DEFINE s == AfterTime(now)
           c == [id |-> i, opened |-> now, facts |-> {}]
           r == Started(s, i, now)
<1>1. /\ now >= lastMono /\ s.candidate = None /\ Fresh(i) /\ Becomes(r)
      /\ used' = used \union TokensOf(i) /\ draining' = draining
  BY DEF StartCandidate, Clock
<1>2. /\ GoodLife(s, now) /\ Young(s, now) /\ s \in Life
      /\ s.active \in {active, None}
      /\ s.gapCount = IF active # None /\ s.active = None THEN gapCount + 1 ELSE gapCount
      /\ Distinct(s, draining, used)
  BY <1>1, AfterTimeGood DEF GoodLife
<1>3. /\ c \in Generation /\ c.id = i /\ c.facts = {} /\ c.opened = now /\ c # None
      /\ now \in Nat
  BY ConfigFacts DEF Generation
<1>4. /\ r \in Life /\ r.active = s.active /\ r.candidate = c /\ r.notBefore = None
      /\ r.gapCount = s.gapCount
      /\ r.state = IF s.active # None THEN "HANDOVER" ELSE "RECOVERING"
  <2>1. r = [s EXCEPT !.candidate = c, !.pending = None, !.notBefore = None,
                      !.state = IF s.active # None THEN "HANDOVER" ELSE "RECOVERING"]
    BY DEF Started
  <2> HIDE DEF r, s, c
  <2> QED
    BY <1>2, <1>3, <2>1, Zenon DEF Life, State
<1> HIDE DEF r, s, c
<1>5. GoodLife(r, now) /\ Young(r, now)
  BY <1>2, <1>3, <1>4 DEF GoodLife, Young
<1>7. TokensOf(i) \subseteq Token
  BY SupervisorAssumption DEF TokensOf, EpochsOf, ValidIdentity
<1>8. /\ HeldIn(r, draining') = HeldIn(s, draining) \union {c}
      /\ HeldIn(s, draining) \subseteq Held
  BY <1>1, <1>2, <1>3, <1>4 DEF HeldIn, Held
<1>9. \A g \in HeldIn(s, draining) : TokensOf(g.id) \intersect TokensOf(i) = {} /\ g # c
  <2>1. \A g \in HeldIn(s, draining) : TokensOf(g.id) \subseteq used
    BY <1>2 DEF Distinct
  <2>2. IdOf(i) \in TokensOf(i)
    BY DEF TokensOf
  <2> QED
    BY <1>1, <1>3, <2>1, <2>2 DEF Fresh
<1>10. Distinct(r, draining', used')
  BY <1>1, <1>2, <1>3, <1>4, <1>8, <1>9 DEF Distinct, HeldIn
<1>11. Rest' /\ lastMono' = now
  BY <1>1, <1>7, ClockFacts, Unfold DEF Rest
<1>12. Inv'
  BY <1>1, <1>5, <1>10, <1>11, Fold
<1>13. Counted
  BY <1>1, <1>2, <1>4 DEF Counted, Becomes
<1>14. Held' \subseteq Held \union {c}
  BY <1>1, <1>8 DEF Held, HeldIn, Becomes
<1>15. NotResurrected
  BY <1>1, <1>3, <1>14 DEF NotResurrected, Fresh
<1> QED
  BY <1>12, <1>13, <1>15 DEF StepGood

LEMMA ObserveCandidateFactStep ==
  ASSUME Inv, NEW now \in Times, NEW f \in Fact, ObserveCandidateFact(f, now)
  PROVE  StepGood
<1> DEFINE s == AfterTime(now)
           c == [s.candidate EXCEPT !.facts = @ \union {f}]
           r == [s EXCEPT !.candidate = c]
<1>1. /\ Clock(now) /\ now >= lastMono /\ s.candidate # None
      /\ Requires(f) \subseteq s.candidate.facts
      /\ used' = used /\ draining' = draining
      /\ Becomes([s EXCEPT !.candidate.facts = @ \union {f}])
  BY DEF ObserveCandidateFact, Clock, Accepts
<1>2. /\ GoodLife(s, now) /\ Young(s, now) /\ s \in Life
      /\ s.active \in {active, None} /\ s.candidate \in {candidate, None}
      /\ s.gapCount = IF active # None /\ s.active = None THEN gapCount + 1 ELSE gapCount
      /\ Distinct(s, draining, used)
  BY <1>1, AfterTimeGood DEF GoodLife
<1>3. Becomes(r)
  BY <1>1
<1> HIDE DEF s
<1>4. s.candidate \in Generation
  BY <1>1, <1>2 DEF Life
<1>5. /\ c \in Generation /\ c.id = s.candidate.id /\ c.opened = s.candidate.opened
      /\ c.facts = s.candidate.facts \union {f} /\ c # None
  BY <1>4, ConfigFacts DEF Generation
<1> HIDE DEF c
<1>6. /\ r \in Life /\ r.active = s.active /\ r.candidate = c /\ r.notBefore = s.notBefore
      /\ r.gapCount = s.gapCount /\ r.state = s.state /\ r.pending = s.pending
  BY <1>2, <1>5 DEF Life
<1> HIDE DEF r
<1>7. GoodLife(r, now) /\ Young(r, now)
  BY <1>1, <1>2, <1>5, <1>6 DEF GoodLife, Young
<1>8. HeldIn(r, draining) = (HeldIn(s, draining) \ {s.candidate}) \union {c}
  <2>1. s.active # s.candidate /\ s.candidate \notin draining
    BY <1>1, <1>2 DEF Distinct
  <2> QED
    BY <1>1, <1>5, <1>6, <2>1 DEF HeldIn
<1>9. \A g \in HeldIn(s, draining) \ {s.candidate} :
        /\ TokensOf(g.id) \intersect TokensOf(c.id) = {}
        /\ g # c
  <2>1. s.candidate \in HeldIn(s, draining)
    BY <1>1 DEF HeldIn
  <2>2. IdOf(c.id) \in TokensOf(c.id)
    BY DEF TokensOf
  <2> QED
    BY <1>2, <1>5, <2>1, <2>2 DEF Distinct
<1>10. Distinct(r, draining', used')
  <2>1. s.candidate \in HeldIn(s, draining)
    BY <1>1 DEF HeldIn
  <2>2. \A g \in HeldIn(r, draining) : TokensOf(g.id) \subseteq used
    BY <1>2, <1>5, <1>8, <2>1 DEF Distinct
  <2>3. \A g, h \in HeldIn(r, draining) : g # h => TokensOf(g.id) \intersect TokensOf(h.id) = {}
    BY <1>2, <1>8, <1>9 DEF Distinct
  <2>4. /\ s.active # None => s.active # c /\ s.active \notin draining
        /\ c \notin draining
    BY <1>1, <1>2, <1>9 DEF Distinct, HeldIn
  <2> QED
    BY <1>1, <1>6, <2>2, <2>3, <2>4 DEF Distinct
<1>11. Rest' /\ lastMono' = now
  BY <1>1, ClockFacts, Unfold DEF Rest
<1>12. Inv'
  BY <1>3, <1>7, <1>10, <1>11, Fold
<1>13. Counted
  BY <1>2, <1>3, <1>6 DEF Counted, Becomes
<1>14. NotResurrected
  <2>1. Held' \subseteq Held \union {c} /\ s.candidate \in Held
    BY <1>1, <1>2, <1>3, <1>6 DEF Held, Becomes
  <2> QED
    BY <1>1, <1>5, <2>1 DEF NotResurrected
<1> QED
  BY <1>12, <1>13, <1>14 DEF StepGood

-----------------------------------------------------------------------------
LEMMA InitInv == Init => Inv
<1> SUFFICES ASSUME NEW i \in Identity, NEW now \in Times,
                    origin = now, lastMono = now, segment = 0,
                    active = [id |-> i, opened |-> now, facts |-> Fact], candidate = None,
                    draining = {}, used = TokensOf(i), state = "LIVE",
                    pending = None, notBefore = None, attempt = 0, gapCount = 0
             PROVE  Inv
  BY DEF Init
<1>1. /\ active \in Generation /\ active # None /\ active.id = i /\ active.facts = Fact
      /\ active.opened = now
  BY ConfigFacts DEF Generation
<1>2. now \in Nat /\ (now - now) \div SegmentInterval = 0 /\ 0 \in 0..AttemptMax
  BY ConfigFacts
<1>3. Held = {active}
  BY <1>1 DEF Held
<1>4. TokensOf(i) \subseteq Token
  BY SupervisorAssumption DEF TokensOf, EpochsOf, ValidIdentity
<1>5. TypeOK
  BY <1>1, <1>2, <1>4 DEF TypeOK, State
<1>6. EpochsUnambiguous /\ ActiveFullyProven /\ EvidenceOrdered
  BY <1>1, <1>3, FactsClosed DEF EpochsUnambiguous, ActiveFullyProven, EvidenceOrdered
<1>7. StateMatchesRoles /\ RecoveryScheduled /\ AgeBounded
  BY <1>1, <1>2, ConfigFacts DEF StateMatchesRoles, RecoveryScheduled, AgeBounded
<1> QED
  BY <1>5, <1>6, <1>7 DEF Inv

LEMMA NextGood == Inv /\ Next => StepGood
<1> SUFFICES ASSUME Inv, Next PROVE StepGood
  OBVIOUS
<1> PICK now \in Times :
       \/ AdvanceTime(now)
       \/ \E i \in Identity : StartDueCandidate(i, now) \/ CloseDraining(i, now)
       \/ \E i \in Identity, e \in Token : OnServerShutdown(e, i, now)
       \/ \E f \in Fact : ObserveCandidateFact(f, now)
       \/ PromoteCandidate(now)
       \/ \E e \in Token : DisconnectEpoch(e, now)
  BY DEF Next
<1>1. CASE AdvanceTime(now)
  BY <1>1, AdvanceTimeStep
<1>2. ASSUME NEW i \in Identity, StartDueCandidate(i, now) PROVE StepGood
  BY <1>2, StartCandidateStep DEF StartDueCandidate
<1>3. ASSUME NEW i \in Identity, CloseDraining(i, now) PROVE StepGood
  BY <1>3, CloseDrainingStep
<1>4. ASSUME NEW i \in Identity, NEW e \in Token, OnServerShutdown(e, i, now) PROVE StepGood
  BY <1>4, StartCandidateStep DEF OnServerShutdown
<1>5. ASSUME NEW f \in Fact, ObserveCandidateFact(f, now) PROVE StepGood
  BY <1>5, ObserveCandidateFactStep
<1>6. CASE PromoteCandidate(now)
  BY <1>6, PromoteCandidateStep
<1>7. ASSUME NEW e \in Token, DisconnectEpoch(e, now) PROVE StepGood
  BY <1>7, DisconnectEpochStep
<1> QED
  BY <1>1, <1>2, <1>3, <1>4, <1>5, <1>6, <1>7

LEMMA StutterInv == Inv /\ UNCHANGED vars => Inv'
  BY Zenon DEF Inv, vars, clocks, life, TypeOK, StateMatchesRoles, EpochsUnambiguous,
         ActiveFullyProven, EvidenceOrdered, RecoveryScheduled, AgeBounded, Held

(* All invariants of the raw generation supervisor hold in every reachable  *)
(* state, for every configuration, identity set and sequence of readings.   *)
THEOREM Invariance == Spec => []Inv
<1>1. Init => Inv
  BY InitInv
<1>2. Inv /\ [Next]_vars => Inv'
  BY NextGood, StutterInv DEF StepGood
<1> QED
  BY <1>1, <1>2, PTL DEF Spec

(* The published state always names the generations that exist.             *)
THEOREM StateFollowsRoles == Spec => []StateMatchesRoles
<1>1. Inv => StateMatchesRoles
  BY DEF Inv
<1> QED
  BY <1>1, Invariance, PTL

(* A disconnect, fact or close never finds two generations for one token.   *)
THEOREM EpochsNameOneGeneration == Spec => []EpochsUnambiguous
<1>1. Inv => EpochsUnambiguous
  BY DEF Inv
<1> QED
  BY <1>1, Invariance, PTL

(* Only a generation with complete continuity evidence is ever active.      *)
THEOREM PromotionNeedsProof == Spec => []ActiveFullyProven
<1>1. Inv => ActiveFullyProven
  BY DEF Inv
<1> QED
  BY <1>1, Invariance, PTL

(* After a gap recovery is always under way or due within backoff_max.      *)
THEOREM RecoveryNeverForgotten == Spec => []RecoveryScheduled
<1>1. Inv => RecoveryScheduled
  BY DEF Inv
<1> QED
  BY <1>1, Invariance, PTL

(* No call leaves an active generation past its hard deadline.              *)
THEOREM HardDeadlineEnforced == Spec => []AgeBounded
<1>1. Inv => AgeBounded
  BY DEF Inv
<1> QED
  BY <1>1, Invariance, PTL

(* Every loss of the active generation is counted, once, and nothing else   *)
(* is.                                                                      *)
THEOREM GapsAreCounted == Spec => EveryGapCounted
<1>1. Inv /\ [Next]_vars => [Counted]_vars
  BY NextGood DEF StepGood
<1>2. [][Counted]_vars => EveryGapCounted
  BY DEF Counted, EveryGapCounted
<1> QED
  BY <1>1, <1>2, Invariance, PTL DEF Spec

(* Identity tokens are never released and a finished generation never       *)
(* returns to a role.                                                       *)
THEOREM FinishedStaysFinished == Spec => NoResurrection
<1>1. Inv /\ [Next]_vars => [NotResurrected]_vars
  BY NextGood DEF StepGood
<1>2. [][NotResurrected]_vars => NoResurrection
  BY DEF NotResurrected, NoResurrection
<1> QED
  BY <1>1, <1>2, Invariance, PTL DEF Spec
=============================================================================
