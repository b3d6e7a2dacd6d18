----------------------------- MODULE RawCampaign -----------------------------
(***************************************************************************)
(* One raw campaign: the process of rust/lob-replay/src/bin/               *)
(* raw_campaign.rs, which runs capture generations as child processes on   *)
(* absolute rotation slots, hands authority from one to the next through   *)
(* RawGenerationSupervisor, proves each handover in a thread, and commits  *)
(* campaign.json when every generation completed and every handover was    *)
(* proven.                                                                 *)
(*                                                                         *)
(* pc is the place in the main loop.  At "poll" the process reads its      *)
(* pipes and the children's exit statuses; time passes and children end    *)
(* only there, because nothing else the loop does reads them before the    *)
(* next poll; a proof may also finish in the pass that started it.  The    *)
(* other phases follow the order of the loop.                              *)
(*                                                                         *)
(* journal is the state of the verifier's fold over the records appended   *)
(* so far (CampaignLifecycle).                                             *)
(*                                                                         *)
(* A child's lines come in the groups the campaign tells apart: CONNECTED  *)
(* is PROCESS_STARTED and both TRANSPORT_CONNECTED, SNAPSHOT is            *)
(* SNAPSHOT_DURABLE and the first HEARTBEAT_DURABLE, ROOTS the two root    *)
(* SEGMENT_DURABLE.  Times are ticks of the campaign clock.                *)
(***************************************************************************)
EXTENDS GenerationSupervisor, Sequences, FiniteSetsExt

CONSTANTS
  Total, Rotation, Overlap,  \* overlap_s = segment_s
  Guard,                     \* handover_seal_guard_seconds(overlap_s)
  FinalTail,                 \* FINAL_HANDOVER_TAIL_S
  ProofDeadline,
  StartupGrace,              \* CAMPAIGN_STARTUP_GRACE_NS of the verifier
  Announcing,                \* generations whose server may announce a shutdown
  MaxGenerations,            \* bound on launches
  MaxTime                    \* bound on the clock

MaximumGeneration == Rotation + Overlap - Guard

ASSUME CampaignAssumption ==
  /\ MaxGenerations \in Nat \ {0} /\ Identity = 0..(MaxGenerations - 1)
  /\ {Total, Rotation, Overlap, FinalTail, ProofDeadline, StartupGrace, MaxTime} \subseteq Nat
  /\ Guard \in 1..(Overlap - 1) /\ Rotation % Overlap = 0 /\ Total >= Overlap
  /\ SegmentInterval = Overlap /\ PlannedRotationAge = Rotation
  /\ ActiveMaxAge > MaximumGeneration /\ CandidateTimeout > Overlap
  /\ Times = 0..MaxTime
  /\ None \notin {"OK", "FAIL", "COMPLETE", "FAILED"}

J == INSTANCE CampaignLifecycle WITH Gen <- Identity

VARIABLES
  clock,        \* origin.elapsed(), and now_ns of the pass
  pc,
  children,     \* generation index -> ChildState
  supervised,   \* the supervisor exists
  pendingCandidate, shutdownSource,  \* pending_server_shutdown_epoch
  nextSlot,
  proofStarted, \* predecessor -> when its proof thread started, None once it failed
  proofRx,      \* completions in the channel: <<predecessor, ok>>
  proven,       \* keys of handover_proofs
  failure,
  journal

loop == <<pendingCandidate, shutdownSource, nextSlot, proofStarted, proofRx, proven>>
cvars == <<vars, clock, pc, children, supervised, loop, failure, journal>>

Running == pc \notin {"committed", "failed", "aborted"}
Known == DOMAIN children

(* launch_generation.  proc is the operating system's view of the process,  *)
(* exit what try_wait returned.                                             *)
NewChild(g, duration) ==
  [launch |-> clock, duration |-> duration, proc |-> "RUN", ended |-> None,
   seen |-> {}, terminal |-> None, exit |-> None, journaled |-> FALSE,
   registered |-> g = 0, reported |-> FALSE, requests |-> 0, unpromoted |-> FALSE]

(* A further generation in the map of children.                             *)
WithChild(known, n, duration) ==
  [g \in DOMAIN known \union {n} |-> IF g = n THEN NewChild(n, duration) ELSE known[g]]

Connected(c) == "CONNECTED" \in c.seen
LivePrefixReady(c) == {"CONNECTED", "SNAPSHOT", "ROOTS"} \subseteq c.seen
TerminalComplete(c) == c.exit = "OK" /\ c.terminal = "COMPLETE"

Shorter(a, b) == IF a <= b THEN a ELSE b
Longer(a, b) == IF a >= b THEN a ELSE b

FirstDuration == Shorter(Total, MaximumGeneration)

CInit ==
  /\ origin = 0 /\ lastMono = 0 /\ segment = 0
  /\ active = None /\ candidate = None /\ draining = {} /\ used = {}
  /\ state = "LIVE" /\ pending = None /\ notBefore = None /\ attempt = 0 /\ gapCount = 0
  /\ clock = 0 /\ pc = "poll" /\ supervised = FALSE
  /\ children = [g \in {0} |-> NewChild(0, FirstDuration)]
  /\ pendingCandidate = None /\ shutdownSource = None /\ nextSlot = 1
  /\ proofStarted = <<>> /\ proofRx = <<>> /\ proven = {}
  /\ failure = FALSE
  /\ journal = J!Launched(J!Start, 0)

-----------------------------------------------------------------------------
(* The world: the clock, the children's processes, and the proof threads.   *)
(* A tick is longer than a pass, HEARTBEAT_DEADLINE, the two seconds an     *)
(* exit may wait for its terminal line, FAILURE_STOP_GRACE and the time a   *)
(* capture needs to end.                                                    *)
Tick ==
  /\ pc = "poll" /\ clock < MaxTime /\ ~failure
  /\ supervised /\ lastMono = clock
  /\ \A g \in Known : IF children[g].proc = "RUN"
                      THEN /\ "SNAPSHOT" \in children[g].seen
                           /\ clock <= children[g].launch + children[g].duration
                      ELSE TerminalComplete(children[g])
  /\ clock' = clock + 1
  /\ UNCHANGED <<vars, pc, children, supervised, loop, failure, journal>>

EndedAs(c, status) == [c EXCEPT !.proc = status, !.ended = clock]

(* A capture runs for the time it was asked to; a stopped or broken one     *)
(* ends with a failure status.                                              *)
ChildEnds(g, status) ==
  /\ pc = "poll" /\ children[g].proc = "RUN"
  /\ status = "OK" => clock >= children[g].launch + children[g].duration
  /\ children' = [children EXCEPT ![g] = EndedAs(children[g], status)]
  /\ UNCHANGED <<vars, clock, pc, supervised, loop, failure, journal>>

(* prove_raw_generation_handover can only succeed on captures that          *)
(* overlapped: the successor was connected before the predecessor ended.    *)
Overlapped(p) == children[p + 1].launch < children[p].ended

ProofFinishes(p, ok) ==
  /\ pc \in {"poll", "prove"} /\ p \in DOMAIN proofStarted
  /\ proofStarted[p] # None /\ p \notin proven /\ \A k \in 1..Len(proofRx) : proofRx[k][1] # p
  /\ ok => Overlapped(p)
  /\ proofRx' = Append(proofRx, <<p, ok>>)
  /\ UNCHANGED <<vars, clock, pc, children, supervised, pendingCandidate, shutdownSource,
                 nextSlot, proofStarted, proven, failure, journal>>

-----------------------------------------------------------------------------
(* Poll.                                                                    *)

Fail(yes) == failure' = (failure \/ yes)

(* The lines a capture sends, in the order handle_stdout_event requires:    *)
(* root segments seal after segment_s, the terminal event comes with the    *)
(* end.                                                                     *)
MaySend(g, line) ==
  LET c == children[g] IN
  CASE line = "CONNECTED" -> TRUE
    [] line = "SNAPSHOT" -> Connected(c)
    [] line = "ROOTS" -> "SNAPSHOT" \in c.seen /\ clock >= c.launch + Overlap
    [] line = "SHUTDOWN" -> g \in Announcing /\ Connected(c)
    [] line = "COMPLETE" -> "ROOTS" \in c.seen /\ clock >= c.launch + c.duration
    [] line = "FAILED" -> Connected(c) /\ c.proc = "FAIL"

Handled(c, line) ==
  [c EXCEPT !.seen = @ \union {line},
            !.requests = @ + (IF line = "SHUTDOWN" THEN 1 ELSE 0)]

Ended(c, g, line) ==
  [c EXCEPT !.terminal = line, !.unpromoted = g # 0 /\ g - 1 \notin proven]

Journaled(g, line) ==
  CASE line = "CONNECTED" -> J!ProcessStarted(journal, g, clock)
    [] line \in {"COMPLETE", "FAILED"} ->
         J!ProcessTerminal(journal, g, line = "COMPLETE", clock)
    [] line = "SHUTDOWN" -> J!ServerShutdownDurable(journal, g)
    [] OTHER -> J!ChildLine(journal, g)

DrainLine(g, line) ==
  /\ pc = "poll"
  /\ children[g].terminal = None /\ line \notin children[g].seen /\ MaySend(g, line)
  /\ journal' = Journaled(g, line)
  /\ children' = [children EXCEPT ![g] = IF line \in {"COMPLETE", "FAILED"}
                                         THEN Ended(children[g], g, line)
                                         ELSE Handled(children[g], line)]
  /\ UNCHANGED <<vars, clock, pc, supervised, loop, failure>>

(* What fails a child at this place: a line handle_stdout_event refuses, no *)
(* durable heartbeat for HEARTBEAT_DEADLINE, an exit that stays without     *)
(* COMPLETE evidence.                                                       *)
Faulty(g) ==
  /\ pc = "poll" /\ ~failure /\ ~TerminalComplete(children[g])
  /\ children[g].exit = None => children[g].proc = "RUN"
  /\ Fail(TRUE)
  /\ UNCHANGED <<vars, clock, pc, children, supervised, loop, journal>>

-----------------------------------------------------------------------------
(* After the pipes, the start of a pass: try_wait on every child, and       *)
(* GENERATION_EXITED once its terminal line is known; the supervisor is     *)
(* created for generation 0; and a warmed generation becomes the pending    *)
(* candidate when there is none.                                            *)
ExitSeen(c) == IF c.proc = "RUN" THEN None ELSE c.proc
\* Mutant: the exit is journaled before the terminal line is known.
ExitDueAtOnce == {g \in Known : ~children[g].journaled /\ ExitSeen(children[g]) # None}
ExitDue == {g \in Known : LET c == children[g] IN
              /\ ~c.journaled /\ ExitSeen(c) # None
              /\ c.terminal # None \/ ExitSeen(c) = "FAIL"}

ExitsJournaled ==
  FoldSet(LAMBDA g, v : J!GenerationExited(v, g, children[g].proc = "OK", clock), journal, ExitDue)

Unregistered == {g \in Known : ~children[g].registered}

Waited(c, due) == [c EXCEPT !.exit = ExitSeen(c), !.journaled = @ \/ due]

BeginPass ==
  /\ pc = "poll"
  /\ pc' = "shutdowns"
  /\ children' = [g \in Known |-> Waited(children[g], g \in ExitDue)]
  /\ Fail(\E g \in Known : children[g].exit = None /\ children[g].proc = "FAIL")
  /\ pendingCandidate' = IF pendingCandidate = None /\ Unregistered # {}
                         THEN Min(Unregistered) ELSE pendingCandidate
  /\ IF ~supervised /\ Connected(children[0])
     THEN /\ supervised' = TRUE
          /\ active' = [id |-> 0, opened |-> children[0].launch, facts |-> Fact]
          /\ used' = TokensOf(0)
          /\ journal' = J!InitialActiveRegistered(ExitsJournaled)
          /\ UNCHANGED <<clocks, candidate, draining, state, pending, notBefore, attempt, gapCount>>
     ELSE UNCHANGED <<vars, supervised>> /\ journal' = ExitsJournaled
  /\ UNCHANGED <<clock, shutdownSource, nextSlot, proofStarted, proofRx, proven>>

Stopped ==
  [g \in Known |-> IF children[g].proc = "RUN" THEN EndedAs(children[g], "FAIL")
                                               ELSE children[g]]

(* The returns with Err inside the loop: no CAMPAIGN_FAILED record, and     *)
(* dropping the children kills them.                                        *)
Abort ==
  /\ pc' = "aborted"
  /\ children' = Stopped
  /\ UNCHANGED <<vars, clock, supervised, loop, failure, journal>>

(* candidate_duration_seconds.                                              *)
CandidateDuration ==
  LET remaining == Longer(Total - clock, 0)
  IN  IF remaining >= Overlap THEN Shorter(remaining, MaximumGeneration) ELSE None

Answered(c) == [c EXCEPT !.requests = @ - 1]

(* One pending serverShutdown request.                                      *)
ShutdownRequest(g) ==
  LET n == Cardinality(Known)
      taken == [children EXCEPT ![g] = Answered(children[g])]
  IN
  /\ pc = "shutdowns" /\ children[g].requests > 0
  /\ \A h \in Known : children[h].requests > 0 => g <= h
  /\ IF ~(supervised /\ active # None /\ active.id = g)
     THEN /\ journal' = J!ShutdownIgnored(journal, g)
          /\ children' = taken /\ UNCHANGED <<pendingCandidate, shutdownSource, failure>>
     ELSE IF pendingCandidate # None \/ candidate # None
     THEN /\ journal' = J!ShutdownAlreadyPending(journal, g)
          /\ children' = taken /\ UNCHANGED <<pendingCandidate, shutdownSource, failure>>
     ELSE IF failure
     THEN children' = taken /\ UNCHANGED <<journal, pendingCandidate, shutdownSource, failure>>
     ELSE IF CandidateDuration = None
     THEN /\ Fail(TRUE)
          /\ children' = taken /\ UNCHANGED <<journal, pendingCandidate, shutdownSource>>
     ELSE /\ n \in Identity
          /\ children' = WithChild(taken, n, CandidateDuration)
          /\ pendingCandidate' = n /\ shutdownSource' = DepthOf(g)
          /\ journal' = J!LaunchedServerShutdown(journal, n, g)
          /\ UNCHANGED failure
  /\ UNCHANGED <<vars, clock, pc, supervised, nextSlot, proofStarted, proofRx, proven>>

-----------------------------------------------------------------------------
(* Registration of the pending candidate with the supervisor, and the facts *)
(* it has shown so far.                                                     *)
FactsOf(c) ==
  {"DEPTH_CONNECTED", "TRADE_CONNECTED"}
  \union (IF "SNAPSHOT" \in c.seen THEN {"SNAPSHOT_PERSISTED"} ELSE {})
  \union (IF "ROOTS" \in c.seen THEN {"DEPTH_DURABLE", "TRADE_DURABLE"} ELSE {})

Registered(c) == [c EXCEPT !.registered = TRUE]

RegistrationDue(g) ==
  /\ supervised /\ g \in Unregistered /\ Connected(children[g])
  /\ \/ shutdownSource # None
     \/ active # None /\ clock - active.opened >= Rotation

(* on_server_shutdown or start_due_candidate.                               *)
StartAccepted(s) ==
  /\ s.candidate = None
  /\ IF shutdownSource # None THEN s.active # None /\ shutdownSource \in EpochsOf(s.active.id)
                              ELSE RequestIn(s, clock) # None

Candidate ==
  LET g == pendingCandidate
      s == AfterTime(clock)
      fresh == FactsOf(children[g])
  IN
  /\ pc = "shutdowns" /\ \A h \in Known : children[h].requests = 0
  /\ IF g # None /\ RegistrationDue(g)
     THEN IF StartAccepted(s) /\ Fresh(g)
          THEN /\ Clock(clock)
               /\ Becomes([Started(s, g, clock) EXCEPT !.candidate.facts = fresh])
               /\ used' = used \union TokensOf(g)
               /\ children' = [children EXCEPT ![g] = Registered(children[g])]
               /\ journal' = J!CandidateRegistered(journal, g)
               /\ pc' = "disconnects"
               /\ UNCHANGED <<draining, clock, supervised, loop, failure>>
          ELSE Abort
     ELSE IF g # None /\ supervised /\ children[g].registered /\ candidate # None
             /\ ~(fresh \subseteq candidate.facts)
     THEN IF s.candidate = None THEN Abort
          ELSE /\ Clock(clock)
               /\ Becomes([s EXCEPT !.candidate.facts = @ \union fresh])
               /\ pc' = "disconnects"
               /\ UNCHANGED <<draining, used, clock, children, supervised, loop, failure,
                              journal>>
     ELSE /\ pc' = "disconnects"
          /\ UNCHANGED <<vars, clock, children, supervised, loop, failure, journal>>

(* A child that exited with a failure disconnects its epoch.                *)
ToReport == {g \in Known : /\ supervised /\ ~children[g].reported
                           /\ children[g].exit = "FAIL"
                           /\ Connected(children[g])}

Reported(c) == [c EXCEPT !.reported = TRUE]

Disconnect(g) ==
  /\ pc = "disconnects" /\ g \in ToReport
  /\ DisconnectEpoch(DepthOf(g), clock)
  /\ children' = [children EXCEPT ![g] = Reported(children[g])]
  /\ journal' = J!Reject(journal)
  /\ UNCHANGED <<clock, pc, supervised, loop, failure>>

-----------------------------------------------------------------------------
(* planned_candidate: a slot's absolute start, and how long to capture.     *)
SlotStart(slot) == slot * Rotation

\* Mutant: a final slot with exactly one overlap left is skipped.
PlannedDurationStrict(slot) ==
  IF Total - SlotStart(slot) <= Overlap THEN None
  ELSE Shorter(Total - SlotStart(slot), MaximumGeneration)
PlannedDuration(slot) ==
  LET remaining == Total - SlotStart(slot)
      final == Longer(Total - SlotStart(slot + 1), 0) < Overlap
  IN  IF remaining < Overlap THEN None
      ELSE Shorter(IF final THEN Longer(remaining, Overlap + FinalTail) ELSE remaining,
                   MaximumGeneration)

(* advance_time, then the launch of a planned generation on its slot.       *)
ReachedDeadline(s) ==
  \/ active # None /\ s.active = None
  \/ candidate # None /\ s.candidate = None

LaunchWindowLost(slot) == clock >= SlotStart(slot) + Overlap
WarmSlotOccupied == Unregistered # {}

Plan ==
  LET s == AfterTime(clock)
      n == Cardinality(Known)
      planned == ~failure /\ ~(supervised /\ ReachedDeadline(s))
                 /\ PlannedDuration(nextSlot) # None
      launch == planned /\ ~LaunchWindowLost(nextSlot) /\ clock >= SlotStart(nextSlot) /\ ~WarmSlotOccupied
  IN
  /\ pc = "disconnects" /\ ToReport = {}
  /\ pc' = "prove"
  /\ IF supervised THEN Clock(clock) /\ Becomes(s) /\ UNCHANGED <<draining, used>>
                   ELSE UNCHANGED vars
  /\ Fail(\/ supervised /\ ReachedDeadline(s)
          \/ planned /\ LaunchWindowLost(nextSlot)
          \/ planned /\ clock >= SlotStart(nextSlot) /\ WarmSlotOccupied)
  /\ IF launch
     THEN /\ n \in Identity
          /\ children' = WithChild(children, n, PlannedDuration(nextSlot))
          /\ pendingCandidate' = IF pendingCandidate = None THEN n ELSE pendingCandidate
          /\ nextSlot' = nextSlot + 1
          /\ journal' = J!Launched(journal, n)
     ELSE UNCHANGED <<children, pendingCandidate, nextSlot, journal>>
  /\ UNCHANGED <<clock, supervised, shutdownSource, proofStarted, proofRx, proven>>

-----------------------------------------------------------------------------
(* A handover is proven in a thread of its own once the predecessor is      *)
(* terminal and the successor's live prefix is durable.                     *)
Provable ==
  {p \in Known : /\ p + 1 \in Known /\ p \notin DOMAIN proofStarted
                 /\ TerminalComplete(children[p]) /\ LivePrefixReady(children[p + 1])}

StartProof(p) ==
  /\ pc = "prove" /\ p \in Provable /\ \A q \in Provable : p <= q
  /\ proofStarted' = [q \in DOMAIN proofStarted \union {p} |->
                      IF q = p THEN clock ELSE proofStarted[q]]
  /\ journal' = J!HandoverProofStarted(journal, p)
  /\ UNCHANGED <<vars, clock, pc, children, supervised, pendingCandidate, shutdownSource,
                 nextSlot, proofRx, proven, failure>>

(* A valid proof is shown to the supervisor, which promotes its candidate;  *)
(* a candidate that is not the proof's successor ends the campaign.         *)
Continuity == {"DEPTH_CONTINUITY_PROVEN", "TRADE_CONTINUITY_PROVEN"}

\* Mutant: whatever candidate is pending is promoted.
PromotesAnyCandidate(s, p) ==
  /\ s.candidate # None
  /\ \A f \in Continuity : Accepts(f, s.candidate.facts)
  /\ IsReady([s.candidate EXCEPT !.facts = @ \union Continuity])
Promotes(s, p) ==
  /\ s.candidate # None
  /\ \A f \in Continuity : Accepts(f, s.candidate.facts)
  /\ IsReady([s.candidate EXCEPT !.facts = @ \union Continuity])
  /\ s.candidate.id = p + 1

Complete ==
  LET p == Head(proofRx)[1]
      s == AfterTime(clock)
  IN
  /\ pc = "prove" /\ Provable = {} /\ proofRx # <<>>
  /\ IF ~Head(proofRx)[2]
     THEN /\ Fail(TRUE) /\ proofRx' = Tail(proofRx)
          /\ proofStarted' = [proofStarted EXCEPT ![p] = None]
          /\ UNCHANGED <<vars, clock, pc, children, supervised, pendingCandidate,
                         shutdownSource, nextSlot, proven, journal>>
     ELSE IF Promotes(s, p)
     THEN /\ Clock(clock)
          /\ Becomes([s EXCEPT !.active = [s.candidate EXCEPT !.facts = @ \union Continuity],
                               !.candidate = None, !.state = "LIVE",
                               !.pending = None, !.notBefore = None, !.attempt = 0])
          /\ proofRx' = Tail(proofRx) /\ proven' = proven \union {p}
          /\ pendingCandidate' = None /\ shutdownSource' = None
          /\ journal' = J!HandoverPromoted(journal, p)
          /\ UNCHANGED <<draining, used, clock, pc, children, supervised, nextSlot,
                         proofStarted, failure>>
     ELSE Abort

(* The end of a pass: proof deadlines and the conditions that leave the     *)
(* loop.  A failure is first made durable (CAMPAIGN_FAILED), once; then     *)
(* every child is asked to stop and killed after the grace.  The passes go  *)
(* on until all of them have exited: they still register, disconnect, start *)
(* proofs and promote, but launch nothing.                                  *)
\* Mutant: the loop ends without waiting for the proofs.
HandoversCompleteUnproven == TRUE
HandoversComplete == Cardinality(proven) = Cardinality(Known) - 1

ProofOverdue ==
  \E p \in DOMAIN proofStarted \ proven :
    proofStarted[p] # None /\ clock - proofStarted[p] > ProofDeadline

FailureRecorded(v) == J!Reject(v)

EndPass ==
  LET fails == failure \/ ProofOverdue
      exited == \A g \in Known : children[g].exit # None
      completed == \A g \in Known : TerminalComplete(children[g]) /\ children[g].journaled
  IN
  /\ pc = "prove" /\ Provable = {} /\ proofRx = <<>>
  /\ failure' = fails
  /\ journal' = IF fails THEN FailureRecorded(journal) ELSE journal
  /\ children' = IF fails THEN Stopped ELSE children
  /\ pc' = IF fails THEN (IF exited THEN "failed" ELSE "poll")
           ELSE IF completed /\ HandoversComplete /\ clock >= Total THEN "evaluate" ELSE "poll"
  /\ UNCHANGED <<vars, clock, supervised, loop>>

-----------------------------------------------------------------------------
(* The terminal evaluation reverifies every generation and handover (sound  *)
(* says they verify); then the prepared record, campaign.json, and the      *)
(* record that commits it.                                                  *)
Evaluate(sound) ==
  /\ pc = "evaluate"
  /\ IF sound /\ gapCount = 0 /\ HandoversComplete
     THEN pc' = "precommit" /\ journal' = J!EvaluationPrepared(journal)
     ELSE pc' = "failed" /\ journal' = J!Reject(journal)
  /\ UNCHANGED <<vars, clock, children, supervised, loop, failure>>

Commit ==
  /\ pc = "precommit"
  /\ pc' = "committed"
  /\ journal' = J!CampaignCommitted(journal)
  /\ UNCHANGED <<vars, clock, children, supervised, loop, failure>>

-----------------------------------------------------------------------------
Line == {"CONNECTED", "SNAPSHOT", "ROOTS", "SHUTDOWN", "COMPLETE", "FAILED"}

Pass ==
  \/ BeginPass \/ Candidate \/ Plan \/ Complete \/ EndPass \/ Commit
  \/ \E g \in Known : ShutdownRequest(g) \/ Disconnect(g) \/ StartProof(g)
  \/ \E sound \in BOOLEAN : Evaluate(sound)

World ==
  \/ \E g \in Known : Faulty(g)
  \/ \E g \in Known, status \in {"OK", "FAIL"} : ChildEnds(g, status)
  \/ \E p \in DOMAIN proofStarted, ok \in BOOLEAN : ProofFinishes(p, ok)

Poll == \E g \in Known, line \in Line : DrainLine(g, line)

CNext == Tick \/ World \/ Poll \/ Pass

(* The loop makes its passes as long as it runs; and while nothing failed,  *)
(* time, the children and their pipes never stop all at once.               *)
Progress ==
  \/ Tick
  \/ \E g \in Known : ChildEnds(g, "OK") \/ \E line \in Line : DrainLine(g, line)

CSpec ==
  /\ CInit /\ [][CNext]_cvars
  /\ []<>~Running \/ []<><<Pass>>_cvars
  /\ []<>(~Running \/ failure \/ clock = MaxTime) \/ []<><<Progress>>_cvars

-----------------------------------------------------------------------------
(* A committed campaign captured without a hole up to where its plan        *)
(* reaches.  planned_candidate plans no generation for a slot with less     *)
(* than one overlap left, and the generation before it stops Guard short of *)
(* that overlap: from there to the requested end, fewer than Guard seconds, *)
(* the code commits uncovered, and at every instant before it some          *)
(* generation was running.  Nothing is excepted unless the total leaves a   *)
(* remainder between Overlap - Guard and Overlap after that slot.           *)
Unplanned(t) == t >= SlotStart(nextSlot) + Overlap - Guard
CommittedMeansCovered ==
  pc = "committed" =>
    /\ Total - SlotStart(nextSlot) < Overlap
    /\ \A t \in 0..(Total - 1) :
         \/ \E g \in Known : children[g].launch <= t /\ t < children[g].ended
         \/ Unplanned(t)

(* Whatever order the proof threads finish in, and whatever was warmed or   *)
(* launched early, the active generation is the one the proven handovers    *)
(* lead to, and a candidate is the generation after it.                     *)
AuthorityIsProven ==
  /\ proven = 0..(Cardinality(proven) - 1)
  /\ active # None => active.id = Cardinality(proven)
  /\ candidate # None => candidate.id = Cardinality(proven) + 1

(* verify_raw_campaign accepts the lifecycle the campaign journaled, unless *)
(* a server announced a shutdown, a generation ended before it had been     *)
(* promoted, or the plan stops short of the requested end (above): such a   *)
(* campaign is committed and then refused.                                  *)
VerifierAgrees ==
  /\ pc = "committed" /\ ~Unplanned(Total - 1)
  /\ \A g \in Known : ~children[g].unpromoted /\ "SHUTDOWN" \notin children[g].seen
  => J!Accepts(journal, Cardinality(Known), [g \in Known |-> children[g].duration])

(* The campaign implements the transfer of authority: launched is the       *)
(* number of generations, holder the one the proven handovers lead to.      *)
Authority == INSTANCE AuthorityTransfer WITH
  launched <- Cardinality(Known),
  holder <- Cardinality(proven),
  outcome <- IF Running THEN "RUNNING" ELSE IF pc = "committed" THEN "COMPLETE" ELSE "ENDED"

ImplementsAuthority == Authority!Spec
=============================================================================
