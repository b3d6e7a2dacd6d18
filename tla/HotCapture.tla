----------------------------- MODULE HotCapture -----------------------------
(***************************************************************************)
(* The supervisor process of one symbol: the polling loop of               *)
(* rust/lob-replay/src/bin/hot_redundant_capture.rs driving the            *)
(* HotRedundancy state machine over two raw_campaign children, and the     *)
(* verifier of the artifact it commits (hot_redundancy_artifact.rs).       *)
(*                                                                         *)
(* The loop reads the clock once per iteration (nowNs) and uses that       *)
(* reading in every supervisor call of the iteration, while the deadline   *)
(* checks read the clock again: time, and the children, move between any   *)
(* two steps.  A `?` that returns Err ends the run: pc = "error", with     *)
(* the cause named.                                                        *)
(*                                                                         *)
(* A child is its observable life: the lines it printed (1 = a heartbeat   *)
(* naming its campaign, 2 = also the failure heartbeat, or the terminal    *)
(* path), the readiness facts and the failure record in its journal, its   *)
(* exit.  Times are in ticks of CHILD_OUTPUT_DRAIN.  The supervisor's own  *)
(* journal keeps the lane and gap records, the ones the verifier reads.    *)
(* Bounds: MaxLaunches lane runs, MaxClock ticks.                          *)
(***************************************************************************)
EXTENDS HotRedundancy, Sequences, FiniteSets

CONSTANTS Deadline, Grace, Overlap, Drain, MaxLaunches, MaxClock

ASSUME CaptureAssumption ==
  /\ Deadline \in Nat \ {0} /\ Overlap \in 1..Deadline
  /\ Grace \in Nat /\ Drain \in Nat
  /\ MaxClock \in Nat /\ MaxClock > Deadline + Grace /\ 0..MaxClock \subseteq Times
  /\ MaxLaunches \in Nat \ {0, 1} /\ Token = 1..MaxLaunches

VARIABLES
  pc,               \* the step of the loop
  clock, nowNs,     \* origin.elapsed(), and its value read in this iteration
  work,             \* lanes left in the step's own loop
  rt,               \* runtimes: lane -> LaneRuntime or Absent
  child,            \* lane -> the raw_campaign process last launched
  horizonClosed, launches, journal, results,
  artifact,         \* the committed supervisor-terminal.json, or NoArtifact
  cause             \* which `?` ended the run

supervisorVars == vars
loopVars == <<pc, nowNs, work, rt, horizonClosed, launches, journal, results, artifact, cause>>
captureVars == <<vars, loopVars, clock, child>>

Absent == [token |-> NoToken]
NoArtifact == [status |-> "NONE"]
NoChild == [life |-> "none", lines |-> 0, facts |-> FALSE, failed |-> FALSE, clean |-> FALSE]
NewChild == [NoChild EXCEPT !.life = "running"]
CleanExit == [life |-> "exited", lines |-> 2, facts |-> TRUE, failed |-> FALSE, clean |-> TRUE]

(* LaneRuntime as launch_lane returns it.                                   *)
Launched(t) == [token |-> t, lines |-> 0, ready |-> FALSE,
                exitSeen |-> None]

Runtimes == {l \in Lane : rt[l] # Absent}
Ordered(S) == IF "PRIMARY" \in S THEN "PRIMARY" ELSE "SHADOW"   \* CaptureLane::ALL

LaneRecord(e, l, t) == [event |-> e, lane |-> l, token |-> t]

(* The records record_transition appends for this supervisor step.          *)
\* Mutant: only openings are journaled.
GapRecordsOpenOnly ==
  IF nextGapId' # nextGapId
  THEN <<[event |-> "GAP_OPENED", gap |-> openGap', at |-> gaps'[openGap'].opened]>>
  ELSE <<>>
GapRecords ==
  IF nextGapId' # nextGapId
  THEN <<[event |-> "GAP_OPENED", gap |-> openGap', at |-> gaps'[openGap'].opened]>>
  ELSE IF openGap' # openGap
  THEN <<[event |-> "GAP_CLOSED", gap |-> openGap, at |-> gaps'[openGap].closed]>>
  ELSE <<>>

(* A run that ends drops its locals; LaneRuntime::drop kills and reaps the  *)
(* children that still run.                                                 *)
LoopDropped ==
  /\ rt' = [l \in Lane |-> Absent]
  /\ child' = [l \in Lane |-> NoChild]
  /\ work' = {} /\ nowNs' = 0

Fail(why) ==
  /\ pc' = "error"
  /\ cause' = why
  /\ LoopDropped
  /\ UNCHANGED <<horizonClosed, launches, journal, results, artifact>>

-----------------------------------------------------------------------------
CaptureInit ==
  /\ Init /\ lastMono = 0
  /\ pc = "launch" /\ clock = 0 /\ nowNs = 0
  /\ work = Lane
  /\ rt = [l \in Lane |-> Absent]
  /\ child = [l \in Lane |-> NoChild]
  /\ horizonClosed = FALSE
  /\ launches = 0
  /\ journal = <<>> /\ results = <<>>
  /\ artifact = NoArtifact
  /\ cause = "none"

(* start_lane, launch_lane and the LANE_LAUNCHED or LANE_RESTARTED record.  *)
LaunchUnder(l, now, e) ==
  LET t == launches + 1 IN
  /\ StartLane(l, t, now)
  /\ launches' = t
  /\ rt' = [rt EXCEPT ![l] = Launched(t)]
  /\ child' = [child EXCEPT ![l] = NewChild]
  /\ journal' = journal \o GapRecords \o <<LaneRecord(e, l, t)>>

(* The two lanes are started before the loop; launch_lane may fail (its     *)
(* executable changed, it cannot be spawned).                               *)
LaunchFirst ==
  /\ pc = "launch"
  /\ UNCHANGED clock
  /\ LET l == Ordered(work) IN
       \/ /\ LaunchUnder(l, clock, "LANE_LAUNCHED")
          /\ work' = work \ {l}
          /\ pc' = IF work = {l} THEN "drain" ELSE "launch"
          /\ UNCHANGED <<nowNs, horizonClosed, results, artifact, cause>>
       \/ StartLane(l, launches + 1, clock) /\ Fail("launch")

(* process_output refuses a line outside the child's contract: over-long,   *)
(* not JSON before the campaign is named, a heartbeat that does not         *)
(* validate or changes the campaign, an unexpected terminal path.  Only a   *)
(* lane with a runtime is listened to.                                      *)
OutputRefused == Runtimes # {} /\ Fail("output")

(* cursor.read_new refuses the journal of the campaign lane l has named: it *)
(* shrank, a record is over-long, not JSON, out of its hash chain, or names *)
(* a failure twice or a stream that does not exist.                         *)
JournalRefused(l) == l \in Runtimes /\ rt[l].lines >= 1 /\ Fail("journal")

(* try_recv until empty, then the clock reading of this iteration.          *)
DrainOutput ==
  /\ pc = "drain"
  /\ UNCHANGED <<supervisorVars, clock>>
  /\ \/ /\ rt' = [l \in Lane |-> IF l \in Runtimes
                                 THEN [rt[l] EXCEPT !.lines = child[l].lines] ELSE rt[l]]
        /\ nowNs' = clock
        /\ pc' = "horizon"
        /\ UNCHANGED <<child, work, horizonClosed, launches, journal, results, artifact, cause>>
     \/ OutputRefused

(* The capture horizon closes once, at the nominal deadline.                *)
CheckHorizon ==
  /\ pc = "horizon"
  /\ UNCHANGED clock
  /\ IF horizonClosed \/ clock < Deadline
     THEN /\ pc' = "scan" /\ work' = Lane
          /\ UNCHANGED <<supervisorVars, child, nowNs, rt, horizonClosed, launches, journal,
                         results, artifact, cause>>
     ELSE IF Deadline < lastMono
     THEN Fail("terminate") /\ UNCHANGED supervisorVars
     ELSE /\ Terminate(Deadline)
          /\ horizonClosed' = TRUE
          /\ pc' = "scan" /\ work' = Lane
          /\ UNCHANGED <<child, nowNs, rt, launches, journal, results, artifact, cause>>

(* cursor.read_new, possible once the campaign is named, finds every        *)
(* readiness fact and no failure in the child's journal.                    *)
BecomesReady(l) ==
  /\ rt[l].lines >= 1
  /\ ~rt[l].ready /\ child[l].facts /\ ~child[l].failed

ExitNoticed(l) == rt[l].exitSeen = None /\ child[l].life = "exited"

(* After the last lane: the lanes whose exit was seen a full drain interval *)
(* ago are complete.                                                        *)
NextScan(l) ==
  IF work = {l}
  THEN /\ pc' = "complete"
       /\ work' = {m \in Lane : /\ rt'[m] # Absent /\ rt'[m].exitSeen # None
                                /\ clock - rt'[m].exitSeen >= Drain}
  ELSE /\ pc' = "scan"
       /\ work' = work \ {l}

(* One lane's scan: its child's journal, then try_wait.  A child may write  *)
(* its last facts and exit between the two reads (stale).                   *)
ScanLane ==
  /\ pc = "scan"
  /\ UNCHANGED <<clock, horizonClosed, launches, results, artifact>>
  /\ LET l == Ordered(work)
         waited == IF ExitNoticed(l) THEN [rt EXCEPT ![l].exitSeen = clock] ELSE rt IN
       \/ /\ l \notin Runtimes
          /\ UNCHANGED <<supervisorVars, child, nowNs, rt, journal, cause>>
          /\ NextScan(l)
       \/ /\ l \in Runtimes
          /\ ~BecomesReady(l) \/ ExitNoticed(l)
          /\ rt' = waited
          /\ NextScan(l)
          /\ UNCHANGED <<supervisorVars, child, nowNs, journal, cause>>
       \/ /\ l \in Runtimes /\ BecomesReady(l)
          /\ MarkReady(l, rt[l].token, nowNs)
          /\ rt' = [waited EXCEPT ![l].ready = TRUE]
          /\ journal' = journal \o GapRecords \o <<LaneRecord("LANE_READY", l, rt[l].token)>>
          /\ NextScan(l)
          /\ UNCHANGED <<child, nowNs, cause>>
       \/ /\ l \in Runtimes /\ BecomesReady(l)
          /\ nowNs < lastMono \/ runToken[l] # rt[l].token \/ state[l] # "STARTING"
          /\ Fail(IF nowNs < lastMono THEN "clock" ELSE "ready")
          /\ UNCHANGED supervisorVars
       \/ JournalRefused(l) /\ UNCHANGED supervisorVars

(* Whether a finished lane run, of whose output n lines arrived, counts as  *)
(* a completed window.                                                      *)
Clean(l, n) == child[l].clean /\ rt[l].ready /\ ~child[l].failed /\ n = 2

(* LaneRunResultV1; digest: a failure_record_sha256 was reported.           *)
LaneRun(l, n) ==
  [lane |-> l, token |-> rt[l].token, ready |-> rt[l].ready,
   campaign |-> n >= 1, success |-> Clean(l, n),
   digest |-> child[l].failed /\ n = 2, manifest |-> child[l].clean]

(* One completed lane: its last output, its outcome to the supervisor       *)
(* unless the horizon is closed, the record and the result.                 *)
OutcomeIllegal(l, n) ==
  \/ nowNs < lastMono
  \/ runToken[l] # rt[l].token
  \/ state[l] \notin (IF Clean(l, n) THEN {"READY"} ELSE {"STARTING", "READY"})
\* Mutant: outcomes of the terminal drain are reported as well.
ReportsAlways == TRUE
ReportsOutcome == ~horizonClosed
CompleteLane ==
  /\ pc = "complete" /\ work # {}
  /\ UNCHANGED clock
  /\ LET l == Ordered(work)
         t == rt[l].token IN
     \/ (OutputRefused \/ JournalRefused(l)) /\ UNCHANGED supervisorVars
     \/ \E n \in rt[l].lines..child[l].lines :    \* what the readers delivered by now
          IF ReportsOutcome /\ OutcomeIllegal(l, n)
          THEN Fail("outcome") /\ UNCHANGED supervisorVars
          ELSE /\ \/ ~ReportsOutcome /\ UNCHANGED supervisorVars
                  \/ ReportsOutcome /\ Clean(l, n) /\ RetireLane(l, t, nowNs)
                  \/ ReportsOutcome /\ ~Clean(l, n) /\ FailLane(l, t, nowNs)
               /\ rt' = [rt EXCEPT ![l] = Absent]
               /\ child' = [child EXCEPT ![l] = NoChild]
               /\ results' = Append(results, LaneRun(l, n))
               /\ journal' = journal \o GapRecords \o
                    <<LaneRecord(IF Clean(l, n) THEN "LANE_WINDOW_COMPLETED"
                                                ELSE "LANE_FAILED", l, t)>>
               /\ work' = work \ {l}
               /\ UNCHANGED <<pc, nowNs, horizonClosed, launches, artifact, cause>>

(* restart_requests, asked only before the deadline.                        *)
RequestRestarts ==
  /\ pc = "complete" /\ work = {}
  /\ UNCHANGED clock
  /\ IF clock >= Deadline
     THEN /\ pc' = "advance"
          /\ UNCHANGED <<supervisorVars, child, nowNs, work, rt, horizonClosed, launches,
                         journal, results, artifact, cause>>
     ELSE IF nowNs < lastMono
     THEN Fail("clock") /\ UNCHANGED supervisorVars
     ELSE /\ ClockOnly(nowNs)
          /\ work' = RestartRequests(nowNs)
          /\ pc' = IF work' = {} THEN "advance" ELSE "restart"
          /\ UNCHANGED <<child, nowNs, rt, horizonClosed, launches, journal, results, artifact,
                         cause>>

(* One restart request: refused while the lane still has a runtime, skipped *)
(* when less than the overlap remains, else launched, which may fail.       *)
RestartLane ==
  /\ pc = "restart"
  /\ UNCHANGED clock
  /\ LET l == Ordered(work)
         t == launches + 1
         next == IF work = {l} THEN "advance" ELSE "restart" IN
     IF rt[l] # Absent
     THEN Fail("restart_over_runtime") /\ UNCHANGED supervisorVars
     ELSE IF Deadline - clock < Overlap \/ launches = MaxLaunches
     THEN /\ work' = work \ {l} /\ pc' = next
          /\ UNCHANGED <<supervisorVars, child, nowNs, rt, horizonClosed, launches, journal,
                         results, artifact, cause>>
     ELSE IF nowNs < lastMono \/ ~CanStart(l, t, nowNs)
     THEN Fail("start") /\ UNCHANGED supervisorVars
     ELSE \/ /\ LaunchUnder(l, nowNs, "LANE_RESTARTED")
             /\ work' = work \ {l} /\ pc' = next
             /\ UNCHANGED <<nowNs, horizonClosed, results, artifact, cause>>
          \/ StartLane(l, t, nowNs) /\ Fail("launch")

\* Mutant: the loop waits for its lanes without limit.
GraceExceededNever == FALSE
GraceExceeded == clock > Deadline + Grace

(* advance_time, then leave the loop, give up after the grace, or sleep.    *)
FinishIteration ==
  /\ pc = "advance"
  /\ UNCHANGED clock
  /\ IF nowNs < lastMono
     THEN Fail("clock") /\ UNCHANGED supervisorVars
     ELSE
        /\ AdvanceTime(nowNs)
        /\ journal' = journal \o GapRecords
        /\ IF GraceExceeded /\ ~(clock >= Deadline /\ Runtimes = {})
           THEN pc' = "error" /\ cause' = "grace" /\ LoopDropped
           ELSE /\ pc' = IF clock >= Deadline /\ Runtimes = {} THEN "finish" ELSE "drain"
                /\ nowNs' = 0         \* read again in the next iteration
                /\ UNCHANGED <<child, work, rt, cause>>
        /\ UNCHANGED <<horizonClosed, launches, results, artifact>>

StatusOf(g) ==
  IF \E i \in DOMAIN g : g[i].closed = None THEN "COMPLETE_WITH_OPEN_GAP"
  ELSE IF DOMAIN g = {} THEN "COMPLETE_NO_DUAL_OUTAGE" ELSE "COMPLETE_WITH_EXPLICIT_GAPS"

(* After the loop: terminate unless the horizon did, then the terminal is   *)
(* written and committed.                                                   *)
Commit ==
  /\ pc = "finish"
  /\ UNCHANGED <<clock, child>>
  /\ IF horizonClosed THEN UNCHANGED supervisorVars ELSE Terminate(clock)
  /\ artifact' = [status |-> StatusOf(gaps), coverage |-> coverage', gaps |-> gaps,
                  runs |-> results]
  /\ pc' = "committed"
  /\ UNCHANGED <<nowNs, work, rt, horizonClosed, launches, journal, results, cause>>

-----------------------------------------------------------------------------
(* raw_campaign, as the supervisor sees it: it names its campaign, records  *)
(* its readiness facts or its failure, reports the failure, and exits,      *)
(* cleanly or not, at any point.  A step of a child is visible only to the  *)
(* loop's reads, so it is taken just before the read that may see it.       *)
ChildNames(l) ==
  /\ pc = "drain"
  /\ child[l].life = "running" /\ child[l].lines = 0
  /\ child' = [child EXCEPT ![l].lines = 1]
  /\ UNCHANGED <<supervisorVars, loopVars, clock>>

ChildStep(l) ==
  /\ pc = "scan" /\ l = Ordered(work) /\ l \in Runtimes
  /\ child[l].life = "running"
  /\ LET c == child[l] IN
       \/ c.lines = 1 /\ ~c.facts /\ ~c.failed /\ child' = [child EXCEPT ![l].facts = TRUE]
       \/ c.lines = 1 /\ ~c.failed /\ child' = [child EXCEPT ![l].failed = TRUE]
       \/ c.failed /\ c.lines = 1 /\ child' = [child EXCEPT ![l].lines = 2]
       \/ child' = [child EXCEPT ![l].life = "exited"]
       \/ /\ c.facts /\ ~c.failed /\ c.lines = 1
          /\ child' = [child EXCEPT ![l] = CleanExit]
  /\ UNCHANGED <<supervisorVars, loopVars, clock>>

(* Launching the first two lanes takes less than a tick.  The scan          *)
(* and the end of an iteration read no deadline that a tick just before     *)
(* them would not show as well.                                             *)
Tick ==
  /\ clock < MaxClock
  /\ pc \notin {"launch", "scan", "advance", "finish"}
  /\ clock' = clock + 1
  /\ UNCHANGED <<supervisorVars, loopVars, child>>

(* An append to its journal, its stdout or a poll of a child fails.         *)
IoFails ==
  /\ pc \notin {"committed", "error"}
  /\ Fail("io")
  /\ UNCHANGED <<supervisorVars, clock>>

LoopStep ==
  \/ LaunchFirst \/ DrainOutput \/ CheckHorizon \/ ScanLane \/ CompleteLane
  \/ RequestRestarts \/ RestartLane \/ FinishIteration \/ Commit

Running == pc \notin {"committed", "error"}
Ended == ~Running /\ UNCHANGED captureVars

CaptureNext == LoopStep \/ (Running /\ Tick) \/ (\E l \in Lane : ChildNames(l) \/ ChildStep(l))
               \/ IoFails \/ Ended

CaptureSpec == CaptureInit /\ [][CaptureNext]_captureVars

(* The loop is one thread that never blocks, so a running process keeps     *)
(* taking its steps, and time passes, up to the bound, whatever it does:    *)
(* WF(LoopStep) and SF(Running /\ Tick) with their ENABLED spelled out.      *)
FairCapture ==
  /\ CaptureSpec
  /\ []<>~Running \/ []<><<LoopStep>>_captureVars
  /\ []<>~Running \/ []<>(clock = MaxClock) \/ []<><<Tick>>_captureVars

-----------------------------------------------------------------------------
(* verify_hot_redundant_capture on the committed artifact and the journal.  *)
LaunchEvents == {"LANE_LAUNCHED", "LANE_RESTARTED"}
OutcomeEvents == {"LANE_FAILED", "LANE_WINDOW_COMPLETED"}
Events(E) == {i \in DOMAIN journal : journal[i].event \in E}
Of(E, t) == {i \in Events(E) : journal[i].token = t}

(* collect_lane_evidence: no duplicate launch, readiness or outcome, and    *)
(* nothing about a lane run before its launch.                              *)
CollectLaneEvidence ==
  \A i \in Events(LaunchEvents \union OutcomeEvents \union {"LANE_READY"}) :
    LET t == journal[i].token IN
      /\ \A E \in {LaunchEvents, OutcomeEvents, {"LANE_READY"}} : Cardinality(Of(E, t)) <= 1
      /\ \E k \in Of(LaunchEvents, t) : k <= i

(* validate_gaps: replaying the gap records yields the terminal's gaps.     *)
ValidateGaps ==
  LET opened == Events({"GAP_OPENED"})
      closed == Events({"GAP_CLOSED"})
      closing(g) == {i \in closed : journal[i].gap = g}
  IN  /\ \A i \in opened : journal[i].gap = Cardinality({k \in opened : k < i})
      /\ \A i \in closed : \E k \in opened : k < i /\ journal[k].gap = journal[i].gap
      /\ DOMAIN artifact.gaps = {journal[i].gap : i \in opened}
      /\ \A i \in opened :
           LET g == journal[i].gap IN
             /\ artifact.gaps[g].opened = journal[i].at
             /\ Cardinality(closing(g)) <= 1
             /\ artifact.gaps[g].closed = IF closing(g) = {} THEN None
                                          ELSE journal[CHOOSE k \in closing(g) : TRUE].at

(* One lane run against its records.  That it started within the total needs*)
(* no check here: a lane is launched with Overlap left, within a tick.      *)
VerifyLaneRun(r) ==
  LET ready == Of({"LANE_READY"}, r.token) # {} IN
  /\ \E i \in Of(LaunchEvents, r.token) : journal[i].lane = r.lane
  /\ r.ready = ready /\ r.campaign = ready /\ r.campaign
  /\ \E i \in Of(OutcomeEvents, r.token) :
       (journal[i].event = "LANE_WINDOW_COMPLETED") = r.success
  /\ IF r.success THEN r.ready /\ ~r.digest /\ r.manifest ELSE r.digest /\ ~r.manifest

VerifyHotRedundantCapture ==
  LET runs == artifact.runs
      tokens == {runs[i].token : i \in DOMAIN runs} IN
  /\ artifact.coverage = "TERMINAL" /\ artifact.status = StatusOf(artifact.gaps)
  /\ ValidateGaps
  /\ CollectLaneEvidence
  /\ Cardinality(tokens) = Len(runs)
  /\ \A i \in DOMAIN runs : VerifyLaneRun(runs[i])
  /\ tokens = {journal[i].token : i \in Events(LaunchEvents)}
  /\ \A l \in Lane : \E i \in DOMAIN runs : runs[i].lane = l /\ runs[i].success

-----------------------------------------------------------------------------
(* What ends a run from outside: a launch that fails, a line or a journal   *)
(* of a child outside its contract, a lane that outlives the grace, and the *)
(* process's own I/O.                                                       *)
OutsideErrors == {"launch", "output", "journal", "grace", "io"}

(* From inside, a run ends without a terminal artifact only after the       *)
(* horizon: for readiness that arrives then, or in the iteration in which   *)
(* the deadline passes between the clock reading and the deadline check.    *)
(* No call of the supervisor is refused otherwise: an illegal outcome,      *)
(* start, termination or restart over a running lane never ends a run.      *)
OnlyKnownErrors ==
  pc = "error" => \/ cause \in OutsideErrors
                  \/ cause \in {"ready", "clock"} /\ horizonClosed

(* The verifier accepts a committed artifact exactly when every lane run    *)
(* either completed or failed after readiness with its failure record       *)
(* reported and no manifest, and each lane completed a window: the gap and  *)
(* lane records of the journal never disagree with the terminal.            *)
AcceptedUnlessLossy ==
  pc = "committed" =>
    (VerifyHotRedundantCapture <=>
       /\ \A i \in DOMAIN results :
            results[i].success \/ (results[i].ready /\ results[i].digest /\ ~results[i].manifest)
       /\ \A l \in Lane : \E i \in DOMAIN results : results[i].lane = l /\ results[i].success)

(* Every run ends, committed or with an error, whatever its children do.    *)
RunEnds == <>(pc \in {"committed", "error"})
=============================================================================
