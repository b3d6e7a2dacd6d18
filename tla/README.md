# A TLA+ model of the capture and arbitration service

This directory holds a verification development for the repository: TLA+
modules translated from the source, TLC configurations that model-check them on
small instances, and TLAPS proofs for every value of the constants.
`PROJECT.json` ties each definition to the lines it models, each property to a
mutant of the code that breaks it, and each hazard to the properties about it.

Paths below are relative to `src/`; `lob-replay/` is `rust/lob-replay/src/`.

## 1. The system

The service captures a venue's depth and trade streams twice, on two independent
lanes, and publishes one canonical journal from both. Its own rule
(`docs/ARCHITECTURE.md:47`) is that every discontinuity is a typed GAP: the
state machines below exist to make that true.

```
 venue ── WebSocket session (transport.rs)
              │
        segmented_capture: producer, writer and main thread of one generation
              │  raw segments, progress journals, manifests
        raw_campaign: generations on rotation slots, a proof per handover
              │  (generation_supervisor.rs, generation_handover.rs)
        hot_redundant_capture: PRIMARY and SHADOW campaigns (hot_redundancy.rs)
              │  two durable raw logs
        live_arbitration: union of the trades, best depth book
              │
        canonical journal segments ── verifiers

 authority to publish: handover.rs, ownership.rs, live_rotation.rs
 an epoch change with both captures live: live_overlap_campaign
```

### Inventory

| part | state | operations | what makes it hard |
|---|---|---|---|
| hot redundancy supervisor, `lob-replay/hot_redundancy.rs` | per lane: state, token, failures, backoff, breaker; coverage and open gap | start, ready, retire, fail, advance, terminate | failing calls that already moved the clock or consumed a token; breaker against backoff |
| hot capture process and its verifier, `lob-replay/bin/hot_redundant_capture.rs`, `lob-replay/hot_redundancy_artifact.rs` | two child processes, journal, gap ledger, horizon | the polling loop; acceptance of its artifact | one stale clock reading per iteration, children that exit at any step |
| raw generation supervisor, `lob-replay/generation_supervisor.rs` | active, candidate, draining generations, retry schedule | start, observe fact, promote, disconnect, close, advance | deadlines processed inside every call, even refused ones |
| raw campaign and its verifier, `lob-replay/bin/raw_campaign.rs`, `lob-replay/campaign_artifact.rs` | children, registrations, proof threads, journal | the main loop; acceptance of its journal | exits, lines, proofs and slots in any order |
| segmented capture and its verifier, `lob-replay/bin/segmented_capture.rs`, `lob-replay/generation_artifact.rs` | stop flag, bounded channels, counters, files | producer, writer, supervision, terminal | threads that stop each other; syncs before announcements |
| raw log, progress journal, manifest, follower, `lob-replay/lib.rs`, `durability_progress.rs`, `segment_chain.rs`, `durability_follower.rs` | files and a reader's cursor | append, sync, seal, poll | readers without a lock; crashes between two files |
| generation handover proof, `lob-replay/generation_handover.rs`, `observations.rs` | two windows of records | derive, store, recompute | late, lost, altered frames; files still being written |
| handover controller, `lob-replay/handover.rs` | active, candidate, draining epochs, publication | observe, begin, promote, fail, close | failures of two epochs in either order |
| ownership ledger, pointer and coordinator, `lob-replay/ownership.rs`, `live_rotation.rs` | append-only file, writer, pointer, controller | prepare, activate, recover, accept | a stop, or an unsynced, torn or poisoned write, between any two steps |
| live overlap campaign, `lob-replay/bin/live_overlap_campaign.rs`, `boundary.rs`, `splice.rs`, `canonical_output.rs` | two captures, boundary journals, outputs | qualify, commit, activate, publish, tail, report | two durable prefixes that grow while they are compared |
| transport session, `lob-replay/transport.rs` | state, bounded sink, watchdog, control window | data, ping, pong, close, tick, drain | overflow, the sliding window of pongs |
| trade arbiter, `lob-replay/live_arbitration.rs`, `lob-replay/bin/live_arbitration.rs` | union buffer, cursors, clamps, identity log, journal chain | observe, drain, publish, correct, exclude, recover | crashes between two files, late trades, evicted identities, generations that overlap |
| depth arbiter, same files | bindings, candidates, position, pending frames | poll, publish, switch, gap, resume, drain | two lanes' books that agree only from some frame on |
| orchestrator, watchdog, canonical verifier | small | dispatch, check | not modelled yet |
| C++: SPSC ring, multicast feed, feed guard, FIX session, layered capture, `cpp/` | indices, cursors, gaps, stores | push, pop, frames, snapshots, resend, backfill | not modelled |
| Python, verifiers, replay, codecs, benchmarks, scripts | files | sequential recomputation | data rather than control |

## 2. Modules

A call that returns `Err` without an effect is not a step. A call that returns
`Err` after an effect is, with exactly that effect. Times are the caller's
monotonic readings, drawn from a finite set or counted in ticks.

**HotRedundancy** (`hot_redundancy.rs`). `StartLane`, `MarkReady`, `RetireLane`,
`FailLane`, `AdvanceTime`, `Terminate` are the methods of
`HotRedundancySupervisor`, `MarkReadyAgain` a repeated `mark_ready`; `ClockOnly`
is a call refused after `advance_clock`, and `StartRejected` a refused
`start_lane`, which still consumes its token. `RecomputeCoverage` is
`recompute_coverage` with the gap ledger that the caller's `record_transition`
keeps.

**HotCapture** (`bin/hot_redundant_capture.rs`, `hot_redundancy_artifact.rs`)
extends HotRedundancy with the polling loop, one action per step of an
iteration (`pc`), two `raw_campaign` children and real time. `nowNs` is the
reading taken at the top of the iteration; `clock` moves on meanwhile. Every
`?` of the loop is a way to the end of the run without an artifact (`Fail`, with
its cause): a refused call, a launch, a line of a child's output or of its
journal, a file. The locals are dropped there, and with them the children are
killed (`LoopDropped`). What a child prints is abstracted to the lines the loop
tells apart, so a refused line is a choice of the environment (`OutputRefused`,
`JournalRefused`).
`VerifyHotRedundantCapture` is the verifier, evaluated on committed artifacts.

**GenerationSupervisor** (`generation_supervisor.rs`). One action per public
call; every one starts with `AfterTime` (`advance_time`), whose effects persist
when the call then refuses.

**RawCampaign** (`bin/raw_campaign.rs`) extends GenerationSupervisor with the
process around it: `pc` is the place in the main loop, `BeginPass` and
`DrainLine` read exits and the children's lines, `Candidate` and `Plan` launch,
`StartProof`/`Evaluate` run and judge the handover proofs, `Complete`,
`EndPass`, `Commit` end the pass or the campaign. **CampaignLifecycle**
(`campaign_artifact.rs`) is the verifier's fold over the journal, one operator
per record; RawCampaign carries its state along. **AuthorityTransfer** is the
abstract promise: authority passes to the next generation only, and a campaign
ends. RawCampaign implements it (`ImplementsAuthority`).

**SegmentedCapture** (`bin/segmented_capture.rs`) is one generation: per stream
a producer and a writer thread and a bounded channel, with the main thread. A
step is one access to state that decides what another thread does.
**TransportJournal** gives the event grammar of `transport_journal.rs` and the
diagnosis of a sealed journal, **GenerationArtifact** the stream checks of
`generation_artifact.rs`. **StreamWriter** takes one stream apart into single
stores, writes and syncs, beside the telemetry sampler
(`StreamHealthSnapshot::load`, field by field) or the arbiter's
`StreamFollowState` over `SegmentDurabilityFollower`, with a crash at any step.

**OverlapEvidence** (`generation_handover.rs`, windows of `observations.rs`) is
the proof of a planned rotation: two captures whose sockets are late, lossy or
altered, the derivation, its storage, and the recomputation from the terminal
generations.

**Handover** (`handover.rs`). One action per method of `HandoverController`; a
book is an update id and a digest. A contradicting `observe_book` fails the
epoch and is a step although it returns `Err`.

**LiveRotation** (`live_rotation.rs`, `ownership.rs`) extends Handover.
`activate_committed` is `Prepare`, `Activate`, `Rescan`/`RescanFails`, each of
which may fail, with `Crash` possible between them; no other call interleaves
because the method holds `&mut self`. A failed append leaves the record absent,
torn or complete in the file.

**OverlapCampaign** (`bin/live_overlap_campaign.rs`, `boundary.rs`, `splice.rs`,
`canonical_output.rs`) extends LiveRotation with the campaign that uses it:
frozen durable prefixes of two captures, the boundary of each stream, the
ownership change, the outputs, the tail loop, the report, and a recovery of the
outputs. `SelectCanonical` is the offline splicer, the reference for what is
published.

**TransportLifecycle** is the abstract promise of a session: at most one
shutdown announcement, exactly one end. **Transport** (`transport.rs`) is the
session itself and implements it (`KeepsLifecycle`, an INSTANCE of the former).

**TradeUnion** (`live_arbitration.rs`) gives `TradeUnionState` as operators:
`Final` is the watermark, `Batch`/`Drained` what `drain` returns and leaves,
`KnownDigest` the lookup through corrections, cache and durable log.
**TradePublication** (`bin/live_arbitration.rs`) is the process around it: fresh
start, recovery with the identity rebuild, the walk over sealed history, live
feed, lag policy, publication through the identity log and the journal, stop
drain, terminal, and crashes. **TradeTails** is the same process over renewed
generations: binding, candidate, tail walkers, emission clamps and the stop
drain, with captures that open, stage, acknowledge and finish beside it.

**DepthArbiter** (`bin/live_arbitration.rs`, depth half): `Poll` publishes the
serving lane's frames, `Switch` resolves a generation change (continue, proven
switch through a sliced replay of the sibling, or gap and rebootstrap), `Drain`
is the stop; `StartFresh`, `Resume`, `Restart` and crashes after any record.
`Audited` follows the rules of `apply_audit_record`, `rec` is what a recovery
would read.

`MC*` modules instantiate these for TLC. `*Proofs` modules hold the theorems
(StreamTelemetry some of the lemmas).

## 3. Runs

| run | question | result |
|---|---|---|
| `hot_capture` | is an outage open exactly while both lanes are dark; which errors end a run; does the verifier accept what the loop commits; does the process end? | holds. `OnlyKnownErrors` names the four causes that end a run without an artifact; an artifact is refused exactly when a lane run was lossy. The gaps and the errors are proved as well |
| `raw_campaign` | does authority follow the proven handovers; does a commit cover the whole duration; does the verifier accept the journal; is a generation ever kept past its age; does the campaign implement AuthorityTransfer? | holds; proved as well but for the verifier and liveness |
| `segmented_capture` | is the terminal status earned, what is announced durable, does every sealed transport journal tell how its stream ended, and does the process end unless a `connect` never returns? | holds; announcements and journals proved as well |
| `stream_writer` | are lock-free samples causal; does the follower accept every file it meets and reach the end; does a crash keep what was called durable? | holds; the follower's safety and the crash proved as well |
| `overlap_evidence` | does a stored proof cover the handover, is it reproduced later unless the successor stopped verifying, and is an undisturbed handover provable? | holds |
| `live_rotation` | is authority durable before use; is a sequence number skipped or written by two owners; do pointer and controller agree? | holds; proved as well |
| `overlap_campaign` | are the outputs exact and backed by durable authority, do they agree with the offline selection, and does the campaign end? | holds |
| `transport` | is a frame ever lost silently; does a second ever carry more pongs than the venue admits; is the lifecycle implemented? | holds; proved as well |
| `trade_publication` | is a trade repeated, lost or misdescribed across crashes? | never repeated; lost or misdescribed only after a crash that tore the identity log (section 6) |
| `trade_tails` | is a trade skipped or lost while generations are renewed under the arbiter? | holds, but for the two losses `DrainRecordsEverything` names (section 6) |
| `depth_arbiter` | is the depth journal one its auditor accepts, never a splice of two books, recovered exactly, and complete at a stop; is a gap forced? | holds, with the exceptions that `JournalRecovers`, `TerminalReachesTrail` and `GapForcedOnceApplied` name (section 6) |
| `depth_terminal_omits` | does a committed stop reach the end of the serving generation? | violated, section 6 |

Each property of a passing run has a mutant in `PROJECT.json`: a plausible bug
in one mapped definition, under which TLC finds that property violated. The
mutated forms stand before their originals in the modules.

Some stated properties are in no run. `TypeOK`, `GapsDisjoint`, `OneProbe`,
`TokensDistinct`, `BoundedWait` and `LedgerAppendOnly` of HotRedundancy, the
properties of GenerationSupervisor other than `AgeBounded`,
`HandoverTypeOK`, `EpochsUsedOnce`, `BookNeverRegresses` and `PredecessorDrains`
of Handover, `RotationTypeOK`, `PositionAgrees` and `PromotionGuaranteed` of
LiveRotation are proved. `LiveMeansServing` (Handover), `StalePointerShut`
(LiveRotation), `TelemetryWithinMaxima` (StreamWriter), `TornTailNeverRead` and
`AnyExitRecovered` (TradePublication), `AuditAccepts` and `GapIsForced`
(DepthArbiter) state what the repository's text says and do not hold; section 6
says where.

## 4. Bounds, reductions and fairness

* *HotCapture*: three launches, so one restart; a horizon of two ticks, a clock
  of three, a bounded output drain. The breaker is off here (threshold 0; the
  process sets 5, `hot_redundant_capture.rs:892`): three launches cannot reach
  it, and HotRedundancy is proved for every threshold. Ticks and draining are
  offered only where the loop can tell the difference.
* *RawCampaign*: a duration of three rotations, so that the last generation is
  launched while the one before is unproven; four generations, one announced
  shutdown, proofs that fail or are late. The supervisor's age and timeouts are
  longer than a slot, as in the process. A tick is longer than the start-up and
  heartbeat deadlines, so a child that has not connected in the tick of its
  launch is one that fails there.
* *SegmentedCapture*: a channel of one frame, so that it overflows; two depth
  messages of either kind and one trade message, one segment boundary, a
  requested duration of two ticks, and one injected failure at any step. It
  also passes with three ticks and a clock that runs on (1.7 million states).
* *StreamWriter*: three frames for the follower, two for the sampler, whose
  records are kept; two segments; group syncs of two records.
* *OverlapEvidence*: rotation slots of four ticks, a freshness deadline of two,
  and two troubles anywhere (a late delivery, a lost or altered frame, an
  interleaved control frame, a damaged file): enough for a depth update of the
  successor to be lost, or a stream to fall silent, after the proof was stored.
* *LiveRotation*: three depth epochs, so that one rotation follows another, with
  a restart before, between and after. Epochs are symmetric. Epochs are used
  once, so a finite supply runs out and deadlock is not checked.
* *OverlapCampaign*: four cuts of a few depth updates and trades into frames
  (`MCContents`): frame ends that agree only sometimes, a serverShutdown, a hole,
  a skipped trade id.
* *Transport*: a second is two ticks and admits two pongs, so that bursts straddle
  two windows; a ping is due every three. A terminal session stops, so deadlock
  is not checked.
* *TradePublication*: three trade IDs, one disputed between the lanes, an
  identity cache of one entry so that eviction happens, two starts.
  `MCObservable` delays captures to the points where the arbiter can observe
  them; elsewhere they commute with its next step, a crash included. The process
  may die at every point. It also passes with three starts, so that a crash
  in a rebuild is followed by another (11.6 million states).
* *TradeTails*: three generations of the primary lane and three IDs in full, one
  of each for the shadow. Of the behaviours with a fourth generation and a fourth
  ID the run has those in which a candidate is overtaken (`MCFourthId`,
  `MCFourthGeneration`); with two trades to a generation and without those
  limits the properties hold as well (5.6 million states). Generations open and
  seal between the steps of a pass and during a drain. Assumed: a directory that
  appears after a pass resolved the newest is not bindable before that pass binds
  its candidate. (The shadow's bind comes after the wait for the primary's
  walkers; a generation bound that way and activated in the same pass would
  leave the one before it without a reader.)
* *DepthArbiter*: three frames, segments of one, two generations of the primary
  lane, a shadow whose book is the venue's at once or never, two starts. It
  also passes when the primary's books are either as well (2.2 million states),
  and with generations that are killed instead of sealed (`Kills = TRUE`, 6.6
  million states); the run leaves these out for their size.
* A crash is the death of the process: bytes written to a file survive it. In
  LiveRotation and OverlapCampaign a record whose sync failed may be absent,
  torn or complete; what a restart can read it treats as durable, as `recover`
  does. StreamWriter's crash is that of the host: what was not synced may be
  lost.
* `CHECK_DEADLOCK FALSE` is said where the process ends or a bound runs out.

*Fairness.* HotCapture: as long as it runs the loop keeps stepping (a thread
that never blocks) and time keeps passing; nothing is assumed
of the children, which may hang: the grace ends the run. RawCampaign: the loop
makes passes as long as it runs, and while nothing failed time, exits and lines
do not all stop: each poll waits for whichever comes. Both are written out as
`[]<>` of the step or of the end, which for these always enabled steps is what
`WF` says and spares TLC the evaluation of `ENABLED`. SegmentedCapture: each
thread that can take a step of its own does, and time passes. Nothing is
assumed of `connect`, which blocks without a timeout, as does the join that
waits for the producer (`segmented_capture.rs:918`, `2285`): `RunEnds` says that
the process ends unless a producer is still connecting. StreamWriter: a follower that is polled goes
on being polled. OverlapCampaign: the campaign steps, deadlines pass, captures
stop. No other run assumes fairness.

## 5. What is proved

TLAPS checks the following without any assumption but the named ones on the
constants: a valid configuration, clock readings that are naturals, absent
values that differ from present ones. Eight modules hold theorems: on the two
supervisors and the processes that drive them, the controller and the
composition that transfers authority, the session, one generation's capture, and
the files and the counters of one stream.

**HotRedundancyProofs.** `Inv`, the conjunction of the invariants and
`TerminalIsFinal`, is inductive (`Invariance`). `RecomputeGaps` carries the
argument: whatever a call did to the lanes, `recompute_coverage` opens a gap
exactly when the last ready lane is gone, closes it when one is back, and the
clock check keeps the intervals in order. None of typing, `GapIffDark` and
`GapsDisjoint` is inductive alone (a gap that is closed must be the open one, an
opened one must follow closed ones), so the lemma takes and gives the three
together. From it: `GapsExplicit`, `GapLedgerOrdered`, `BreakerAdmitsOneProbe`,
`WaitIsBounded`, `LedgerNeverRewritten`.

The same module proves the process of HotCapture, for every deadline, grace and
number of launches. `CaptureImplementsSupervisor` is a refinement: each step of
the loop is one call of the supervisor's specification, with an admissible
reading and token, or leaves the supervisor alone; so its theorems carry over
(`CaptureGapsExplicit`). `CaptureErrorsKnown` needs to know that no call is
refused. `LoopInv` says why: the stale reading `nowNs` lies between the
supervisor's clock and the real one and before the deadline (`TimeInv`), tokens
are numbered in order (`TokenInv`), a runtime and its lane agree on token and
readiness until the supervisor is terminal (`LaneInv`), and a restart still to
be made is one that `restart_requests` admitted at the same reading
(`RestartInv`). `OnlyKnownErrors` is not inductive without them: a child that
exits between two reads would be judged against a lane in any state.

**GenerationSupervisorProofs.** The checked invariants with `EvidenceOrdered`
are inductive (`Invariance`). The proof follows the code: `GoodLife` says what
`advance_time` must leave behind (`AfterTimeGood`), and each call's own step
preserves it. From it: `StateFollowsRoles`, `EpochsNameOneGeneration`,
`PromotionNeedsProof`, `RecoveryNeverForgotten`, `HardDeadlineEnforced`,
`GapsAreCounted`, `FinishedStaysFinished`.

**RawCampaignProofs** takes the campaign that drives that supervisor, for every
number of generations and all durations, rotations, overlaps and guards.
`CampaignInv` has these parts. The type numbers the generations in the order of
their launch, and the proven handovers without a jump, so that the holder of
authority is the number of proofs. `RolesInv` and `RegisteredInv` relate the
supervisor's roles to the children: the active generation is the holder, the
candidate the one after it and pending, nobody beyond it is registered. `LaunchInv`
and `ProofInv` say what an exit and a proof establish: a successful child ran
its duration, a proof that holds means that the next capture began before the
last one ended. `HeldInv`, up to the launch of the holder every second was
captured; `SlotInv`, the generation of the last slot taken was asked to reach
the end, or as far as a generation may. One lemma per action shows that it keeps
`CampaignInv` and takes a step of AuthorityTransfer or none. Theorems:
`CampaignInvariance`; `CampaignAuthority` (`AuthorityIsProven`), where the hard
case is a completed proof that arrives after a deadline has removed the candidate;
`CampaignDeadline` (`AgeBounded`, under the campaign's calls);
`CampaignTransfersAuthority`, the initial state and every step of the refinement
of AuthorityTransfer; `CommitCovers` (`CommittedMeansCovered`): the proofs chain
the captures up to the holder, at a commit the holder is the last generation, and
one of the generations runs as far as the plan. That is the requested end, or,
when less than one overlap remains after the last slot taken, `Guard` short of
that overlap: `CommittedMeansCovered` excepts exactly those last seconds, and holds
for every `total-s` the command line accepts. `FittingCommitCoversAll`: nothing is
excepted when what remains is not between overlap - guard and overlap
(`TotalFits`). The run's total is such a one; with `Overlap = 3`, `Rotation = 3`,
`Guard = 2`, `Total = 8` TLC meets the other case (section 6, item 9).
What a proof's verdict and a child's exit mean is taken from `ProofFinishes` and
`ChildEnds`, which model code outside the campaign.

**SegmentedCaptureProofs**, for every set of streams, queue bound, group size and
segment length and any number of frames, faults and ticks. `FilesInv` relates
each writer to its files: an acknowledgement covers synced records, so does
every seal, and each event, published or still queued, is backed by a seal or by
a synced and acknowledged record. `EventsAreDurable` (`AnnouncedIsDurable`)
follows; it is not inductive because an event is announced by the main thread
after the writer queued it. `EndInv` describes how producers and run end:
`JournalInv`, a producer's journal by the place it is in, and at its end the
records that tell how it ended; `CauseInv`, who raised the stop flag and what
the cause can be when a producer reads it. `JournalsTellTheEnd`
(`SealedJournalTellsTheEnd`) then needs what `Seals` and `Classification` say of
the sequences a producer can leave; these are the lemmas before `EndInv`.

**LiveRotationProofs.** First the controller: `HandoverInv` is the type, `PublicationSound`,
`EpochsUsedOnce` and `LiveHasBook` (an epoch that became live has a book).
`PublicationSound` is not inductive alone: a call names an epoch, and that it
means the slot it changes needs the slots' epochs distinct; that a promotion
finds a position needs `LiveHasBook`. The action properties
`BookNeverGoesBack` (the published book is monotone, promotions included) and
`PredecessorsDrain` follow from the same invariant.

Then the coordinator. `RotationInv` has four parts beside `HandoverInv`: the
type (an unpoisoned writer mirrors the ledger); `LedgerInv`, the ledger is a
sequence of grants each continuing the last one, synced to its end when no
pointer exists, and torn only behind a poisoned or lost writer; `LineageInv`,
every published token was granted by the synced part, tokens and writers are in
order, the position is what was published, nothing published is above the
pointer's owner and nothing below a granted boundary carries that grant's token;
`ActivationInv`, while `activate_committed` is between two steps the candidate
has converged, the proofs continue the pointer's owner, and the record to be
found is the one derived from them. The checked invariants are consequences;
none is inductive, because a restart rebuilds everything from the file: what a
new process may write depends on what `LedgerInv` and `LineageInv` say of the
records and of the past publications together. `AppendKeeps`, `LastRecord` and
`CoupledFacts` say what an append, failing or not, can leave; one lemma per
action (`PrepareInv`, `ActivateInv`, `RescanInv`, `AcceptInv`, `RecoverInv`,
`CrashInv` and the rest) carries the parts over. Theorems:
`PublishersAreDurableHolds`, `RecoveryNeverSkipsHolds`,
`OneWriterPerTokenHolds`, `AuthoritiesAgreeHolds`, `PublicationSoundInRotation`,
`PositionAgreesHolds`, `RotationTypeCorrect`, `PromotionIsGuaranteed`. The last
is the comment at `lob-replay/live_rotation.rs:120`: once all durable work is
done, the promotion cannot be refused.

**TransportProofs.** `Frames` (the sink holds exactly the frames received and
not drained, in order) is inductive: `FramesConservedHolds`. For
`ControlRateHolds` the window must be tied to the whole history: `PongInv` says
that it holds the last pongs sent, and that the others were a second old at the
last receipt. Sliding drops the least prefix after which the front is young
(`LeastElement`, from the well-foundedness of the naturals), so a pong that is
let through is a second later than the one `MaxControl` before it.
`TransportKeepsLifecycle` is the refinement of
TransportLifecycle: the initial state maps to an initial state and each action
to an abstract step or a stutter.

**StreamWriterProofs** (with **StreamTelemetry**, which has the invariants and the
counters). `StreamInv` relates the files of one stream to the
writer that fills them: `SegmentsInv`, every journal is increasing and covers
synced raw records only; `ManifestInv`, a sealed segment is synced and its
journal ends at its seal; `DurableInv`, the durable counter is at most what the
synced journal of the open segment and the seals before it cover; `ControlInv`,
what each place of the writer says of the open files (`wpc` at `ackSync` has the
raw file synced and the last line equal to it, between `sealed` and `open` the
manifest is one ahead); `FollowerInv`, the follower is at a segment not past the
next one to seal, at the base the seals give, and stands on a line of its
journal. A crash keeps any prefix from the synced one on, so `FollowerAcceptsWriter`
needs `SegmentsInv` for unsynced lines too: an ACK is written only after the sync
it names. `CrashKeepsDurable` needs `DurableInv` in terms of the synced part of
the journal. `TelemetryInv` is about the sampler, which loads eleven
counters one after the other while the producer and the writer move them.
`FlowInv` says where every received frame is (counted and not queued, queued,
taken, a record and not counted, counted) and what that makes of each counter;
`TimesInv`, that receipt times rise along that way; `PathInv`, what the end of a
segment has behind it. `Seen(i)` is what the record being taken will say of field
`i` if nothing moves before it is loaded: a load leaves `Seen` alone, and a step
of another thread raises it only for fields not yet loaded. So `SampleInv`, the
order of the loads (`durable`, `written`, `received`; `market`, `socket`) stated
on `Seen`, survives any steps between two loads, and `RecordsInv` compares the
last record with `Seen`. Theorems: `StreamInvariance`, `FollowerNeverPoisoned`,
`CrashKeepsWhatWasDurable`, `TelemetryInvariance`, `TelemetryNeverAborts`
(`TelemetryIsCausal`).

*Only model-checked.* Liveness (`RunEnds` twice, `CampaignEnds`,
`FollowerCatchesUp`, the fairness of `ImplementsAuthority`): temporal reasoning
under fairness is out of the prover's reach. OverlapEvidence and TradeTails
fold over records with recursive definitions, and TradePublication and
DepthArbiter state their properties over the concatenation of journal segments:
what a recursive definition computes for every input needs induction, which the
prover cannot do here. For the same reason `VerifierAgrees` of RawCampaign (a fold
over the journal), `AcceptedUnlessLossy` of HotCapture and `StatusIsEarned` of
SegmentedCapture (verifiers over selected subsequences and counts of a journal)
stay with TLC. OverlapCampaign has no proofs yet.

## 6. Disagreements between the code and its text

Found while modelling. The first is a run; the definitions named with the others
state them and fail when put in a configuration.

1. `lob-replay/bin/live_arbitration.rs:1593`: `gap_and_bootstrap_depth` looks
   for publishable frames in `pending_depth` only, so a sealed generation whose
   frames beyond the cursor all lie in its root segment becomes the binding
   without GAP and without its frames, and the stop commits. The comment
   (`:1582-1584`) says the boundary is skipped only when the stream holds no
   frame beyond the cursor. Run `depth_terminal_omits`.
2. `lob-replay/bin/live_arbitration.rs:2933`: a fresh start adopts the primary
   trail's last frame as its position without journaling it; a gap before the
   first depth record declares that frame, while the audit demands the
   journaled cursor (`lob-replay/live_arbitration.rs:1514`, `:1668`), so no
   resume can start. `AuditAccepts`; `JournalRecovers` excepts it.
3. `lob-replay/bin/live_arbitration.rs:2359`: a witness that matches with nothing
   applied after it yields no switch and no pending work, also when the replay
   stopped at its quota; the caller types a gap. The comment at `:2329` says a
   quota never authorizes one. `GapIsForced`.
4. `lob-replay/handover.rs:348`: a candidate's failure sets the publication to
   Live whatever the active epoch's state. After the active epoch failed (GAP),
   the candidate's failure reports LIVE over a FAILED epoch. The tests' names
   (`rust/lob-replay/tests/handover_faults.rs:59` and `:73`) say otherwise.
   `LiveMeansServing`.
5. `lob-replay/live_rotation.rs:104`: when the sync of the ACTIVATED record
   fails although the record reached the file, `?` leaves before the pointer is
   shut; the comment at `:105` says A's pointer must be unable to publish. The
   only caller in the tree ends its process on this error. `StalePointerShut`.
6. `lob-replay/live_arbitration.rs:279`: the identity log appends at the end of
   the file while its count comes from the header, so a crash between the two
   leaves a tail that is later counted; the comment at `:103` says a torn tail
   is never read as a record. `TornTailNeverRead`. From such a crash on (`torn`)
   only `PublishedOnce` holds; `NothingLost` and `CorrectionsAreTrue` except it,
   as an unpublished trade found in the tail passes for a duplicate.
7. `lob-replay/bin/live_arbitration.rs:2916`: a crash of the first start after
   it created the identity log, before its first journal record, makes each
   later start fail; `runbooks/CONTINUOUS_SERVICE.md:46` says any exit is
   recovered with `--resume`. `AnyExitRecovered`.
8. `lob-replay/bin/segmented_capture.rs:131`: the sampler loads `queue_records`
   before its maximum while the producer raises them in that order, so a sample
   may exceed its maximum and the verifier (`lob-replay/generation_artifact.rs`
   `:1070-1077`) refuses the generation; the comment at `:112-114` calls the
   order invariant-preserving. `TelemetryWithinMaxima`.
9. `lob-replay/bin/live_arbitration.rs:2236` and `:2291`: walkers are added only
   for generations after the newest one walked. A candidate g2 that stays while
   g3 is walked and g4 cannot be bound yet has no walker once g4 replaces it, and
   what it captures from then on is not read; the comment at `:3176-3179` says
   that its tail is preserved by a tail walker. `DrainRecordsEverything` excepts
   `overtaken`; without the exception the run finds the loss.
10. `lob-replay/bin/live_arbitration.rs:3642-3681`: whether the predecessor is
   drained is decided from the records loaded and from the seal on disk, so a
   seal after the refresh and before the check abandons records not loaded yet;
   the comment at `:3635-3641` says that activation waits for a stream fully
   drained. `DrainRecordsEverything` excepts them (`unseen`).
11. `lob-replay/bin/raw_campaign.rs:562`: a generation is capped at rotation +
   overlap - guard even when none follows, so a campaign whose last slot is
   longer than that commits uncovered, which `lob-replay/campaign_artifact.rs`
   refuses (`:1142`, test `:2511`). `CommittedMeansCovered` names the seconds
   left uncovered, fewer than the guard, and `VerifierAgrees` leaves such a total
   out.

Consequences of the code that its text does not speak of, or only in part:

* *Trades.* Walkers added in one pass are walked one after the other before the
  clamps are set, so that a younger one's trades may be published past an older
  one's head; the late ones become unknown corrections. No clamp covers a
  candidate, also when a younger generation is walked.
  `lane_emission_clamp` drops a binding's head once it is sealed on
  disk although its last records are unconsumed. The lag policy's `watermark()`
  ignores clamps. A non-serving lane with a sealed, drained binding is excluded
  in each pass, so its exclusive trades become unknown corrections.
* *Depth.* A resume continues a new generation's book by sequence number alone.
  A gap at a renewal can skip frames that the predecessor still holds. A killed
  serving generation is never sealed, and its lane waits. A non-serving lane
  does not rebind. GAP and DEPTH_REBOOTSTRAP on a live candidate may be the last
  records before a crash, with the boundary between them.
* *Handover.* Book observations are refused during a handover, so a rotation
  completes only if the active book stands still until the candidate reached it.
* *Transport.* Watchdog pings are outside the window that limits control frames.
* *Campaigns.* An early `?` return leaves no manifest and no CAMPAIGN_FAILED.
  A warmed child's shutdown announcement is refused as already pending.
  `prove_raw_generation_handover` accepts indices that are not consecutive; the
  recomputation does not. The depth proof fails when B's snapshot precedes A's
  terminal segment. A serverShutdown frame in a frozen prefix makes every later
  materialization of it fail. The live campaign activates a trade boundary that
  the offline splicer refuses when A's ids skip. A resume right after
  `change_owner` has no usable cursor. The wait for FINISH has no timeout.
* *Files.* A root segment that ends in a partial record and that no seal names
  can never be bound by the follower.

## 7. Not modelled, and the plan

Out of scope, because they are data rather than control: decimal arithmetic,
JSON and binary layouts, digests, offline replay and caches, benchmarks, Windows
observers, the Python second implementation and the scripts. `PROJECT.json`
gives the reason for each.

In order:

1. Proofs for DepthArbiter and TradePublication over journals as sequences, and
   for OverlapCampaign on top of `RotationInv`.
2. The orchestrator as a composition of TransportLifecycle and Handover; the
   progress watchdog.
3. The canonical journal verifier as the reference for the arbiter's output.
4. Components under `cpp/`: the SPSC ring, the multicast feed and feed guard over
   a network that loses, repeats and reorders, the FIX session, layered capture.
