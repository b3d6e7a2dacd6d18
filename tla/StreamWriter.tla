---------------------------- MODULE StreamWriter ----------------------------
(* One stream of a capture generation at the grain of single memory and      *)
(* file operations: producer_loop and writer_loop (bin/segmented_capture.rs) *)
(* with RawLogWriter (lib.rs), DurabilityProgressWriter                      *)
(* (durability_progress.rs) and RawSegmentManifestWriter (segment_chain.rs). *)
(* Two readers look on without a lock: the telemetry sampler of the same     *)
(* process (StreamHealthSnapshot::load), field by field, and the arbiter's   *)
(* StreamFollowState (bin/live_arbitration.rs), which reads the stream file  *)
(* by file through SegmentDurabilityFollower (durability_follower.rs) and    *)
(* the manifest.  The host may crash at any step.                            *)
(*                                                                           *)
(* The readers write nothing the stream or the other reader reads, so a      *)
(* behaviour has one of them: Init chooses.                                  *)
EXTENDS Integers, Sequences, FiniteSets, FiniteSetsExt

CONSTANTS
  GroupSync,     \* GROUP_SYNC_RECORDS
  SegmentTicks,  \* the segment duration, in clock ticks
  MaxFrames,     \* bound: frames received, by the reader that looks on
  MaxSamples,    \* bound: telemetry records before the terminal one
  MaxTime        \* bound: clock ticks

ASSUME StreamWriterAssumption ==
  /\ GroupSync \in Nat \ {0} /\ SegmentTicks \in Nat \ {0}
  /\ MaxFrames \in [{"sampler", "follower"} -> Nat] /\ MaxSamples \in Nat /\ MaxTime \in Nat

VARIABLES
  now,
  h,        \* the StreamHealth counters
  ppc, pframe,       \* producer: where it is, its frame's time and queue position
  chan,              \* the frame channel: receipt times
  wpc, via, wmono,   \* writer: where it is, what it syncs for, its frame's time
  acked,             \* latest_ack: records of the open segment, 0 when none
  raw,      \* raw segment files: records written, records synced, a partial one
  prog,     \* progress journals: ACK lines written, lines synced, a partial one
  man,      \* the segment manifest: records sealed, lines synced, a partial one
  up,       \* the host has not crashed
  reader,   \* which reader looks on
  spc, sample, samples,  \* sampler: its next field, its record, the records kept
  fol       \* follower: its segment, the records before it, its cursor in it

producer == <<ppc, pframe>>
writer == <<wpc, via, wmono, acked>>
files == <<raw, prog, man>>
readers == <<reader, spc, sample, samples, fol>>
vars == <<now, h, producer, chan, writer, files, up, readers>>

EmptyRaw == [written |-> 0, synced |-> 0, torn |-> FALSE]
EmptyLog == [lines |-> <<>>, synced |-> 0, torn |-> FALSE]

\* The fields in the order StreamHealthSnapshot::load reads them (queue_bytes
\* moves with queue_records, max_queue_age_ns is only ever raised).
Fields == <<"lastDurable", "durable", "market", "written", "socket", "received",
            "segment", "queue", "maxQueue", "lastSync", "maxSync">>
FieldSet == {Fields[i] : i \in DOMAIN Fields}
NoSample == [f \in FieldSet |-> 0]

NotFollowing ==
  [segment |-> 0, before |-> 0, bound |-> FALSE, read |-> 0, lines |-> 0, records |-> 0,
   poisoned |-> FALSE]

Init ==
  /\ now = 1 /\ up = TRUE
  /\ h = NoSample
  /\ ppc = "read" /\ pframe = [mono |-> 0, queued |-> 0] /\ chan = <<>>
  /\ wpc = "recv" /\ via = "none" /\ wmono = 0 /\ acked = 0
  /\ raw = <<EmptyRaw>> /\ prog = <<EmptyLog>> /\ man = EmptyLog
  /\ reader \in {"sampler", "follower"}
  /\ spc = 1 /\ sample = NoSample /\ samples = <<>>
  /\ fol = NotFollowing

Tick ==
  /\ up /\ now < MaxTime /\ wpc # "done"
  /\ now' = now + 1
  /\ UNCHANGED <<h, producer, chan, writer, files, up, readers>>

-----------------------------------------------------------------------------
(* producer_loop: one data message *)

PStep(from, to) == up /\ ppc = from /\ ppc' = to
pRest == <<now, writer, files, up, readers>>

\* last_socket_activity is stored as soon as the read returns.
NoteSocket ==
  /\ PStep("read", "count") /\ h["received"] < MaxFrames[reader]
  /\ pframe' = [pframe EXCEPT !.mono = now]
  /\ h' = [h EXCEPT !["socket"] = now]
  /\ UNCHANGED <<chan, pRest>>

\* The receipt is counted before the frame is queued.
CountReceipt ==
  /\ PStep("count", "enqueue")
  /\ h' = [h EXCEPT !["received"] = @ + 1]
  /\ UNCHANGED <<chan, pframe, pRest>>

CountQueued ==
  /\ PStep("enqueue", "peak")
  /\ h' = [h EXCEPT !["queue"] = @ + 1]
  /\ pframe' = [pframe EXCEPT !.queued = h["queue"] + 1]
  /\ UNCHANGED <<chan, pRest>>

NotePeak ==
  /\ PStep("peak", "send")
  /\ h' = [h EXCEPT !["maxQueue"] = Max({@, pframe.queued})]
  /\ UNCHANGED <<chan, pframe, pRest>>

Send ==
  /\ PStep("send", "read")
  /\ chan' = Append(chan, pframe.mono)
  /\ UNCHANGED <<h, pframe, pRest>>

\* The producer sees the stop flag and drops its sender.
Leave ==
  /\ PStep("read", "done") /\ h["received"] > 0
  /\ UNCHANGED <<h, pframe, chan, pRest>>

-----------------------------------------------------------------------------
(* writer_loop *)

Seg == Len(raw)
WStep(from, to) == up /\ wpc = from /\ wpc' = to
wRest == <<now, producer, up, readers>>
keep == <<via, wmono, acked>>

Take ==
  /\ WStep("recv", "dequeue") /\ chan # <<>>
  /\ wmono' = Head(chan) /\ chan' = Tail(chan)
  /\ UNCHANGED <<h, via, acked, files, wRest>>

\* The frame leaves the queue; past the open segment's window it seals first,
\* unless the boundary was skipped or the open segment is empty.
Desired == wmono \div SegmentTicks
Dequeue ==
  /\ h' = [h EXCEPT !["queue"] = @ - 1]
  /\ \/ /\ Desired < Seg
        /\ WStep("dequeue", "append") /\ via' = "none"
     \/ /\ Desired = Seg /\ raw[Seg].written > 0
        /\ WStep("dequeue", "sync") /\ via' = "boundary"
     \/ /\ Desired > Seg \/ (Desired = Seg /\ raw[Seg].written = 0)
        /\ WStep("dequeue", "failed") /\ UNCHANGED via
  /\ UNCHANGED <<chan, wmono, acked, files, wRest>>

\* RawLogWriter::append: the record's bytes reach the file, at first in part.
BeginRecord ==
  /\ WStep("append", "write")
  /\ raw' = [raw EXCEPT ![Seg].torn = TRUE]
  /\ UNCHANGED <<h, chan, keep, prog, man, wRest>>

\* The last record of a group is synced before append returns.
EndRecord ==
  /\ raw' = [raw EXCEPT ![Seg].written = @ + 1, ![Seg].torn = FALSE]
  /\ IF raw[Seg].written + 1 - raw[Seg].synced >= GroupSync
       THEN WStep("write", "sync") /\ via' = "group"
       ELSE WStep("write", "count") /\ UNCHANGED via
  /\ UNCHANGED <<h, chan, wmono, acked, prog, man, wRest>>

CountWritten ==
  /\ WStep("count", "market")
  /\ h' = [h EXCEPT !["written"] = @ + 1]
  /\ UNCHANGED <<chan, keep, files, wRest>>

NoteMarket ==
  /\ WStep("market", IF via = "group" THEN "ack" ELSE "recv")
  /\ h' = [h EXCEPT !["market"] = wmono]
  /\ UNCHANGED <<chan, keep, files, wRest>>

\* The idle branch and the end of the channel.
Idle ==
  /\ chan = <<>> /\ raw[Seg].written > raw[Seg].synced /\ ppc # "done"
  /\ WStep("recv", "sync") /\ via' = "idle"
  /\ UNCHANGED <<h, chan, wmono, acked, files, wRest>>
Drained ==
  /\ chan = <<>> /\ ppc = "done"
  /\ IF raw[Seg].written > 0 THEN WStep("recv", "sync") /\ via' = "end"
                             ELSE WStep("recv", "failed") /\ UNCHANGED via
  /\ UNCHANGED <<h, chan, wmono, acked, files, wRest>>

Finalizing == via \in {"boundary", "end"}

\* RawLogWriter::sync.
Sync ==
  /\ WStep("sync", CASE via = "group" -> "count" [] via = "idle" -> "ack"
                     [] OTHER -> "last")
  /\ raw' = [raw EXCEPT ![Seg].synced = raw[Seg].written]
  /\ UNCHANGED <<h, chan, keep, prog, man, wRest>>

\* Mutant: the same ACK is journaled again.
BeginAckAlways ==
  /\ WStep("ack", "line")
  /\ prog' = [prog EXCEPT ![Seg].torn = TRUE]
  /\ UNCHANGED <<h, chan, keep, raw, man, wRest>>

\* append_progress does nothing for an ACK it has already journaled.
BeginAck ==
  /\ IF acked = raw[Seg].written
       THEN WStep("ack", IF Finalizing THEN "seal" ELSE "last") /\ UNCHANGED prog
       ELSE /\ WStep("ack", "line")
            /\ prog' = [prog EXCEPT ![Seg].torn = TRUE]
  /\ UNCHANGED <<h, chan, keep, raw, man, wRest>>

EndAck ==
  /\ WStep("line", "ackSync")
  /\ prog' = [prog EXCEPT ![Seg].torn = FALSE,
                          ![Seg].lines = Append(@, raw[Seg].written)]
  /\ acked' = raw[Seg].written
  /\ UNCHANGED <<h, chan, via, wmono, raw, man, wRest>>

\* Mutant: the line is flushed, not synced.
SyncAckNothing ==
  /\ WStep("ackSync", "durable")
  /\ UNCHANGED <<h, chan, keep, files, wRest>>

SyncAck ==
  /\ WStep("ackSync", "durable")
  /\ prog' = [prog EXCEPT ![Seg].synced = Len(prog[Seg].lines)]
  /\ UNCHANGED <<h, chan, keep, raw, man, wRest>>

\* Frames of the segments already sealed.
Sealed == IF man.lines = <<>> THEN 0 ELSE man.lines[Len(man.lines)]

CountDurable ==
  /\ WStep("durable", "lastDurable")
  /\ h' = [h EXCEPT !["durable"] = Sealed + raw[Seg].written]
  /\ UNCHANGED <<chan, keep, files, wRest>>

NoteDurable ==
  /\ WStep("lastDurable", IF Finalizing THEN "seal" ELSE "last")
  /\ h' = [h EXCEPT !["lastDurable"] = now]
  /\ UNCHANGED <<chan, keep, files, wRest>>

\* The duration of the sync: finalize_segment stores it before the ACK, the
\* other callers after it.
NoteSync ==
  /\ WStep("last", "max")
  /\ \E d \in {1, 2} : h' = [h EXCEPT !["lastSync"] = d]
  /\ UNCHANGED <<chan, keep, files, wRest>>

NoteMaxSync ==
  /\ WStep("max", IF Finalizing THEN "ack" ELSE "recv")
  /\ h' = [h EXCEPT !["maxSync"] = Max({@, h["lastSync"]})]
  /\ UNCHANGED <<chan, keep, files, wRest>>

\* verify_and_seal_raw_segment holds for a file that ends with its last ACK;
\* append_verified writes the manifest record and syncs it.
BeginSeal ==
  /\ IF acked = raw[Seg].written /\ ~raw[Seg].torn
       THEN WStep("seal", "sealing") /\ man' = [man EXCEPT !.torn = TRUE]
       ELSE WStep("seal", "failed") /\ UNCHANGED man
  /\ UNCHANGED <<h, chan, keep, raw, prog, wRest>>

EndSeal ==
  /\ WStep("sealing", "sealed")
  /\ man' = [man EXCEPT !.torn = FALSE, !.lines = Append(@, Sealed + raw[Seg].written)]
  /\ UNCHANGED <<h, chan, keep, raw, prog, wRest>>

\* The segment is durable and announced; the frame that crossed the boundary
\* opens the next one.
SyncSeal ==
  /\ WStep("sealed", IF via = "end" THEN "done" ELSE "open")
  /\ man' = [man EXCEPT !.synced = Len(man.lines)]
  /\ UNCHANGED <<h, chan, keep, raw, prog, wRest>>

OpenSegment ==
  /\ WStep("open", "append")
  /\ h' = [h EXCEPT !["segment"] = @ + 1]
  /\ raw' = Append(raw, EmptyRaw) /\ prog' = Append(prog, EmptyLog)
  /\ acked' = 0 /\ via' = "none"
  /\ UNCHANGED <<chan, wmono, man, wRest>>

\* The error path drops the RawLogWriter, which syncs what it still holds.
DropWriter ==
  /\ WStep("failed", "done")
  /\ via' = "error"
  /\ raw' = [raw EXCEPT ![Seg].synced = raw[Seg].written]
  /\ UNCHANGED <<h, chan, wmono, acked, prog, man, wRest>>

-----------------------------------------------------------------------------
(* The host crashes: a file keeps what was synced, any part of what was      *)
(* written after it, and possibly a torn end.                                *)

Survivors(log) ==
  {[lines |-> SubSeq(log.lines, 1, k), synced |-> k, torn |-> t] :
     k \in log.synced..Len(log.lines),
     t \in {FALSE, log.torn \/ log.synced < Len(log.lines)}}

RawSurvivors(f) ==
  {[written |-> k, synced |-> k, torn |-> t] :
     k \in f.synced..f.written, t \in {FALSE, f.torn \/ f.synced < f.written}}

Crash ==
  /\ up /\ reader = "follower" /\ wpc # "done"
  /\ up' = FALSE
  /\ \E r \in RawSurvivors(raw[Seg]), p \in Survivors(prog[Seg]), m \in Survivors(man) :
       raw' = [raw EXCEPT ![Seg] = r] /\ prog' = [prog EXCEPT ![Seg] = p] /\ man' = m
  /\ fol' = NotFollowing
  /\ UNCHANGED <<now, h, producer, chan, writer, reader, spc, sample, samples>>

-----------------------------------------------------------------------------
(* The telemetry sampler *)

sRest == <<now, h, producer, chan, writer, files, up, reader, fol>>

\* Mutant: received and written are loaded before durable.
LoadFieldReversed ==
  /\ reader = "sampler" /\ spc <= Len(Fields)
  /\ spc = 1 => Len(samples) < MaxSamples /\ wpc # "done"
  /\ LET f == Fields[Len(Fields) + 1 - spc] IN sample' = [sample EXCEPT ![f] = h[f]]
  /\ spc' = spc + 1
  /\ UNCHANGED <<samples, sRest>>

\* One atomic load.
LoadField ==
  /\ reader = "sampler" /\ spc <= Len(Fields)
  /\ spc = 1 => Len(samples) < MaxSamples /\ wpc # "done"
  /\ sample' = [sample EXCEPT ![Fields[spc]] = h[Fields[spc]]]
  /\ spc' = spc + 1
  /\ UNCHANGED <<samples, sRest>>

\* The time is read after every field.
FinishSample ==
  /\ reader = "sampler" /\ spc > Len(Fields)
  /\ samples' = Append(samples, [of |-> sample, mono |-> now, terminal |-> FALSE])
  /\ spc' = 1 /\ sample' = NoSample
  /\ UNCHANGED sRest

\* The terminal record, after the threads were joined.
TerminalSample ==
  /\ reader = "sampler" /\ wpc = "done" /\ ppc = "done" /\ spc = 1
  /\ ~\E i \in DOMAIN samples : samples[i].terminal
  /\ samples' = Append(samples, [of |-> h, mono |-> now, terminal |-> TRUE])
  /\ UNCHANGED <<spc, sample, sRest>>

-----------------------------------------------------------------------------
(* The follower.  segment is the in-flight one, 0 before open; before counts *)
(* the records of the sealed ones; bound says that a                         *)
(* SegmentDurabilityFollower reads the in-flight one.                        *)

fRest == <<now, h, producer, chan, writer, files, up, reader, spc, sample, samples>>

\* scan_segment_manifest returns the entries before a partial one.
ManifestScan == [entries |-> man.lines, clean_eof |-> ~man.torn]

\* read_raw_records of a file that is being written fails on a partial record;
\* read_raw_record_range reads whole records up to a given one.
Readable(k) == raw[k].written > 0 /\ ~raw[k].torn
RangeReadable(k, n) == raw[k].written >= n

\* extend_in_flight takes the records up to n.
Extends(n) == n >= fol.records /\ RangeReadable(fol.segment, n)

\* StreamFollowState::open: the sealed segments are read once.
OpenStream ==
  /\ reader = "follower" /\ fol.segment = 0
  /\ fol' = [NotFollowing EXCEPT !.segment = Len(ManifestScan.entries) + 1, !.before = Sealed]
  /\ UNCHANGED fRest

\* Mutant: every segment is probed like the root.
BindProbesAlways ==
  /\ fol.segment \in 1..Seg /\ ~fol.bound /\ Readable(fol.segment)
  /\ fol' = [fol EXCEPT !.bound = TRUE]
  /\ UNCHANGED fRest

\* try_bind_follower: the segment's files exist.  The root segment is probed
\* for its identity; a failed probe fails open, and its caller tries again.
Bind ==
  /\ fol.segment \in 1..Seg /\ ~fol.bound
  /\ fol.segment = 1 => Readable(1)
  /\ fol' = [fol EXCEPT !.bound = TRUE]
  /\ UNCHANGED fRest

\* poll reads to the end of the journal; a line without its end stays buffered.
ReadTail ==
  /\ fol.bound /\ ~fol.poisoned
  /\ fol.read # Len(prog[fol.segment].lines)
  /\ fol' = IF Len(prog[fol.segment].lines) < fol.read
              THEN [fol EXCEPT !.poisoned = TRUE]
              ELSE [fol EXCEPT !.read = Len(prog[fol.segment].lines)]
  /\ UNCHANGED fRest

\* consume_complete_records and verify_ack_against_raw: the ACK advances, and
\* the raw file holds the records it covers, which extend_in_flight then takes.
VerifyLine ==
  /\ fol.bound /\ ~fol.poisoned /\ fol.lines < fol.read
  /\ LET ack == prog[fol.segment].lines[fol.lines + 1]
     IN fol' = IF ack # fol.records /\ Extends(ack)
                 THEN [fol EXCEPT !.lines = @ + 1, !.records = ack]
                 ELSE [fol EXCEPT !.poisoned = TRUE]
  /\ UNCHANGED fRest

\* refresh, once poll has returned: a clean manifest seals the segment.  What
\* the ACKs had not covered is taken, the segment must then end exactly at its
\* seal, and the next one is in flight.
Advance ==
  /\ fol.bound /\ ~fol.poisoned /\ fol.lines = fol.read
  /\ ManifestScan.clean_eof /\ fol.segment <= Len(ManifestScan.entries)
  /\ LET seal == ManifestScan.entries[fol.segment] - fol.before
     IN fol' = IF Extends(seal)
                 THEN [NotFollowing EXCEPT !.segment = fol.segment + 1,
                                           !.before = fol.before + seal]
                 ELSE [fol EXCEPT !.poisoned = TRUE]
  /\ UNCHANGED fRest

-----------------------------------------------------------------------------

Producer == NoteSocket \/ CountReceipt \/ CountQueued \/ NotePeak \/ Send \/ Leave

Writer ==
  \/ Take \/ Dequeue \/ BeginRecord \/ EndRecord \/ CountWritten \/ NoteMarket
  \/ Idle \/ Drained \/ Sync \/ BeginAck \/ EndAck \/ SyncAck \/ CountDurable
  \/ NoteDurable \/ NoteSync \/ NoteMaxSync \/ BeginSeal \/ EndSeal \/ SyncSeal
  \/ OpenSegment \/ DropWriter

Polled == Bind \/ ReadTail \/ VerifyLine \/ Advance

Follower == OpenStream \/ Polled

Next ==
  \/ Tick \/ Producer \/ Writer \/ Crash
  \/ LoadField \/ FinishSample \/ TerminalSample \/ Follower

Spec == Init /\ [][Next]_vars

\* A follower that is polled goes on being polled.
FairSpec == Spec /\ WF_vars(Polled)

-----------------------------------------------------------------------------
(* Properties *)

\* validate_telemetry_record: the check that would abort the capture.
Causal(r) ==
  /\ r.of["durable"] <= r.of["written"] /\ r.of["written"] <= r.of["received"]
  /\ r.of["market"] <= r.of["socket"] /\ r.of["socket"] <= r.mono
  /\ r.of["lastDurable"] <= r.mono

\* validate_telemetry: no counter goes back from one record to the next.
Lineage(old, r) ==
  /\ old.mono <= r.mono
  /\ \A f \in FieldSet \ {"lastDurable", "queue", "lastSync"} : old.of[f] <= r.of[f]

\* validate_telemetry: the last record agrees with the sealed files.
TerminalAgrees(r) ==
  /\ {r.of["received"], r.of["written"], r.of["durable"]} = {Sealed}
  /\ r.of["segment"] = Len(man.lines) - 1
  /\ r.of["queue"] = 0 /\ r.of["maxSync"] > 0

\* A record taken without a lock, while the producer and the writer move on
\* between any two of its loads, is causal and never goes back, and the last
\* record of a clean run agrees with the sealed segments: the capture is not
\* aborted by its own check, and the verifier's lineage and terminal checks
\* pass.
TelemetryIsCausal ==
  \A i \in DOMAIN samples :
    /\ Causal(samples[i])
    /\ i > 1 => Lineage(samples[i - 1], samples[i])
    /\ samples[i].terminal /\ via # "error" => TerminalAgrees(samples[i])

\* The bounds validate_telemetry also puts on every record: a gauge does not
\* exceed the maximum recorded with it.
TelemetryWithinMaxima ==
  \A i \in DOMAIN samples :
    /\ samples[i].of["queue"] <= samples[i].of["maxQueue"]
    /\ samples[i].of["lastSync"] <= samples[i].of["maxSync"]

\* The follower meets journals and manifest mid-write, between a write and its
\* sync, rotating to the next segment, or torn by a crash, and never takes any
\* of it for corruption; it counts every sealed record once, and an ACK it has
\* verified, synced or not, covers records that a sync of the raw file had
\* covered when the ACK was written, so the verified prefix survives a crash.
FollowerAcceptsWriter ==
  /\ ~fol.poisoned
  /\ fol.segment > 1 => fol.before = man.lines[fol.segment - 1]
  /\ fol.bound => fol.records <= raw[fol.segment].synced

\* What scan_durability_progress and freeze_durable_raw_prefix recover of a
\* segment.
Recovered(k) ==
  IF prog[k].lines = <<>> THEN 0 ELSE prog[k].lines[Len(prog[k].lines)]

\* After a crash at any step every journaled ACK is backed by raw records, the
\* manifest lists only segments whose journal ends at their seal, and the
\* recovered prefix holds every frame the counters had called durable.
CrashKeepsDurable ==
  ~up =>
    /\ \A k \in 1..Seg : Recovered(k) <= raw[k].written
    /\ \A k \in DOMAIN man.lines :
         man.lines[k] = Recovered(k) + (IF k = 1 THEN 0 ELSE man.lines[k - 1])
    /\ h["durable"] <= (IF Seg = 1 THEN 0 ELSE man.lines[Seg - 1]) + Recovered(Seg)

\* consumed_sealed_terminal, for a generation that says COMPLETE.
ConsumedSealedTerminal == fol.segment > Len(man.lines) /\ fol.before = Sealed

\* Once the writer is gone, by its own end or a crash, the follower comes to
\* the sealed terminal of a clean run, and otherwise to the last ACK of the
\* segment in flight; only a root segment that ends in a partial record, and
\* that no seal names, can never be bound.
FollowerCatchesUp ==
  (fol.segment > 0 /\ (wpc = "done" \/ ~up)) ~>
    \/ fol.segment = 0
    \/ IF up /\ via = "end" THEN ConsumedSealedTerminal
       ELSE \/ fol.segment > Seg
            \/ fol.segment = 1 /\ ~Readable(1)
            \/ fol.bound /\ fol.lines = Len(prog[fol.segment].lines)
=============================================================================
