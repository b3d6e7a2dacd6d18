-------------------------- MODULE SegmentedCapture --------------------------
(* One capture generation: the segmented_capture process                    *)
(* (bin/segmented_capture.rs).  Per stream a producer thread reads a        *)
(* WebSocket and hands frames to a writer thread over a bounded channel;    *)
(* the writer appends them to a chain of raw segments, acknowledges what is *)
(* durable, and publishes sealed segments.  The main thread connects,       *)
(* supervises, stops and joins the threads and writes the terminal          *)
(* manifest.                                                                *)
(*                                                                          *)
(* A step is one access to state that decides what another thread does (the *)
(* stop flag, the stop cause, a channel) with the thread-local work around  *)
(* it.  Module StreamWriter takes one stream apart, store by store, for the *)
(* telemetry sampler, the durability follower and crashes.                  *)
EXTENDS Integers, Sequences, FiniteSets, Functions, GenerationArtifact,
        TransportJournal

CONSTANTS
  Streams,       \* "depth" and "trade"
  QueueBound,    \* capacity of the frame channel (4096 in the code)
  GroupSync,     \* GROUP_SYNC_RECORDS
  SegmentTicks,  \* the segment duration, in clock ticks
  Duration,      \* the requested duration, in clock ticks
  Kinds,         \* bound: the kinds of data message a stream receives
  MaxFrames,     \* bound: data messages a stream receives
  MaxFaults,     \* bound: failures the environment injects
  MaxTime        \* bound: clock ticks

ASSUME SegmentedAssumption ==
  /\ QueueBound \in Nat \ {0} /\ GroupSync \in Nat \ {0}
  /\ SegmentTicks \in Nat \ {0} /\ Duration \in Nat \ {0}
  /\ SegmentTicks <= Duration
  /\ Kinds \in [Streams -> SUBSET {"market", "shutdown"}]
  /\ MaxFrames \in [Streams -> Nat]

VARIABLES
  faults,    \* failures injected so far
  now,       \* the process's monotonic clock; starts at 1 (0 is "never")
  stop,      \* the shared stop flag
  cause,     \* supervisor_stop: why the supervisor failed the run, if it did
  \* producer threads
  ppc,       \* where the producer is
  pend,      \* how it ended
  journal,   \* its transport journal, as a scan would find it
  flight,    \* the frame it has received and not yet queued
  \* shared between the threads
  chan,      \* the bounded channel of frames
  health,    \* the StreamHealth counters
  connq,     \* the connected channel: <<stream, ok>>
  evq,       \* writer events not yet drained
  \* writer threads
  wpc,       \* where the writer is
  held,      \* the frame it has received and not yet appended or announced
  acked,     \* latest_ack: the last acknowledgement in the current segment
  werr,      \* it ended with an error
  \* files
  raw,       \* the records of all raw segments, in order
  durable,   \* number of records of raw that a sync has covered
  acks,      \* the frame counts the progress journals acknowledge
  manifest,  \* the sealed segments: <<first, last>> frame counts
  \* main thread
  mpc, heard, artifacts, startupFailed, runtimeFailed, emitted, terminal

files == <<raw, durable, acks, manifest>>
producer == <<ppc, pend, journal, flight, connq>>
writer == <<wpc, held, acked, werr, evq>>
supervisor == <<mpc, heard, artifacts, startupFailed, runtimeFailed, emitted,
                terminal>>
vars == <<faults, now, stop, cause, producer, chan, health, writer, files, supervisor>>

None == [none |-> TRUE]
NoAck == 0

Init ==
  /\ faults = 0 /\ now = 1 /\ stop = FALSE /\ cause = "NONE"
  /\ ppc = [s \in Streams |-> "connect"]
  /\ pend = [s \in Streams |-> "OPEN"]
  /\ journal = [s \in Streams |-> <<>>]
  /\ flight = [s \in Streams |-> None]
  /\ chan = [s \in Streams |-> <<>>]
  /\ health = [s \in Streams |->
       [received |-> 0, written |-> 0, durable |-> 0, segment |-> 0,
        market |-> 0, queue |-> 0, shutdowns |-> 0]]
  /\ connq = <<>>
  /\ evq = [s \in Streams |-> <<>>]
  /\ wpc = [s \in Streams |-> "recv"]
  /\ held = [s \in Streams |-> None]
  /\ acked = [s \in Streams |-> NoAck]
  /\ werr = [s \in Streams |-> FALSE]
  /\ raw = [s \in Streams |-> <<>>]
  /\ durable = [s \in Streams |-> 0]
  /\ acks = [s \in Streams |-> {}]
  /\ manifest = [s \in Streams |-> <<>>]
  /\ mpc = "connect" /\ heard = 0 /\ artifacts = {}
  /\ startupFailed = FALSE /\ runtimeFailed = FALSE
  /\ emitted = [s \in Streams |-> <<>>]
  /\ terminal = "NONE"

\* The process is gone once the main thread has returned: its threads with it.
Running == terminal = "NONE"

\* A step that injects a failure.
Fault == faults < MaxFaults /\ faults' = faults + 1

Tick ==
  /\ Running /\ now < MaxTime
  /\ now' = now + 1
  /\ UNCHANGED <<faults, stop, cause, producer, chan, health, writer, files, supervisor>>

-----------------------------------------------------------------------------
(* producer_loop *)

\* Mutant: the terminal record follows without PRODUCER_FAILURE.
ProducerEndsUntold(s, how, records) ==
  /\ ppc' = [ppc EXCEPT ![s] = "done"]
  /\ pend' = [pend EXCEPT ![s] = how]
  /\ journal' = [journal EXCEPT ![s] =
       @ \o records \o <<IF how = "CLIENT_STOP" THEN "STOPPED" ELSE "FAILED">>]
  /\ IF how = "CLIENT_STOP"
       THEN UNCHANGED <<connq, stop>>
       ELSE connq' = Append(connq, <<s, FALSE>>) /\ stop' = TRUE

\* How producer_loop ends, the records of its last act journaled before.  Any
\* end but a clean client stop takes the error path: PRODUCER_FAILURE and a
\* FAILED terminal record are journaled, the failure is sent to the main thread
\* and the stop flag is raised.  The journal is sealed and the frame channel
\* loses its sender.
ProducerEnds(s, how, records) ==
  /\ ppc' = [ppc EXCEPT ![s] = "done"]
  /\ pend' = [pend EXCEPT ![s] = how]
  /\ IF how = "CLIENT_STOP"
       THEN /\ journal' = [journal EXCEPT ![s] = @ \o records \o <<"STOPPED">>]
            /\ UNCHANGED <<connq, stop>>
       ELSE /\ journal' = [journal EXCEPT ![s] =
                 @ \o records \o <<"PRODUCER_FAILURE", "FAILED">>]
            /\ connq' = Append(connq, <<s, FALSE>>)
            /\ stop' = TRUE

\* The records that precede the connection, whatever the lookup found.
Attempt == <<"CONNECT_ATTEMPT", "DNS_OBSERVED">>

\* A connection made after the supervisor failed the run is not announced.
ConnectSucceeds(s) ==
  /\ Running /\ ppc[s] = "connect"
  /\ IF cause # "NONE"
       THEN ProducerEnds(s, "SUPERVISOR_STOP", Append(Attempt, "SUPERVISOR_FAILURE_STOP"))
       ELSE /\ ppc' = [ppc EXCEPT ![s] = "read"]
            /\ connq' = Append(connq, <<s, TRUE>>)
            /\ journal' = [journal EXCEPT ![s] = Append(Attempt, "WEBSOCKET_CONNECTED")]
            /\ UNCHANGED <<pend, stop>>
  /\ UNCHANGED <<faults, now, cause, flight, chan, health, writer, files, supervisor>>

\* The connection fails, the upgrade is refused, or the socket cannot be set up.
ConnectFails(s) ==
  /\ Fault
  /\ Running /\ ppc[s] = "connect"
  /\ \E last \in {<<"CONNECT_FAILED">>, <<"WEBSOCKET_UPGRADE_REJECTED">>, <<>>} :
       ProducerEnds(s, "FAILED", Attempt \o last)
  /\ UNCHANGED <<now, cause, flight, chan, health, writer, files, supervisor>>

\* The read loop gives up: the pong or the transport deadline passed, the read
\* failed, the server closed, or an error left no record of its own.  The stop
\* flag may have gone up while the thread was in socket.read.  (Control frames
\* and timeouts that end nothing are journaled in the code; the grammar admits
\* them anywhere between the connection and the end, so they are left out.)
TransportFails(s) ==
  /\ Fault
  /\ Running /\ ppc[s] = "read"
  /\ \E last \in {<<"WATCHDOG_PING_SENT", "WATCHDOG_PONG_DEADLINE">>,
                   <<"READ_TIMEOUT", "TRANSPORT_DEADLINE">>,
                   <<"SOCKET_READ_ERROR">>, <<"WEBSOCKET_CLOSE">>, <<>>} :
       ProducerEnds(s, "FAILED", last)
  /\ UNCHANGED <<now, cause, flight, chan, health, writer, files, supervisor>>

\* socket.read returned a data message, its receipt time is taken, the stop
\* flag is still down: the receipt is counted.
ReceiveFrame(s, kind) ==
  /\ Running /\ ppc[s] = "read" /\ ~stop
  /\ health[s].received < MaxFrames[s]
  /\ health' = [health EXCEPT ![s].received = @ + 1]
  /\ flight' = [flight EXCEPT ![s] = [mono |-> now, kind |-> kind]]
  /\ ppc' = [ppc EXCEPT ![s] = "send"]
  /\ UNCHANGED <<faults, now, stop, cause, pend, journal, connq, chan, writer, files,
                 supervisor>>

\* try_send: the frame is queued, whatever the flag says by now, unless the
\* channel is full or the writer has dropped its end.
QueueFrame(s) ==
  /\ Running /\ ppc[s] = "send"
  /\ flight' = [flight EXCEPT ![s] = None]
  /\ IF wpc[s] # "done" /\ Len(chan[s]) < QueueBound
       THEN /\ chan' = [chan EXCEPT ![s] = Append(@, flight[s])]
            /\ health' = [health EXCEPT ![s].queue = @ + 1]
            /\ ppc' = [ppc EXCEPT ![s] = "read"]
            /\ UNCHANGED <<pend, journal, connq, stop>>
       ELSE /\ ProducerEnds(s, "FAILED", <<>>)
            /\ UNCHANGED <<chan, health>>
  /\ UNCHANGED <<faults, now, cause, writer, files, supervisor>>

\* The read loop sees the stop flag and then reads the supervisor's cause.
ObserveStop(s) ==
  /\ Running /\ ppc[s] = "read" /\ stop
  /\ IF cause # "NONE"
       THEN ProducerEnds(s, "SUPERVISOR_STOP", <<"SUPERVISOR_FAILURE_STOP">>)
       ELSE ProducerEnds(s, "CLIENT_STOP", <<"CLIENT_STOP_OBSERVED">>)
  /\ UNCHANGED <<faults, now, cause, flight, chan, health, writer, files, supervisor>>

Producer(s) ==
  \/ ConnectSucceeds(s) \/ ConnectFails(s) \/ TransportFails(s) \/ ObserveStop(s)
  \/ QueueFrame(s) \/ \E kind \in Kinds[s] : ReceiveFrame(s, kind)

-----------------------------------------------------------------------------
(* writer_loop *)

\* `pending`: records written that no sync has covered.
Pending(s) == durable[s] < Len(raw[s])

\* RawLogWriter::sync, then append_progress: the acknowledgement is journaled
\* and only then is the counter advanced.
SyncTo(s, through) ==
  /\ durable' = [durable EXCEPT ![s] = through]
  /\ acks' = [acks EXCEPT ![s] = @ \cup {through}]
  /\ acked' = [acked EXCEPT ![s] = through]

\* writer_loop returns an error: the flag goes up, and dropping the
\* RawLogWriter syncs what it holds unless its file failed.
WriterEnds(s) ==
  /\ wpc' = [wpc EXCEPT ![s] = "done"]
  /\ werr' = [werr EXCEPT ![s] = TRUE]
  /\ stop' = TRUE
  /\ durable' = [durable EXCEPT ![s] = Len(raw[s])]

\* An error of the raw file: it is poisoned and not synced again.
WriterFails(s) ==
  /\ Fault
  /\ Running /\ wpc[s] # "done"
  /\ wpc' = [wpc EXCEPT ![s] = "done"]
  /\ werr' = [werr EXCEPT ![s] = TRUE]
  /\ stop' = TRUE
  /\ UNCHANGED <<now, cause, producer, chan, health, held, acked, evq, files,
                 supervisor>>

\* The record is written, then counted; the group's last record and a
\* serverShutdown record are synced before anything else happens.
AppendFrame(s, frame) ==
  LET count == Len(raw[s]) + 1
      synced == count - durable[s] >= GroupSync \/ frame.kind = "shutdown"
  IN /\ raw' = [raw EXCEPT ![s] = Append(@, frame)]
     /\ IF synced THEN SyncTo(s, count) ELSE UNCHANGED <<durable, acks, acked>>
     /\ health' = [health EXCEPT
          ![s].queue = IF wpc[s] = "recv" THEN @ - 1 ELSE @,
          ![s].written = count,
          ![s].durable = IF synced THEN count ELSE @,
          ![s].market = IF frame.kind = "market" THEN frame.mono ELSE @]
     /\ wpc' = [wpc EXCEPT ![s] = IF frame.kind = "shutdown" THEN "announce"
                                  ELSE "recv"]
     /\ held' = [held EXCEPT ![s] = None]

\* Mutant: the boundary is never reached.
DesiredNever(s) == 0

\* The segment a frame belongs to, by its receipt time.
Desired(s) == Head(chan[s]).mono \div SegmentTicks

\* A frame of the open segment.
TakeFrame(s) ==
  /\ Running /\ wpc[s] = "recv" /\ chan[s] # <<>>
  /\ Desired(s) <= health[s].segment
  /\ chan' = [chan EXCEPT ![s] = Tail(@)]
  /\ AppendFrame(s, Head(chan[s]))
  /\ UNCHANGED <<faults, now, stop, cause, producer, werr, evq, manifest, supervisor>>

\* Mutant: the segment is published before its seal reaches the manifest.
TakeBoundaryPublishesFirst(s) ==
  /\ Running /\ wpc[s] = "recv" /\ chan[s] # <<>>
  /\ Desired(s) > health[s].segment
  /\ chan' = [chan EXCEPT ![s] = Tail(@)]
  /\ held' = [held EXCEPT ![s] = Head(chan[s])]
  /\ SyncTo(s, Len(raw[s]))
  /\ health' = [health EXCEPT ![s].queue = @ - 1, ![s].durable = Len(raw[s])]
  /\ wpc' = [wpc EXCEPT ![s] = "seal"]
  /\ evq' = [evq EXCEPT ![s] = Append(@, <<"SEGMENT", Len(manifest[s]) + 1>>)]
  /\ UNCHANGED <<faults, now, stop, cause, producer, werr, raw, manifest, supervisor>>

\* A frame past the open segment: only the next one may follow, and only a
\* segment with a record is left.  finalize_segment starts with the sync.
TakeBoundary(s) ==
  /\ Running /\ wpc[s] = "recv" /\ chan[s] # <<>>
  /\ Desired(s) > health[s].segment
  /\ chan' = [chan EXCEPT ![s] = Tail(@)]
  /\ IF Desired(s) = health[s].segment + 1 /\ (Pending(s) \/ acked[s] # NoAck)
       THEN /\ held' = [held EXCEPT ![s] = Head(chan[s])]
            /\ SyncTo(s, Len(raw[s]))
            /\ health' = [health EXCEPT ![s].queue = @ - 1,
                                        ![s].durable = Len(raw[s])]
            /\ wpc' = [wpc EXCEPT ![s] = "seal"]
            /\ UNCHANGED <<werr, stop>>
       ELSE /\ WriterEnds(s)
            /\ health' = [health EXCEPT ![s].queue = @ - 1]
            /\ UNCHANGED <<held, acks, acked>>
  /\ UNCHANGED <<faults, now, cause, producer, evq, raw, manifest, supervisor>>

\* The idle branch: nothing arrived for 100 ms and the last sync is old enough.
IdleSync(s) ==
  /\ Running /\ wpc[s] = "recv" /\ chan[s] = <<>> /\ ppc[s] # "done" /\ Pending(s)
  /\ SyncTo(s, Len(raw[s]))
  /\ health' = [health EXCEPT ![s].durable = Len(raw[s])]
  /\ UNCHANGED <<faults, now, stop, cause, producer, chan, wpc, held, werr, evq, raw,
                 manifest, supervisor>>

\* Mutant: the main thread keeps a sender of the frame channel.
DisconnectedNever(s) == FALSE /\ UNCHANGED vars

\* The producer is gone and the channel drained: the last segment is finalized,
\* or the "stream ended without a raw record".
Disconnected(s) ==
  /\ Running /\ wpc[s] = "recv" /\ chan[s] = <<>> /\ ppc[s] = "done"
  /\ IF Pending(s) \/ acked[s] # NoAck
       THEN /\ SyncTo(s, Len(raw[s]))
            /\ health' = [health EXCEPT ![s].durable = Len(raw[s])]
            /\ wpc' = [wpc EXCEPT ![s] = "seal"]
            /\ UNCHANGED <<werr, stop>>
       ELSE WriterEnds(s) /\ UNCHANGED <<health, acks, acked>>
  /\ UNCHANGED <<faults, now, cause, producer, chan, held, evq, raw, manifest, supervisor>>

SealedThrough(s) == IF manifest[s] = <<>> THEN 0 ELSE manifest[s][Len(manifest[s])][2]

\* The rest of finalize_segment: the seal is verified against the raw file and
\* its manifest record synced, and only then is the event published.  The
\* successor segment is opened for the frame that crossed the boundary.
SealSegment(s) ==
  /\ Running /\ wpc[s] = "seal"
  /\ manifest' = [manifest EXCEPT ![s] = Append(@, <<SealedThrough(s) + 1, durable[s]>>)]
  /\ evq' = [evq EXCEPT ![s] = Append(@, <<"SEGMENT", Len(manifest[s]) + 1>>)]
  /\ IF held[s] # None
       THEN /\ health' = [health EXCEPT ![s].segment = @ + 1]
            /\ acked' = [acked EXCEPT ![s] = NoAck]
            /\ wpc' = [wpc EXCEPT ![s] = "append"]
       ELSE wpc' = [wpc EXCEPT ![s] = "done"] /\ UNCHANGED <<health, acked>>
  /\ UNCHANGED <<faults, now, stop, cause, producer, chan, held, werr, raw, durable, acks,
                 supervisor>>

AppendHeld(s) ==
  /\ Running /\ wpc[s] = "append"
  /\ AppendFrame(s, held[s])
  /\ UNCHANGED <<faults, now, stop, cause, producer, chan, werr, evq, manifest, supervisor>>

\* The shutdown is published if the acknowledgement ends at its own frame.
AnnounceShutdown(s) ==
  /\ Running /\ wpc[s] = "announce"
  /\ IF acked[s] = Len(raw[s])
       THEN /\ evq' = [evq EXCEPT ![s] = Append(@, <<"SHUTDOWN", Len(raw[s])>>)]
            /\ health' = [health EXCEPT ![s].shutdowns = @ + 1]
            /\ wpc' = [wpc EXCEPT ![s] = "recv"]
            /\ UNCHANGED <<werr, stop, durable>>
       ELSE WriterEnds(s) /\ UNCHANGED <<evq, health>>
  /\ UNCHANGED <<faults, now, cause, producer, chan, held, acked, raw, acks, manifest,
                 supervisor>>

Writer(s) ==
  \/ WriterFails(s) \/ TakeFrame(s) \/ TakeBoundary(s) \/ IdleSync(s)
  \/ Disconnected(s) \/ SealSegment(s) \/ AppendHeld(s) \/ AnnounceShutdown(s)

-----------------------------------------------------------------------------
(* run: startup *)

mainRest == <<now, producer, chan, health, writer, files>>

\* One of the two receives of the connected channel: a stream connected (its
\* metadata is persisted and announced), a second message of a stream already
\* heard, a failure, or the 20 s timeout.
HearConnection ==
  /\ Running /\ mpc = "connect" /\ heard < 2 /\ connq # <<>>
  /\ heard' = heard + 1
  /\ connq' = Tail(connq)
  /\ IF Head(connq)[2] /\ Head(connq)[1] \notin artifacts
       THEN artifacts' = artifacts \cup {Head(connq)[1]} /\ UNCHANGED startupFailed
       ELSE startupFailed' = TRUE /\ UNCHANGED artifacts
  /\ UNCHANGED <<faults, now, stop, cause, ppc, pend, journal, flight, chan, health, writer,
                 files, mpc, runtimeFailed, emitted, terminal>>

ConnectionTimeout ==
  /\ Fault
  /\ Running /\ mpc = "connect" /\ heard < 2 /\ connq = <<>>
  /\ heard' = heard + 1
  /\ startupFailed' = TRUE
  /\ UNCHANGED <<mainRest, stop, cause, mpc, artifacts, runtimeFailed, emitted, terminal>>

\* The snapshot is fetched only when both streams connected; it may fail.
FetchSnapshot ==
  /\ Running /\ mpc = "connect" /\ heard = 2
  /\ \E ok \in BOOLEAN :
       /\ IF ok \/ startupFailed THEN UNCHANGED faults ELSE Fault
       /\ startupFailed => ~ok
       /\ startupFailed' = ~ok
       /\ mpc' = IF ok THEN "loop" ELSE "failStartup"
  /\ UNCHANGED <<mainRest, stop, cause, heard, artifacts, runtimeFailed, emitted, terminal>>

\* The cause is stored before the flag the producers poll.
FailStartup ==
  /\ Running /\ mpc = "failStartup"
  /\ cause' = "LOCAL"
  /\ mpc' = "raise"
  /\ UNCHANGED <<faults, mainRest, stop, heard, artifacts, startupFailed, runtimeFailed,
                 emitted, terminal>>

-----------------------------------------------------------------------------
(* run: the supervision loop *)

\* Every thread has been joined.
Joined == \A s \in Streams : ppc[s] = "done" /\ wpc[s] = "done"

InLoop == Running /\ mpc = "loop" /\ now < Duration /\ ~stop

\* A stop request file is there: a valid one names its cause at once, a
\* malformed one only fails the run.
StopRequested ==
  /\ Fault
  /\ InLoop
  /\ cause' \in {"CAMPAIGN", "NONE"}
  /\ runtimeFailed' = TRUE
  /\ mpc' = "settle"
  /\ UNCHANGED <<mainRest, stop, heard, artifacts, startupFailed, emitted,
                 terminal>>

ClockProbeFails ==
  /\ Fault
  /\ InLoop
  /\ cause' = "LOCAL"
  /\ runtimeFailed' = TRUE
  /\ mpc' = "settle"
  /\ UNCHANGED <<mainRest, stop, heard, artifacts, startupFailed, emitted,
                 terminal>>

\* drain_writer_events: everything the writers published is printed.
Drained == [s \in Streams |-> emitted[s] \o evq[s]]
DrainEvents ==
  /\ InLoop
  /\ \E s \in Streams : evq[s] # <<>>
  /\ emitted' = Drained
  /\ evq' = [s \in Streams |-> <<>>]
  /\ UNCHANGED <<faults, now, stop, cause, producer, chan, health, wpc, held, acked,
                 werr, files, mpc, heard, artifacts, startupFailed, runtimeFailed,
                 terminal>>

\* Printing an event or writing a record failed, at the start, in the loop, or
\* after the join: run returns its error and the process exits without having
\* reported an end.
Abandon ==
  /\ Fault
  /\ Running /\ mpc \in {"connect", "loop", "join"}
  /\ mpc = "join" => startupFailed \/ Joined
  /\ terminal' = "ABANDONED"
  /\ UNCHANGED <<mainRest, stop, cause, mpc, heard, artifacts, startupFailed,
                 runtimeFailed, emitted>>

LoopEnds ==
  /\ Running /\ mpc = "loop" /\ (now >= Duration \/ stop)
  /\ mpc' = "settle"
  /\ UNCHANGED <<faults, mainRest, stop, cause, heard, artifacts, startupFailed,
                 runtimeFailed, emitted, terminal>>

-----------------------------------------------------------------------------
(* run: stop, join, terminal manifest *)

\* A failure that has not stored its cause yet stores one before the flag goes up.
Settle ==
  /\ Running /\ mpc = "settle"
  /\ cause' = IF runtimeFailed /\ cause = "NONE" THEN "LOCAL" ELSE cause
  /\ mpc' = "raise"
  /\ UNCHANGED <<faults, mainRest, stop, heard, artifacts, startupFailed, runtimeFailed,
                 emitted, terminal>>

RaiseStop ==
  /\ Running /\ mpc = "raise"
  /\ stop' = TRUE
  /\ mpc' = "join"
  /\ UNCHANGED <<faults, mainRest, cause, heard, artifacts, startupFailed, runtimeFailed,
                 emitted, terminal>>

\* What the terminal manifest calls a failure.
StreamFailed(s) ==
  \/ pend[s] # "CLIENT_STOP" \/ werr[s] \/ s \notin artifacts
  \/ health[s].received # health[s].written
  \/ health[s].written # health[s].durable
  \/ manifest[s] = <<>> \/ health[s].market = 0
Failed ==
  \/ startupFailed \/ runtimeFailed
  \/ \E s \in Streams : health[s].queue # 0 \/ StreamFailed(s)

\* The last events are drained, the terminal telemetry record and the manifest
\* are written, PROCESS_TERMINAL is printed.
Finish ==
  /\ Running /\ mpc = "join" /\ Joined
  /\ emitted' = Drained
  /\ evq' = [s \in Streams |-> <<>>]
  /\ terminal' = IF Failed THEN "FAILED" ELSE "COMPLETE"
  /\ mpc' = "done"
  /\ UNCHANGED <<faults, now, stop, cause, producer, chan, health, wpc, held, acked,
                 werr, files, heard, artifacts, startupFailed, runtimeFailed>>

Main ==
  \/ HearConnection \/ ConnectionTimeout \/ FetchSnapshot \/ FailStartup
  \/ StopRequested \/ ClockProbeFails \/ DrainEvents
  \/ Abandon \/ LoopEnds \/ Settle \/ RaiseStop \/ Finish

Next ==
  \/ Tick \/ Main
  \/ \E s \in Streams : Producer(s) \/ Writer(s)

Spec == Init /\ [][Next]_vars

\* The scheduling the process runs under: time passes, and every thread that
\* can take a step of its own eventually does.  Nothing is assumed of connect,
\* which blocks without a timeout, nor of the network and the injected faults.
Fairness ==
  /\ WF_vars(Tick)
  /\ WF_vars(HearConnection \/ FetchSnapshot \/ FailStartup \/ DrainEvents
             \/ LoopEnds \/ Settle \/ RaiseStop \/ Finish)
  /\ \A s \in Streams :
       /\ WF_vars(ObserveStop(s) \/ QueueFrame(s))
       /\ WF_vars(TakeFrame(s) \/ TakeBoundary(s) \/ Disconnected(s)
                  \/ SealSegment(s) \/ AppendHeld(s) \/ AnnounceShutdown(s))

FairSpec == Spec /\ Fairness

-----------------------------------------------------------------------------
(* Properties *)

\* What the terminal manifest and the files say of a stream.
Generation(s) ==
  [received |-> health[s].received, written |-> health[s].written,
   durable |-> health[s].durable, shutdowns |-> health[s].shutdowns,
   market |-> health[s].market,
   journal |-> journal[s], raw |-> raw[s], entries |-> manifest[s], acks |-> acks[s]]

Announced(s) == emitted[s] \o evq[s]
AnnouncedNumbers(s, event) ==
  LET mine == SelectSeq(Announced(s), LAMBDA e : e[1] = event)
  IN [i \in DOMAIN mine |-> mine[i][2]]

\* The terminal status is right in both directions.  A run that reports
\* COMPLETE passes the offline verifier's validate_stream on both streams (the
\* rules on payloads and sequence numbers, on freshness and on telemetry are
\* not part of it), and before PROCESS_TERMINAL it announced every sealed
\* segment once, in order, and every serverShutdown record.  The stop at the
\* end of the requested time races frames in flight and loses none: without an
\* injected failure a run is FAILED only when a stream never carried a market
\* message, its queue overflowed or its writer gave up.
StatusIsEarned ==
  /\ terminal = "COMPLETE" => \A s \in Streams :
       /\ ValidateStream(Generation(s), SegmentTicks)
       /\ AnnouncedNumbers(s, "SEGMENT") = [i \in DOMAIN manifest[s] |-> i]
       /\ Range(AnnouncedNumbers(s, "SHUTDOWN")) = Records(Generation(s), "shutdown")
  /\ terminal = "FAILED" /\ faults = 0 =>
       \E s \in Streams : health[s].market = 0 \/ pend[s] = "FAILED" \/ werr[s]

\* SEGMENT_DURABLE is only published for a segment whose seal is in the synced
\* manifest, and SERVER_SHUTDOWN_DURABLE for a record a sync has covered and
\* the progress journal acknowledges exactly.
AnnouncedIsDurable ==
  \A s \in Streams : \A e \in Range(Announced(s)) :
    CASE e[1] = "SEGMENT" -> e[2] <= Len(manifest[s]) /\ manifest[s][e[2]][2] <= durable[s]
      [] e[1] = "SHUTDOWN" -> e[2] <= durable[s] /\ e[2] \in acks[s]

\* Wherever a producer ends (before the connection, in the read loop, at a
\* stop that races its own failure) its journal seals, and the diagnosis of the
\* sealed journal tells a clean stop, a supervisor's stop and a failure apart.
\* When the supervisor failed the run, a journal that still says
\* CLIENT_STOP_OBSERVED means a thread had failed and raised the flag before
\* the supervisor's cause was there to be read.
SealedJournalTellsTheEnd ==
  /\ \A s \in Streams : ppc[s] = "done" =>
       /\ Seals(journal[s])
       /\ Classification(journal[s]) = "CLEAN_CLIENT_STOP" <=> pend[s] = "CLIENT_STOP"
       /\ Classification(journal[s]) = "SUPERVISOR_FAILURE_STOP" <=> pend[s] = "SUPERVISOR_STOP"
  /\ /\ terminal = "FAILED" /\ (startupFailed \/ runtimeFailed)
     /\ \E s \in Streams : pend[s] = "CLIENT_STOP"
     => \E s \in Streams : pend[s] = "FAILED" \/ werr[s]

\* Whatever fails, the threads are joined and the process ends, unless a
\* producer is still in its connection attempt: connect has no timeout, and
\* neither has the join that waits for it.  (Both disjuncts are final once the
\* other is out of reach: no producer connects twice, no end is taken back.)
RunEnds == []<>(terminal # "NONE" \/ \E s \in Streams : ppc[s] = "connect")

=============================================================================
