------------------------- MODULE StreamWriterProofs -------------------------
(***************************************************************************)
(* Proofs about StreamWriter, for every number of frames, segments and     *)
(* clock ticks and every group size: what the follower reads, what a crash *)
(* of the host leaves of the three kinds of file, and what a telemetry     *)
(* record says.  StreamTelemetry has the inductive invariants and the      *)
(* counters; here are the files, segments, crashes and the follower.       *)
(***************************************************************************)
EXTENDS StreamTelemetry

LEMMA StreamInit == Init => StreamInv
<1> SUFFICES ASSUME Init PROVE StreamInv
  OBVIOUS
<1>1. EmptyRaw \in RawFile /\ EmptyLog \in LogFile
  BY DEF EmptyRaw, EmptyLog, RawFile, LogFile
<1>2. Seg = 1 /\ raw[1] = EmptyRaw /\ prog[1] = EmptyLog /\ man = EmptyLog
  BY DEF Init, Seg
<1>3. DOMAIN h = FieldSet /\ h["durable"] = 0
  BY FieldFacts DEF Init, NoSample
<1>4. StreamTypeOK
  <2>1. raw \in Seq(RawFile) /\ prog \in Seq(LogFile) /\ Len(raw) = 1 /\ Len(prog) = 1
    BY <1>1 DEF Init
  <2>2. fol \in Following
    BY DEF Init, NotFollowing, Following
  <2> QED
    BY <1>1, <1>2, <1>3, <2>1, <2>2 DEF Init, StreamTypeOK
<1>5. SegmentsInv /\ ManifestInv /\ DurableInv
  BY <1>2, <1>3 DEF SegmentsInv, GoodSegment, GoodLines, ManifestInv, DurableInv, Before,
                    Acknowledged, EmptyRaw, EmptyLog
<1>6. FollowerInv
  BY <1>2 DEF Init, NotFollowing, FollowerInv, EmptyLog
<1>7. ControlInv
  BY <1>2 DEF Init, ControlInv, LastOf, SealWritten, SealSynced, EmptyLog, EmptyRaw
<1> QED
  BY <1>4, <1>5, <1>6, <1>7 DEF Init, StreamInv

-----------------------------------------------------------------------------
(* A step that changes at most the open segment's files, and those only by   *)
(* adding lines to the progress journal.                                     *)
Steady ==
  /\ raw' \in Seq(RawFile) /\ prog' \in Seq(LogFile)
  /\ Len(raw') = Len(raw) /\ Len(prog') = Len(prog)
  /\ \A k \in 1..(Seg - 1) : raw'[k] = raw[k] /\ prog'[k] = prog[k]
  /\ Len(prog[Seg].lines) <= Len(prog'[Seg].lines)
  /\ \A i \in 1..Len(prog[Seg].lines) : prog'[Seg].lines[i] = prog[Seg].lines[i]

(* What such a step must leave in the open segment for the invariant.        *)
LEMMA SteadySegments ==
  ASSUME StreamTypeOK, SegmentsInv, Steady, GoodSegment(raw'[Seg], prog'[Seg])
  PROVE  SegmentsInv'
<1>1. Seg' = Seg /\ Seg \in Nat
  BY DEF Steady, Seg, StreamTypeOK
<1>2. ASSUME NEW k \in 1..Seg PROVE GoodSegment(raw'[k], prog'[k])
  <2>1. CASE k = Seg
    BY <2>1
  <2>2. CASE k # Seg
    <3>1. k \in 1..(Seg - 1)
      BY <1>1, <2>2
    <3>2. raw'[k] = raw[k] /\ prog'[k] = prog[k]
      BY <3>1 DEF Steady
    <3> QED
      BY <1>2, <3>2 DEF SegmentsInv
  <2> QED
    BY <2>1, <2>2
<1> QED
  BY <1>1, <1>2 DEF SegmentsInv

(* The manifest does not list the open segment, or its files stay.           *)
LEMMA SteadyManifest ==
  ASSUME StreamTypeOK, ManifestInv, Steady, man'.lines = man.lines, man'.synced = man.synced,
         \/ Len(man.lines) = Seg - 1
         \/ raw'[Seg].synced = raw[Seg].synced /\ raw'[Seg].written = raw[Seg].written
            /\ prog'[Seg].lines = prog[Seg].lines
  PROVE  ManifestInv'
<1>1. Seg' = Seg /\ Seg \in Nat
  BY DEF Steady, Seg, StreamTypeOK
<1>2. man.lines \in Seq(Nat)
  BY DEF StreamTypeOK, LogFile
<1>3. \A k : Before(k)' = Before(k)
  BY DEF Before
<1>4. Len(man.lines) \in {Seg - 1, Seg}
  BY DEF ManifestInv
<1>5. ASSUME NEW k \in 1..Len(man.lines)
      PROVE  /\ raw'[k].synced = raw[k].synced /\ raw'[k].written = raw[k].written
             /\ prog'[k].lines = prog[k].lines
  <2>1. CASE k = Seg
    BY <1>1, <1>2, <2>1
  <2>2. CASE k # Seg
    <3>1. k \in 1..(Seg - 1)
      BY <1>1, <1>2, <1>4, <2>2
    <3> QED
      BY <3>1, Zenon DEF Steady
  <2> QED
    BY <2>1, <2>2
<1> QED
  BY <1>1, <1>3, <1>5 DEF ManifestInv

LEMMA SteadyFollower ==
  ASSUME StreamTypeOK, ManifestInv, FollowerInv, Steady, fol' = fol,
         Len(man.lines) <= Len(man'.lines),
         \A i \in 1..Len(man.lines) : man'.lines[i] = man.lines[i],
         man' \in LogFile
  PROVE  FollowerInv'
<1>1. Seg' = Seg /\ Seg \in Nat
  BY DEF Steady, Seg, StreamTypeOK
<1>2. man.lines \in Seq(Nat) /\ man'.lines \in Seq(Nat) /\ fol \in Following
  BY DEF StreamTypeOK, LogFile
<1>3. fol.segment \in Nat /\ fol.lines \in Nat /\ fol.read \in Nat /\ fol.bound \in BOOLEAN
  BY <1>2 DEF Following
<1>4. fol.segment <= Len(man'.lines) + 1
  BY <1>2, <1>3 DEF FollowerInv
<1>5. ASSUME fol.segment > 0 PROVE fol.before = Before(fol.segment)'
  <2>1. fol.before = Before(fol.segment) /\ fol.segment <= Len(man.lines) + 1
    BY <1>5 DEF FollowerInv
  <2>2. fol.segment # 1 => fol.segment - 1 \in 1..Len(man.lines)
    <3>1. Len(man.lines) \in Nat
      BY <1>2
    <3> QED
      BY <1>3, <1>5, <2>1, <3>1, Previous
  <2>3. fol.segment # 1 => man'.lines[fol.segment - 1] = man.lines[fol.segment - 1]
    BY <2>2
  <2> QED
    BY <2>1, <2>3 DEF Before
<1>6. ASSUME fol.bound
      PROVE  /\ fol.segment \in 1..Seg
             /\ fol.lines <= fol.read /\ fol.read <= Len(prog'[fol.segment].lines)
             /\ fol.records = IF fol.lines = 0 THEN 0 ELSE prog'[fol.segment].lines[fol.lines]
  <2>1. /\ fol.segment \in 1..Seg
        /\ fol.lines <= fol.read /\ fol.read <= Len(prog[fol.segment].lines)
        /\ fol.records = IF fol.lines = 0 THEN 0 ELSE prog[fol.segment].lines[fol.lines]
    BY <1>6 DEF FollowerInv
  <2>2. CASE fol.segment # Seg
    <3>1. fol.segment \in 1..(Seg - 1)
      BY <1>1, <2>1, <2>2
    <3>2. prog'[fol.segment] = prog[fol.segment]
      BY <3>1 DEF Steady
    <3> QED
      BY <2>1, <3>2
  <2>3. CASE fol.segment = Seg
    <3>1. prog[Seg].lines \in Seq(Nat) /\ prog'[Seg].lines \in Seq(Nat)
      <4>1. prog[Seg] \in LogFile /\ prog'[Seg] \in LogFile
        BY <1>1, <2>1, <2>3 DEF Steady, StreamTypeOK, Seg
      <4> QED
        BY <4>1 DEF LogFile
    <3>2. fol.lines # 0 => fol.lines \in 1..Len(prog[Seg].lines)
      BY <1>3, <2>1, <2>3, <3>1
    <3>3. fol.lines # 0 => prog'[Seg].lines[fol.lines] = prog[Seg].lines[fol.lines]
      BY <3>2, Zenon DEF Steady
    <3>4. fol.read <= Len(prog'[Seg].lines)
      BY <1>3, <2>1, <2>3, <3>1 DEF Steady
    <3> QED
      BY <2>1, <2>3, <3>3, <3>4
  <2> QED
    BY <2>2, <2>3
<1> QED
  BY <1>1, <1>4, <1>5, <1>6 DEF FollowerInv

-----------------------------------------------------------------------------
(* Steps that leave the files alone.                                         *)
LEMMA OtherCounter ==
  ASSUME DOMAIN h = FieldSet, NEW f, NEW e, f # "durable", h' = [h EXCEPT ![f] = e]
  PROVE  DOMAIN h' = FieldSet /\ h'["durable"] = h["durable"]
<1>1. "durable" \in FieldSet
  BY FieldFacts
<1> QED
  BY <1>1

LEMMA QuietInv ==
  ASSUME StreamInv, UNCHANGED <<raw, prog, man, up, fol, acked>>,
         DOMAIN h' = FieldSet, h'["durable"] \in Nat, DurableInv', up => ControlInv'
  PROVE  StreamInv'
<1>1. StreamTypeOK'
  BY DEF StreamInv, StreamTypeOK
<1>2. SegmentsInv'
  BY DEF StreamInv, SegmentsInv, Seg
<1>3. ManifestInv'
  BY Zenon DEF StreamInv, ManifestInv, Seg, Before
<1>4. FollowerInv'
  BY DEF StreamInv, FollowerInv, Seg, Before
<1>5. ~up' => prog'[Seg'].synced = Len(prog'[Seg'].lines)
  BY DEF StreamInv, Seg
<1> QED
  BY <1>1, <1>2, <1>3, <1>4, <1>5 DEF StreamInv

(* The producer and the sampler, which leave the writer alone too.           *)
LEMMA BesideInv ==
  ASSUME StreamInv, UNCHANGED <<writer, files, up, fol>>,
         \/ h' = h
         \/ \E f, e : f # "durable" /\ h' = [h EXCEPT ![f] = e]
  PROVE  StreamInv'
<1>1. DOMAIN h = FieldSet /\ h["durable"] \in Nat
  BY DEF StreamInv, StreamTypeOK
<1>2. DOMAIN h' = FieldSet /\ h'["durable"] = h["durable"]
  BY <1>1, OtherCounter
<1>3. UNCHANGED <<wpc, via, acked, raw, prog, man>>
  BY DEF writer, files
<1>4. DurableInv'
  BY <1>2, <1>3 DEF StreamInv, DurableInv, Before, Acknowledged, Seg
<1>5. up => ControlInv'
  BY <1>3 DEF StreamInv, ControlInv, SealWritten, SealSynced, Synced, Seg
<1> QED
  BY <1>1, <1>2, <1>3, <1>4, <1>5, QuietInv

(* The writer's steps between two accesses to the files.                     *)
LEMMA BetweenInv ==
  ASSUME StreamInv, up, UNCHANGED <<files, up, fol, acked>>,
         \/ h' = h
         \/ \E f, e : f # "durable" /\ h' = [h EXCEPT ![f] = e],
         \/ wpc = "recv" /\ wpc' = "dequeue"
         \/ wpc \in {"recv", "dequeue"} /\ wpc' \in {"sync", "failed"}
         \/ wpc = "dequeue" /\ wpc' = "append" /\ via' = "none"
         \/ wpc = "count" /\ wpc' = "market" /\ via' = via
         \/ wpc = "market" /\ wpc' = "ack" /\ via = "group"
         \/ wpc = "market" /\ wpc' = "recv"
         \/ wpc \in {"lastDurable", "ack"} /\ wpc' \in {"seal", "last"}
         \/ wpc = "last" /\ wpc' = "max"
         \/ wpc = "max" /\ wpc' \in {"ack", "recv"}
         \/ wpc = "seal" /\ wpc' = "failed"
  PROVE  StreamInv'
<1>1. DOMAIN h = FieldSet /\ h["durable"] \in Nat
  BY DEF StreamInv, StreamTypeOK
<1>2. DOMAIN h' = FieldSet /\ h'["durable"] = h["durable"]
  BY <1>1, OtherCounter
<1>3. UNCHANGED <<raw, prog, man>>
  BY DEF files
<1>4. DurableInv'
  BY <1>2, <1>3 DEF StreamInv, DurableInv, Before, Acknowledged, Seg
<1>5. ControlInv
  BY DEF StreamInv
<1>6. Seg' = Seg /\ Synced' = Synced
  BY <1>3 DEF Seg, Synced
<1>7. ~SealWritten /\ ~SealSynced /\ ~SealWritten' /\ ~SealSynced'
  BY DEF SealWritten, SealSynced
<1>8. /\ wpc' # "ackSync" /\ prog[Seg].synced = Len(prog[Seg].lines)
  BY <1>5 DEF ControlInv
<1>9. ControlInv'
  <2>1. /\ acked' = LastOf(prog'[Seg'].lines)
        /\ wpc' # "ackSync" => prog'[Seg'].synced = Len(prog'[Seg'].lines)
        /\ Len(man'.lines) = IF SealWritten' THEN Seg' ELSE Seg' - 1
        /\ man'.synced = IF SealSynced' THEN Seg' ELSE Seg' - 1
    BY <1>3, <1>5, <1>6, <1>7, <1>8 DEF ControlInv
  <2>2. /\ wpc' \in {"append", "write"} => via' # "group"
        /\ wpc' \in {"count", "market"} /\ via' = "group" => Synced'
        /\ wpc' \in {"last", "max", "ack", "line", "ackSync", "durable", "lastDurable", "seal",
                     "sealing", "sealed", "open"} => Synced'
        /\ wpc' \notin {"line", "ackSync", "durable", "sealing", "sealed", "open"}
    BY <1>5, <1>6 DEF ControlInv
  <2> QED
    BY <2>1, <2>2 DEF ControlInv
<1> QED
  BY <1>1, <1>2, <1>3, <1>4, <1>9, QuietInv

LEMMA BesideSteps ==
  StreamInv /\ (Tick \/ Producer \/ LoadField \/ FinishSample \/ TerminalSample) => StreamInv'
<1> SUFFICES ASSUME StreamInv PROVE
      Tick \/ Producer \/ LoadField \/ FinishSample \/ TerminalSample => StreamInv'
  OBVIOUS
<1> USE DEF readers
<1>1. ASSUME Tick PROVE StreamInv'
  BY <1>1, BesideInv DEF Tick
<1>2. ASSUME Producer PROVE StreamInv'
  <2>1. UNCHANGED <<writer, files, up, fol>>
    BY <1>2 DEF Producer, NoteSocket, CountReceipt, CountQueued, NotePeak, Send, Leave, pRest
  <2>2. \/ h' = h
        \/ \E f, e : f # "durable" /\ h' = [h EXCEPT ![f] = e]
    <3>1. CASE NoteSocket
      BY <3>1, Zenon DEF NoteSocket
    <3>2. CASE CountReceipt
      BY <3>2, Zenon DEF CountReceipt
    <3>3. CASE CountQueued
      BY <3>3, Zenon DEF CountQueued
    <3>4. CASE NotePeak
      BY <3>4, Zenon DEF NotePeak
    <3> QED
      BY <1>2, <3>1, <3>2, <3>3, <3>4, Zenon DEF Producer, Send, Leave
  <2> QED
    BY <2>1, <2>2, BesideInv
<1>3. ASSUME LoadField \/ FinishSample \/ TerminalSample PROVE StreamInv'
  BY <1>3, BesideInv DEF LoadField, FinishSample, TerminalSample, sRest
<1> QED
  BY <1>1, <1>2, <1>3

LEMMA BetweenSteps ==
  ASSUME StreamInv,
         \/ Take \/ Dequeue \/ CountWritten \/ NoteMarket \/ Idle \/ Drained \/ NoteDurable
         \/ NoteSync \/ NoteMaxSync
         \/ BeginAck /\ acked = raw[Seg].written
         \/ BeginSeal /\ wpc' = "failed"
  PROVE  StreamInv'
<1> USE DEF readers, wRest, keep, WStep
<1>1. CASE Take
  BY <1>1, BetweenInv DEF Take
<1>2. CASE Dequeue
  BY <1>2, BetweenInv, Zenon DEF Dequeue
<1>3. CASE CountWritten
  BY <1>3, BetweenInv, Zenon DEF CountWritten
<1>4. CASE NoteMarket
  BY <1>4, BetweenInv, Zenon DEF NoteMarket
<1>5. CASE Idle
  BY <1>5, BetweenInv DEF Idle
<1>6. CASE Drained
  BY <1>6, BetweenInv DEF Drained
<1>7. CASE NoteDurable
  BY <1>7, BetweenInv, Zenon DEF NoteDurable
<1>8. CASE NoteSync
  BY <1>8, BetweenInv, Zenon DEF NoteSync
<1>9. CASE NoteMaxSync
  BY <1>9, BetweenInv, Zenon DEF NoteMaxSync
<1>10. CASE BeginAck /\ acked = raw[Seg].written
  BY <1>10, BetweenInv DEF BeginAck, files
<1>11. CASE BeginSeal /\ wpc' = "failed"
  BY <1>11, BetweenInv DEF BeginSeal, files
<1> QED
  BY <1>1, <1>2, <1>3, <1>4, <1>5, <1>6, <1>7, <1>8, <1>9, <1>10, <1>11, Zenon

LEMMA CountDurableInv == StreamInv /\ CountDurable => StreamInv'
<1> SUFFICES ASSUME StreamInv, CountDurable PROVE StreamInv'
  OBVIOUS
<1>1. /\ up /\ wpc = "durable" /\ wpc' = "lastDurable"
      /\ h' = [h EXCEPT !["durable"] = Sealed + raw[Seg].written]
      /\ UNCHANGED <<raw, prog, man, up, fol, acked, via>>
  BY DEF CountDurable, WStep, keep, files, wRest, readers
<1>2. StreamTypeOK /\ ControlInv /\ ManifestInv
  BY <1>1 DEF StreamInv
<1>3. Seg \in Nat \ {0} /\ Seg \in 1..Seg
  BY <1>2, SegTyped
<1>4. /\ raw[Seg].written \in Nat /\ prog[Seg].lines \in Seq(Nat) /\ man.lines \in Seq(Nat)
  BY <1>2, <1>3, Typed, Zenon DEF StreamTypeOK, LogFile
<1>5. /\ acked = LastOf(prog[Seg].lines) /\ prog[Seg].synced = Len(prog[Seg].lines)
      /\ Len(man.lines) = Seg - 1 /\ acked = raw[Seg].written /\ Synced
  BY <1>1, <1>2 DEF ControlInv, SealWritten
<1>6. Sealed = Before(Seg)
  BY <1>3, <1>4, <1>5 DEF Sealed, Before
<1>7. Acknowledged(prog[Seg]) = raw[Seg].written
  BY <1>4, <1>5 DEF Acknowledged, LastOf
<1>8. Sealed \in Nat
  BY <1>4 DEF Sealed
<1>9. DOMAIN h' = FieldSet /\ h'["durable"] = Sealed + raw[Seg].written
  BY <1>1, <1>2, FieldFacts DEF StreamTypeOK
<1>10. DurableInv'
  <2>1. Before(Seg)' = Before(Seg) /\ Acknowledged(prog[Seg])' = Acknowledged(prog[Seg])
    BY <1>1 DEF Before, Seg, Acknowledged
  <2>2. h'["durable"] = Before(Seg) + Acknowledged(prog[Seg])
    BY <1>6, <1>7, <1>9
  <2>3. Before(Seg) \in Nat /\ Acknowledged(prog[Seg]) \in Nat
    BY <1>4, <1>6, <1>7, <1>8
  <2> QED
    BY <2>1, <2>2, <2>3 DEF DurableInv
<1>11. ControlInv'
  <2>1. Seg' = Seg /\ Synced' = Synced
    BY <1>1 DEF Seg, Synced
  <2>2. ~SealWritten /\ ~SealSynced /\ ~SealWritten' /\ ~SealSynced'
    BY <1>1 DEF SealWritten, SealSynced
  <2> QED
    BY <1>1, <1>2, <1>5, <2>1, <2>2, Zenon DEF ControlInv
<1>12. h'["durable"] \in Nat
  BY <1>4, <1>8, <1>9
<1> QED
  BY <1>1, <1>9, <1>10, <1>11, <1>12, QuietInv

-----------------------------------------------------------------------------
(* Steps on the files of the open segment.                                   *)
LEMMA FileInv ==
  ASSUME StreamInv, up, Steady, GoodSegment(raw'[Seg], prog'[Seg]),
         UNCHANGED <<h, up, fol>>, acked' \in Nat,
         man' \in LogFile, man'.lines = man.lines, man'.synced = man.synced,
         Len(man.lines) = Seg - 1,
         Acknowledged(prog[Seg]) <= Acknowledged(prog'[Seg]), ControlInv'
  PROVE  StreamInv'
<1>1. /\ StreamTypeOK /\ SegmentsInv /\ ManifestInv /\ FollowerInv /\ DurableInv
  BY DEF StreamInv
<1>2. Seg' = Seg /\ Seg \in Nat \ {0} /\ Seg \in 1..Seg
  BY <1>1, SegTyped DEF Steady, Seg
<1>3. StreamTypeOK'
  BY <1>1 DEF StreamTypeOK, Steady
<1>4. SegmentsInv'
  BY <1>1, SteadySegments
<1>5. ManifestInv'
  BY <1>1, SteadyManifest
<1>6. man.lines \in Seq(Nat)
  BY <1>1 DEF StreamTypeOK, LogFile
<1>7. FollowerInv'
  BY <1>1, <1>6, SteadyFollower
<1>8. DurableInv'
  <2>1. /\ Before(Seg)' = Before(Seg) /\ Before(Seg) \in Nat
    BY <1>2, <1>6 DEF Before
  <2>2. Acknowledged(prog[Seg]) \in Nat /\ Acknowledged(prog'[Seg]) \in Nat
    <3>1. prog[Seg] \in LogFile /\ prog'[Seg] \in LogFile
      BY <1>1, <1>2, <1>3, Typed DEF StreamTypeOK, Seg
    <3>3. prog[Seg].synced <= Len(prog[Seg].lines) /\ prog'[Seg].synced <= Len(prog'[Seg].lines)
      BY <1>1, <1>2 DEF SegmentsInv, GoodSegment
    <3> QED
      BY <3>1, <3>3, AcknowledgedNat, Zenon
  <2>3. h["durable"] \in Nat
    BY <1>1 DEF StreamTypeOK
  <2>4. h["durable"] <= Before(Seg) + Acknowledged(prog'[Seg])
    BY <1>1, <2>1, <2>2, <2>3 DEF DurableInv
  <2>5. Acknowledged(prog[Seg])' = Acknowledged(prog'[Seg])
    BY <1>2 DEF Acknowledged
  <2> QED
    BY <2>1, <2>4, <2>5 DEF DurableInv
<1> QED
  BY <1>3, <1>4, <1>5, <1>7, <1>8 DEF StreamInv

LEMMA RawStep ==
  ASSUME StreamTypeOK, NEW r \in RawFile, raw' = [raw EXCEPT ![Seg] = r], prog' = prog
  PROVE  Steady /\ raw'[Seg] = r /\ prog'[Seg] = prog[Seg] /\ Seg' = Seg
<1>1. raw \in Seq(RawFile) /\ prog \in Seq(LogFile) /\ Seg \in 1..Len(raw)
  BY SegTyped DEF StreamTypeOK, Seg
<1>2. /\ raw' \in Seq(RawFile) /\ Len(raw') = Len(raw) /\ raw'[Seg] = r
      /\ \A j \in 1..Len(raw) : j # Seg => raw'[j] = raw[j]
  BY <1>1, Update
<1>3. \A k \in 1..(Seg - 1) : raw'[k] = raw[k] /\ prog'[k] = prog[k]
  BY <1>1, <1>2
<1>4. prog[Seg].lines \in Seq(Nat)
  BY <1>1, Typed DEF Seg
<1>5. Len(prog[Seg].lines) <= Len(prog'[Seg].lines)
  BY <1>4
<1> QED
  BY <1>1, <1>2, <1>3, <1>5, Zenon DEF Steady, Seg

LEMMA ProgStep ==
  ASSUME StreamTypeOK, NEW p \in LogFile, prog' = [prog EXCEPT ![Seg] = p], raw' = raw,
         Len(prog[Seg].lines) <= Len(p.lines),
         \A i \in 1..Len(prog[Seg].lines) : p.lines[i] = prog[Seg].lines[i]
  PROVE  Steady /\ raw'[Seg] = raw[Seg] /\ prog'[Seg] = p /\ Seg' = Seg
<1>1. /\ raw \in Seq(RawFile) /\ prog \in Seq(LogFile) /\ Seg \in 1..Len(prog)
      /\ Len(prog) = Len(raw)
  BY SegTyped DEF StreamTypeOK, Seg
<1>2. /\ prog' \in Seq(LogFile) /\ Len(prog') = Len(prog) /\ prog'[Seg] = p
      /\ \A j \in 1..Len(prog) : j # Seg => prog'[j] = prog[j]
  BY <1>1, Update
<1>3. \A k \in 1..(Seg - 1) : raw'[k] = raw[k] /\ prog'[k] = prog[k]
  BY <1>1, <1>2
<1> QED
  BY <1>1, <1>2, <1>3 DEF Steady, Seg

(* BeginRecord, EndRecord, Sync and DropWriter: the raw file only grows, and *)
(* so does what was synced of it.                                            *)
LEMMA RawStepInv ==
  ASSUME StreamInv, up, NEW w \in Nat, NEW s \in Nat, NEW t \in BOOLEAN,
         raw' = [raw EXCEPT ![Seg] = [written |-> w, synced |-> s, torn |-> t]],
         raw[Seg].synced <= s, s <= w,
         UNCHANGED <<h, up, fol, prog, man, acked>>,
         ~SealWritten, ~SealSynced, ~SealWritten', ~SealSynced',
         wpc # "ackSync", wpc' # "ackSync",
         wpc' \in {"append", "write"} => via' # "group",
         wpc' \in {"count", "market"} /\ via' = "group" => s = w,
         wpc' \in {"last", "max", "ack", "line", "ackSync", "durable", "lastDurable", "seal",
                   "sealing", "sealed", "open"} => s = w,
         wpc' \notin {"line", "ackSync", "durable", "sealing", "sealed", "open"}
  PROVE  StreamInv'
<1> DEFINE r == [written |-> w, synced |-> s, torn |-> t]
<1>1. StreamTypeOK /\ SegmentsInv /\ ControlInv
  BY DEF StreamInv
<1>2. Seg \in Nat \ {0} /\ Seg \in 1..Seg
  BY <1>1, SegTyped
<1>3. r \in RawFile
  BY RawMade
<1>4. Steady /\ raw'[Seg] = r /\ prog'[Seg] = prog[Seg] /\ Seg' = Seg
  BY <1>1, <1>3, RawStep, Zenon
<1>5. /\ prog[Seg].lines \in Seq(Nat) /\ prog[Seg].synced \in Nat /\ raw[Seg].synced \in Nat
  BY <1>1, <1>2, Typed
<1>6. GoodSegment(raw[Seg], prog[Seg])
  BY <1>1, <1>2, Zenon DEF SegmentsInv
<1>7. GoodSegment(r, prog[Seg])
  <2>1. \A i \in 1..Len(prog[Seg].lines) :
          0 < prog[Seg].lines[i] /\ prog[Seg].lines[i] <= raw[Seg].synced
    BY <1>6, Zenon DEF GoodSegment, GoodLines
  <2>2. \A i \in 1..Len(prog[Seg].lines) : 0 < prog[Seg].lines[i] /\ prog[Seg].lines[i] <= s
    <3>1. \A i \in 1..Len(prog[Seg].lines) : prog[Seg].lines[i] \in Nat
      BY <1>5
    <3> QED
      BY <1>5, <2>1, <3>1
  <2> QED
    BY <1>6, <2>2, Zenon DEF GoodSegment, GoodLines
<1>8. Len(man.lines) = Seg - 1 /\ man.synced = Seg - 1
  BY <1>1 DEF ControlInv
<1>9. ControlInv'
  <2>1. Synced' <=> s = w
    BY <1>4 DEF Synced, Seg
  <2>2. acked' = LastOf(prog'[Seg'].lines) /\ prog'[Seg'].synced = Len(prog'[Seg'].lines)
    BY <1>1, <1>4 DEF ControlInv
  <2> QED
    BY <1>4, <1>8, <2>1, <2>2, Zenon DEF ControlInv
<1>10. acked' \in Nat /\ man' \in LogFile /\ man'.lines = man.lines /\ man'.synced = man.synced
  BY <1>1 DEF StreamTypeOK
<1>11. Acknowledged(prog[Seg]) <= Acknowledged(prog'[Seg])
  <2>1. Acknowledged(prog[Seg]) \in Nat
    BY <1>5, <1>6 DEF GoodSegment, Acknowledged
  <2> QED
    BY <1>4, <2>1
<1>12. GoodSegment(raw'[Seg], prog'[Seg])
  BY <1>4, <1>7
<1> QED
  BY <1>4, <1>8, <1>9, <1>10, <1>11, <1>12, FileInv, Zenon

LEMMA RawSteps ==
  StreamInv /\ (BeginRecord \/ EndRecord \/ Sync \/ DropWriter) => StreamInv'
<1> SUFFICES ASSUME StreamInv, BeginRecord \/ EndRecord \/ Sync \/ DropWriter PROVE StreamInv'
  OBVIOUS
<1> DEFINE r == raw[Seg]
<1>1. StreamTypeOK /\ SegmentsInv
  BY DEF StreamInv
<1>2. Seg \in Nat \ {0} /\ Seg \in 1..Seg
  BY <1>1, SegTyped
<1>3. r \in RawFile /\ r.written \in Nat /\ r.synced \in Nat /\ r.torn \in BOOLEAN
  BY <1>1, <1>2, Typed
<1>4. r.synced <= r.written
  BY <1>1, <1>2 DEF SegmentsInv, GoodSegment
<1>5. Seg \in DOMAIN raw
  BY <1>1, <1>2 DEF StreamTypeOK, Seg
<1>6. up /\ UNCHANGED <<h, up, fol, prog, man, acked>>
  BY DEF BeginRecord, EndRecord, Sync, DropWriter, WStep, keep, wRest, readers
<1>7. ControlInv
  BY <1>6 DEF StreamInv
<1>8. CASE BeginRecord
  <2>1. raw' = [raw EXCEPT ![Seg] = [written |-> r.written, synced |-> r.synced, torn |-> TRUE]]
    <3>1. [r EXCEPT !.torn = TRUE] = [written |-> r.written, synced |-> r.synced, torn |-> TRUE]
      BY <1>3, RawFields, Zenon
    <3>2. raw' = [raw EXCEPT ![Seg] = [r EXCEPT !.torn = TRUE]]
      BY <1>8 DEF BeginRecord
    <3> QED
      BY <3>1, <3>2, Zenon
  <2>2. wpc = "append" /\ wpc' = "write" /\ via' # "group"
    BY <1>7, <1>8 DEF BeginRecord, WStep, keep, ControlInv
  <2>3. ~SealWritten /\ ~SealSynced /\ ~SealWritten' /\ ~SealSynced'
    BY <2>2 DEF SealWritten, SealSynced
  <2>4. TRUE \in BOOLEAN /\ r.synced <= r.synced
    BY <1>3
  <2> HIDE DEF r
  <2> QED
    BY <1>3, <1>4, <1>6, <2>1, <2>2, <2>3, <2>4, RawStepInv, Zenon DEF r
<1>9. CASE EndRecord
  <2>1. raw' = [raw EXCEPT ![Seg] = [written |-> r.written + 1, synced |-> r.synced,
                                     torn |-> FALSE]]
    <3>1. [r EXCEPT !.written = r.written + 1, !.torn = FALSE]
            = [written |-> r.written + 1, synced |-> r.synced, torn |-> FALSE]
      <4> DEFINE w == r.written + 1
      <4>1. w \in Nat /\ FALSE \in BOOLEAN
        BY <1>3
      <4> HIDE DEF w, r
      <4>2. [r EXCEPT !.written = w, !.torn = FALSE]
              = [written |-> w, synced |-> r.synced, torn |-> FALSE]
        BY <1>3, <4>1, RawFields, Zenon
      <4> QED
        BY <4>2 DEF w, r
    <3>2. raw' = [raw EXCEPT ![Seg] = [r EXCEPT !.written = r.written + 1, !.torn = FALSE]]
      BY <1>5, <1>9, Zenon DEF EndRecord
    <3> QED
      BY <3>1, <3>2, ZenonT(30)
  <2>2. wpc = "write" /\ (wpc' = "sync" \/ (wpc' = "count" /\ via' # "group"))
    BY <1>7, <1>9 DEF EndRecord, WStep, ControlInv
  <2>3. ~SealWritten /\ ~SealSynced /\ ~SealWritten' /\ ~SealSynced'
    BY <2>2 DEF SealWritten, SealSynced
  <2>4. r.written + 1 \in Nat /\ r.synced <= r.synced /\ r.synced <= r.written + 1
    BY <1>3, <1>4
  <2> QED
    BY <1>3, <1>6, <2>1, <2>2, <2>3, <2>4, RawStepInv, Zenon
<1>10. CASE Sync \/ DropWriter
  <2>1. raw' = [raw EXCEPT ![Seg] = [written |-> r.written, synced |-> r.written,
                                     torn |-> r.torn]]
    <3>1. [r EXCEPT !.synced = r.written]
            = [written |-> r.written, synced |-> r.written, torn |-> r.torn]
      BY <1>3, RawFields, Zenon
    <3>2. raw' = [raw EXCEPT ![Seg] = [r EXCEPT !.synced = r.written]]
      BY <1>10 DEF Sync, DropWriter
    <3> QED
      BY <3>1, <3>2, Zenon
  <2>2. \/ wpc = "sync" /\ wpc' \in {"count", "ack", "last"}
        \/ wpc = "failed" /\ wpc' = "done" /\ via' = "error"
    BY <1>10 DEF Sync, DropWriter, WStep
  <2>3. ~SealWritten /\ ~SealSynced /\ ~SealWritten' /\ ~SealSynced'
    BY <2>2 DEF SealWritten, SealSynced
  <2>4. r.written <= r.written
    BY <1>3
  <2> QED
    BY <1>3, <1>4, <1>6, <2>1, <2>2, <2>3, <2>4, RawStepInv, Zenon
<1> QED
  BY <1>8, <1>9, <1>10

(* BeginAck, EndAck and SyncAck: the journal only grows, and so does what    *)
(* was synced of it.                                                         *)
LEMMA AckStepInv ==
  ASSUME StreamInv, up, NEW p \in LogFile,
         prog' = [prog EXCEPT ![Seg] = p], UNCHANGED <<h, up, fol, raw, man>>,
         Len(prog[Seg].lines) <= Len(p.lines),
         \A i \in 1..Len(prog[Seg].lines) : p.lines[i] = prog[Seg].lines[i],
         GoodSegment(raw[Seg], p), Acknowledged(prog[Seg]) <= Acknowledged(p),
         acked' \in Nat, acked' = LastOf(p.lines),
         wpc \in {"ack", "line", "ackSync"},
         \/ /\ wpc' = "line" /\ p.synced = Len(p.lines) /\ acked' # raw[Seg].written
         \/ /\ wpc' = "ackSync" /\ acked' = raw[Seg].written
         \/ /\ wpc' = "durable" /\ p.synced = Len(p.lines) /\ acked' = raw[Seg].written
  PROVE  StreamInv'
<1>1. StreamTypeOK /\ ControlInv
  BY DEF StreamInv
<1>2. Steady /\ raw'[Seg] = raw[Seg] /\ prog'[Seg] = p /\ Seg' = Seg
  BY <1>1, ProgStep, Zenon
<1>3. ~SealWritten /\ ~SealSynced /\ ~SealWritten' /\ ~SealSynced'
  BY Zenon DEF SealWritten, SealSynced
<1>4. Len(man.lines) = Seg - 1 /\ man.synced = Seg - 1
  BY <1>1, <1>3, Zenon DEF ControlInv
<1>5. Synced' <=> Synced
  BY <1>2, Zenon DEF Synced, Seg
<1>6. Synced
  BY <1>1, Zenon DEF ControlInv
<1>7. ControlInv'
  BY <1>2, <1>3, <1>4, <1>5, <1>6, Zenon DEF ControlInv
<1>8. man' \in LogFile
  BY <1>1 DEF StreamTypeOK
<1> QED
  BY <1>2, <1>4, <1>7, <1>8, FileInv, Zenon

LEMMA BeginAckInv == StreamInv /\ BeginAck => StreamInv'
<1> SUFFICES ASSUME StreamInv, BeginAck PROVE StreamInv'
  BY Zenon
<1>1. CASE acked = raw[Seg].written
  BY <1>1, BetweenSteps
<1>2. CASE acked # raw[Seg].written
  <2> DEFINE p == prog[Seg]
             q == [lines |-> p.lines, synced |-> p.synced, torn |-> TRUE]
  <2>1. /\ up /\ wpc = "ack" /\ wpc' = "line" /\ UNCHANGED <<h, up, fol, raw, man, acked>>
        /\ prog' = [prog EXCEPT ![Seg] = [p EXCEPT !.torn = TRUE]]
    BY <1>2 DEF BeginAck, WStep, keep, wRest, readers
  <2>2. StreamTypeOK /\ SegmentsInv /\ ControlInv
    BY <2>1 DEF StreamInv
  <2>3. Seg \in 1..Seg
    BY <2>2, SegTyped
  <2>4. p \in LogFile /\ p.lines \in Seq(Nat) /\ p.synced \in Nat
    BY <2>2, <2>3, Typed
  <2>5. GoodSegment(raw[Seg], p)
    BY <2>2, <2>3 DEF SegmentsInv
  <2>6. acked = LastOf(p.lines) /\ p.synced = Len(p.lines) /\ acked \in Nat
    BY <2>1, <2>2 DEF ControlInv, StreamTypeOK
  <2> HIDE DEF p
  <2>7. [p EXCEPT !.torn = TRUE] = q
    BY <2>4, LogTorn, Zenon
  <2>8. q \in LogFile
    BY <2>4, LogMade, Zenon
  <2>9. GoodSegment(raw[Seg], q) /\ Acknowledged(q) = Acknowledged(p)
    BY <2>5 DEF GoodSegment, Acknowledged
  <2>10. Acknowledged(p) \in Nat
    BY <2>4, <2>5, AcknowledgedNat DEF GoodSegment
  <2>11. q.lines = p.lines /\ q.synced = p.synced /\ Len(p.lines) <= Len(q.lines)
    BY <2>4
  <2>12. prog' = [prog EXCEPT ![Seg] = q]
    BY <2>1, <2>7, Zenon
  <2> HIDE DEF q
  <2>13. Acknowledged(p) <= Acknowledged(q)
    BY <2>9, <2>10
  <2> QED
    BY <1>2, <2>1, <2>6, <2>8, <2>9, <2>11, <2>12, <2>13, AckStepInv, Zenon DEF p
<1> QED
  BY <1>1, <1>2

LEMMA EndAckInv == StreamInv /\ EndAck => StreamInv'
<1> SUFFICES ASSUME StreamInv, EndAck PROVE StreamInv'
  BY Zenon
<1> DEFINE p == prog[Seg]
           w == raw[Seg].written
           q == [lines |-> Append(p.lines, w), synced |-> p.synced, torn |-> FALSE]
<1>1. /\ up /\ wpc = "line" /\ wpc' = "ackSync" /\ UNCHANGED <<h, up, fol, raw, man>>
      /\ acked' = w
      /\ prog' = [prog EXCEPT ![Seg] = [p EXCEPT !.torn = FALSE, !.lines = Append(p.lines, w)]]
  <2>1. StreamTypeOK
    BY DEF StreamInv
  <2>2. Seg \in DOMAIN prog
    BY <2>1 DEF StreamTypeOK, Seg
  <2>3. prog' = [prog EXCEPT ![Seg] = [p EXCEPT !.torn = FALSE, !.lines = Append(p.lines, w)]]
    BY <2>2, Zenon DEF EndAck
  <2> QED
    BY <2>3, Zenon DEF EndAck, WStep, keep, wRest, readers
<1>2. StreamTypeOK /\ SegmentsInv /\ ControlInv
  BY <1>1, Zenon DEF StreamInv
<1>3. Seg \in 1..Seg
  BY <1>2, SegTyped, Zenon
<1>4. /\ p \in LogFile /\ p.lines \in Seq(Nat) /\ p.synced \in Nat /\ w \in Nat
      /\ raw[Seg].synced \in Nat
  BY <1>2, <1>3, Typed
<1>5. GoodSegment(raw[Seg], p)
  BY <1>2, <1>3, Zenon DEF SegmentsInv
<1>6. /\ acked = LastOf(p.lines) /\ p.synced = Len(p.lines) /\ acked # w
      /\ raw[Seg].synced = w
  BY <1>1, <1>2 DEF ControlInv, Synced
<1> HIDE DEF p, w
<1> DEFINE L == Append(p.lines, w)
<1>7. /\ L \in Seq(Nat) /\ Len(L) = Len(p.lines) + 1 /\ L[Len(p.lines) + 1] = w
      /\ \A j \in 1..Len(p.lines) : L[j] = p.lines[j]
  BY <1>4, Appended
<1>8. q \in LogFile
  BY <1>4, <1>7, LogMade, Zenon
<1>9. [p EXCEPT !.torn = FALSE, !.lines = L] = q
  BY <1>4, <1>7, LogAppended, Zenon
<1>10. /\ \A i \in 1..Len(p.lines) : 0 < p.lines[i] /\ p.lines[i] <= w /\ p.lines[i] \in Nat
       /\ \A i, j \in 1..Len(p.lines) : i < j => p.lines[i] < p.lines[j]
  BY <1>4, <1>5, <1>6 DEF GoodSegment, GoodLines
<1>11. /\ 0 < w
       /\ \A i \in 1..Len(p.lines) : p.lines[i] < w
  <2>1. CASE p.lines = <<>>
    BY <1>4, <1>6, <2>1 DEF LastOf
  <2>2. CASE p.lines # <<>>
    <3>1. /\ Len(p.lines) \in Nat \ {0} /\ Len(p.lines) \in 1..Len(p.lines)
      BY <1>4, <2>2
    <3>2. acked = p.lines[Len(p.lines)]
      BY <1>6, <2>2, Zenon DEF LastOf
    <3>3. acked < w /\ acked \in Nat
      BY <1>4, <1>6, <1>10, <3>1, <3>2
    <3>4. ASSUME NEW i \in 1..Len(p.lines) PROVE p.lines[i] < w
      <4>1. i = Len(p.lines) \/ p.lines[i] < acked
        BY <1>10, <3>1, <3>2
      <4> QED
        BY <1>4, <1>10, <3>2, <3>3, <4>1
    <3> QED
      BY <1>4, <3>3, <3>4
  <2> QED
    BY <2>1, <2>2
<1> HIDE DEF L
<1>12. GoodLines(L, w)
  <2>1. ASSUME NEW i \in 1..Len(L) PROVE 0 < L[i] /\ L[i] <= w
    <3>1. CASE i \in 1..Len(p.lines)
      BY <1>7, <1>10, <3>1, Zenon
    <3>2. CASE i = Len(p.lines) + 1
      BY <1>4, <1>7, <1>11, <3>2
    <3> QED
      BY <1>4, <1>7, <3>1, <3>2
  <2>2. ASSUME NEW i \in 1..Len(L), NEW j \in 1..Len(L), i < j PROVE L[i] < L[j]
    <3>1. i \in 1..Len(p.lines)
      BY <1>4, <1>7, <2>2
    <3>2. CASE j \in 1..Len(p.lines)
      BY <1>7, <1>10, <2>2, <3>1, <3>2, Zenon
    <3>3. CASE j = Len(p.lines) + 1
      BY <1>7, <1>11, <3>1, <3>3, Zenon
    <3> QED
      BY <1>4, <1>7, <3>2, <3>3
  <2> QED
    BY <2>1, <2>2, Zenon DEF GoodLines
<1>13. q.lines = L /\ q.synced = p.synced
  BY DEF L
<1>14. LastOf(L) = w
  BY <1>4, <1>7 DEF LastOf
<1>15. prog' = [prog EXCEPT ![Seg] = q]
  BY <1>1, <1>9, Zenon DEF L
<1> HIDE DEF q
<1>16. GoodSegment(raw[Seg], q)
  BY <1>4, <1>6, <1>7, <1>12, <1>13 DEF GoodSegment, w
<1>17. Acknowledged(p) <= Acknowledged(q)
  <2>1. Acknowledged(p) \in Nat
    BY <1>4, <1>5, AcknowledgedNat DEF GoodSegment
  <2>2. p.synced # 0 => q.lines[p.synced] = p.lines[p.synced]
    <3>1. p.synced # 0 => p.synced \in 1..Len(p.lines)
      BY <1>4, <1>6
    <3> QED
      BY <1>7, <1>13, <3>1
  <2> QED
    BY <1>13, <2>1, <2>2 DEF Acknowledged
<1>18. Len(p.lines) <= Len(q.lines) /\ \A i \in 1..Len(p.lines) : q.lines[i] = p.lines[i]
  BY <1>4, <1>7, <1>13
<1>19. acked' \in Nat /\ acked' = LastOf(q.lines) /\ acked' = raw[Seg].written
  BY <1>1, <1>4, <1>13, <1>14 DEF w
<1> QED
  BY <1>1, <1>8, <1>15, <1>16, <1>17, <1>18, <1>19, AckStepInv, Zenon DEF p

LEMMA SyncAckInv == StreamInv /\ SyncAck => StreamInv'
<1> SUFFICES ASSUME StreamInv, SyncAck PROVE StreamInv'
  BY Zenon
<1> DEFINE p == prog[Seg]
           q == [lines |-> p.lines, synced |-> Len(p.lines), torn |-> p.torn]
<1>1. /\ up /\ wpc = "ackSync" /\ wpc' = "durable" /\ UNCHANGED <<h, up, fol, raw, man, acked>>
      /\ prog' = [prog EXCEPT ![Seg] = [p EXCEPT !.synced = Len(p.lines)]]
  BY DEF SyncAck, WStep, keep, wRest, readers
<1>2. StreamTypeOK /\ SegmentsInv /\ ControlInv
  BY <1>1 DEF StreamInv
<1>3. Seg \in 1..Seg
  BY <1>2, SegTyped, Zenon
<1>4. p \in LogFile /\ p.lines \in Seq(Nat) /\ p.synced \in Nat /\ p.torn \in BOOLEAN
  BY <1>2, <1>3, Typed
<1>5. GoodSegment(raw[Seg], p)
  BY <1>2, <1>3, Zenon DEF SegmentsInv
<1>6. acked = LastOf(p.lines) /\ acked = raw[Seg].written /\ acked \in Nat
  BY <1>1, <1>2 DEF ControlInv, StreamTypeOK
<1> HIDE DEF p
<1>7. prog' = [prog EXCEPT ![Seg] = q]
  BY <1>1, <1>4, LogSynced, Zenon
<1>8. q \in LogFile
  BY <1>4, LogMade
<1>9. q.lines = p.lines /\ q.synced = Len(p.lines)
  OBVIOUS
<1> HIDE DEF q
<1>10. GoodSegment(raw[Seg], q)
  BY <1>4, <1>5, <1>9 DEF GoodSegment
<1>11. Acknowledged(p) <= Acknowledged(q)
  <2>1. CASE p.synced = 0
    <3>1. Acknowledged(q) \in Nat
      BY <1>8, <1>10, AcknowledgedNat DEF GoodSegment
    <3> QED
      BY <2>1, <3>1 DEF Acknowledged
  <2>2. CASE p.synced # 0
    <3>1. /\ p.synced \in 1..Len(p.lines) /\ Len(p.lines) \in 1..Len(p.lines)
      BY <1>4, <1>5, <2>2 DEF GoodSegment
    <3>2. p.lines[p.synced] \in Nat /\ p.lines[Len(p.lines)] \in Nat
      BY <1>4, <3>1
    <3>3. p.synced = Len(p.lines) \/ p.lines[p.synced] < p.lines[Len(p.lines)]
      BY <1>5, <3>1 DEF GoodSegment, GoodLines
    <3>4. p.lines[p.synced] <= p.lines[Len(p.lines)]
      BY <3>2, <3>3
    <3>5. Len(p.lines) # 0
      BY <3>1
    <3> QED
      BY <1>9, <2>2, <3>4, <3>5, Zenon DEF Acknowledged
  <2> QED
    BY <2>1, <2>2
<1>12. Len(p.lines) <= Len(q.lines) /\ \A i \in 1..Len(p.lines) : q.lines[i] = p.lines[i]
  BY <1>4, <1>9
<1> QED
  BY <1>1, <1>6, <1>7, <1>8, <1>9, <1>10, <1>11, <1>12, AckStepInv, Zenon DEF p

LEMMA BeginSealInv == StreamInv /\ BeginSeal => StreamInv'
<1> SUFFICES ASSUME StreamInv, BeginSeal PROVE StreamInv'
  BY Zenon
<1>1. CASE wpc' = "failed"
  BY <1>1, BetweenSteps
<1>2. CASE wpc' # "failed"
  <2>1. /\ up /\ wpc = "seal" /\ wpc' = "sealing" /\ acked = raw[Seg].written
        /\ man' = [man EXCEPT !.torn = TRUE]
        /\ UNCHANGED <<h, up, fol, raw, prog, acked, via>>
    BY <1>2 DEF BeginSeal, WStep, keep, wRest, readers
  <2>2. StreamTypeOK /\ SegmentsInv /\ ControlInv
    BY <2>1 DEF StreamInv
  <2>3. Seg \in 1..Seg /\ Seg' = Seg
    BY <2>1, <2>2, SegTyped DEF Seg
  <2>4. man' \in LogFile /\ man'.lines = man.lines /\ man'.synced = man.synced
    BY <2>1, <2>2, Zenon DEF StreamTypeOK, LogFile
  <2>5. prog[Seg].lines \in Seq(Nat) /\ prog[Seg] \in LogFile /\ raw[Seg] \in RawFile
    BY <2>2, <2>3, Typed
  <2>6. Steady
    <3>1. Len(prog[Seg].lines) <= Len(prog'[Seg].lines)
      BY <2>1, <2>5
    <3>2. raw' \in Seq(RawFile) /\ prog' \in Seq(LogFile)
      BY <2>1, <2>2 DEF StreamTypeOK
    <3> QED
      BY <2>1, <3>1, <3>2 DEF Steady
  <2>7. GoodSegment(raw[Seg], prog[Seg])
    BY <2>2, <2>3 DEF SegmentsInv
  <2>8. ~SealWritten /\ ~SealSynced /\ ~SealWritten' /\ ~SealSynced'
    BY <2>1 DEF SealWritten, SealSynced
  <2>9. Len(man.lines) = Seg - 1 /\ man.synced = Seg - 1 /\ Synced
    BY <2>1, <2>2, <2>8 DEF ControlInv
  <2>10. Synced' = Synced
    BY <2>1, <2>3 DEF Synced
  <2>11. ControlInv'
    BY <2>1, <2>2, <2>3, <2>4, <2>8, <2>9, <2>10, Zenon DEF ControlInv
  <2>12. Acknowledged(prog[Seg]) <= Acknowledged(prog'[Seg])
    <3>1. Acknowledged(prog[Seg]) \in Nat
      BY <2>5, <2>7, AcknowledgedNat DEF GoodSegment
    <3> QED
      BY <2>1, <3>1
  <2>13. acked' \in Nat
    BY <2>1, <2>2 DEF StreamTypeOK
  <2>14. GoodSegment(raw'[Seg], prog'[Seg])
    BY <2>1, <2>7
  <2> QED
    BY <2>1, <2>4, <2>6, <2>9, <2>11, <2>12, <2>13, <2>14, FileInv, Zenon
<1> QED
  BY <1>1, <1>2

(* The files of the segments stay.                                           *)
LEMMA SteadyFiles ==
  ASSUME StreamTypeOK, UNCHANGED <<raw, prog>>
  PROVE  Steady /\ Seg' = Seg
<1>1. prog[Seg].lines \in Seq(Nat)
  BY SegTyped, Typed
<1>2. Len(prog[Seg].lines) <= Len(prog'[Seg].lines)
  BY <1>1
<1> QED
  BY <1>2 DEF Steady, StreamTypeOK, Seg

LEMMA EndSealInv == StreamInv /\ EndSeal => StreamInv'
<1> SUFFICES ASSUME StreamInv, EndSeal PROVE StreamInv'
  BY Zenon
<1> DEFINE m == Sealed + raw[Seg].written
           L == Append(man.lines, m)
<1>1. /\ up /\ wpc = "sealing" /\ wpc' = "sealed"
      /\ man' = [man EXCEPT !.torn = FALSE, !.lines = L]
      /\ UNCHANGED <<h, up, fol, raw, prog, acked, via>>
  BY DEF EndSeal, WStep, keep, wRest, readers
<1>2. StreamTypeOK /\ SegmentsInv /\ ControlInv /\ ManifestInv /\ FollowerInv /\ DurableInv
  BY <1>1 DEF StreamInv
<1>3. Seg \in Nat \ {0} /\ Seg \in 1..Seg /\ Seg' = Seg /\ Steady
  BY <1>1, <1>2, SegTyped, SteadyFiles, Zenon
<1>4. raw[Seg].written \in Nat /\ man \in LogFile /\ man.lines \in Seq(Nat) /\ man.synced \in Nat
  BY <1>2, <1>3, Typed DEF StreamTypeOK, LogFile
<1>5. /\ acked = LastOf(prog[Seg].lines) /\ prog[Seg].synced = Len(prog[Seg].lines)
      /\ Len(man.lines) = Seg - 1 /\ man.synced = Seg - 1 /\ acked = raw[Seg].written /\ Synced
  BY <1>1, <1>2 DEF ControlInv, SealWritten, SealSynced
<1>6. Sealed = Before(Seg) /\ Sealed \in Nat
  BY <1>2, <1>3, <1>5, SealedIsBefore
<1>7. m \in Nat
  BY <1>4, <1>6
<1> HIDE DEF m
<1>8. /\ L \in Seq(Nat) /\ Len(L) = Seg /\ L[Seg] = m
      /\ \A j \in 1..(Seg - 1) : L[j] = man.lines[j]
  BY <1>3, <1>4, <1>5, <1>7, Appended
<1> HIDE DEF L
<1>9. man' = [lines |-> L, synced |-> man.synced, torn |-> FALSE]
  BY <1>1, <1>4, <1>8, LogAppended, Zenon
<1>10. man' \in LogFile /\ man'.lines = L /\ man'.synced = man.synced
  BY <1>4, <1>8, <1>9, LogMade, Zenon
<1>11. \A k \in 1..Seg : Before(k)' = Before(k)
  <2>1. ASSUME NEW k \in 1..Seg PROVE (IF k = 1 THEN 0 ELSE man'.lines[k - 1]) = Before(k)
    <3>1. k # 1 => k - 1 \in 1..(Seg - 1)
      BY <1>3
    <3> QED
      BY <1>8, <1>10, <3>1 DEF Before
  <2> QED
    BY <2>1 DEF Before
<1>12. StreamTypeOK'
  BY <1>1, <1>2, <1>10 DEF StreamTypeOK
<1>13. SegmentsInv'
  BY <1>1, <1>2, <1>3 DEF SegmentsInv
<1>14. ManifestInv'
  <2>1. ASSUME NEW k \in 1..Seg
        PROVE  /\ raw[k].synced = raw[k].written /\ LastOf(prog[k].lines) = raw[k].written
               /\ L[k] = raw[k].written + Before(k)
    <3>1. CASE k = Seg
      <4>1. raw[Seg].synced = raw[Seg].written /\ LastOf(prog[Seg].lines) = raw[Seg].written
        BY <1>5, Zenon DEF Synced
      <4>2. m = raw[Seg].written + Before(Seg)
        BY <1>4, <1>6 DEF m
      <4> QED
        BY <1>8, <3>1, <4>1, <4>2, Zenon
    <3>2. CASE k # Seg
      <4>1. k \in 1..(Seg - 1)
        BY <1>3, <3>2
      <4> QED
        BY <1>2, <1>5, <1>8, <4>1 DEF ManifestInv
    <3> QED
      BY <3>1, <3>2, Zenon
  <2>2. man'.synced <= Len(man'.lines)
    BY <1>3, <1>5, <1>8, <1>10
  <2> QED
    BY <1>1, <1>3, <1>8, <1>10, <1>11, <2>1, <2>2 DEF ManifestInv
<1>15. DurableInv'
  <2>1. Before(Seg)' = Before(Seg)
    BY <1>3, <1>11 DEF Before
  <2> QED
    BY <1>1, <1>2, <1>3, <2>1, Zenon DEF DurableInv, Acknowledged
<1>16. FollowerInv'
  <2>1. Len(man.lines) <= Len(man'.lines)
    BY <1>3, <1>5, <1>8, <1>10
  <2>2. \A i \in 1..Len(man.lines) : man'.lines[i] = man.lines[i]
    BY <1>5, <1>8, <1>10
  <2> QED
    BY <1>1, <1>2, <1>3, <1>10, <2>1, <2>2, SteadyFollower, Zenon
<1>17. ControlInv'
  <2>1. SealWritten' /\ ~SealSynced'
    BY <1>1 DEF SealWritten, SealSynced
  <2>2. Synced'
    BY <1>1, <1>3, <1>5 DEF Synced
  <2> QED
    BY <1>1, <1>3, <1>5, <1>8, <1>10, <2>1, <2>2 DEF ControlInv
<1> QED
  BY <1>1, <1>12, <1>13, <1>14, <1>15, <1>16, <1>17, Zenon DEF StreamInv

LEMMA SyncSealInv == StreamInv /\ SyncSeal => StreamInv'
<1> SUFFICES ASSUME StreamInv, SyncSeal PROVE StreamInv'
  BY Zenon
<1>1. /\ up /\ wpc = "sealed" /\ (wpc' = "open" \/ (wpc' = "done" /\ via = "end"))
      /\ man' = [man EXCEPT !.synced = Len(man.lines)]
      /\ UNCHANGED <<h, up, fol, raw, prog, acked, via>>
  BY DEF SyncSeal, WStep, keep, wRest, readers
<1>2. StreamTypeOK /\ SegmentsInv /\ ControlInv /\ ManifestInv /\ FollowerInv /\ DurableInv
  BY <1>1 DEF StreamInv
<1>3. Seg \in Nat \ {0} /\ Seg' = Seg
  BY <1>1, <1>2, SegTyped, Zenon DEF Seg
<1>4. man \in LogFile /\ man.lines \in Seq(Nat) /\ man.torn \in BOOLEAN
  BY <1>2 DEF StreamTypeOK, LogFile
<1>5. /\ acked = LastOf(prog[Seg].lines) /\ prog[Seg].synced = Len(prog[Seg].lines)
      /\ Len(man.lines) = Seg /\ acked = raw[Seg].written /\ Synced
  BY <1>1, <1>2 DEF ControlInv, SealWritten
<1>6. man' = [lines |-> man.lines, synced |-> Seg, torn |-> man.torn]
  BY <1>1, <1>4, <1>5, LogSynced, Zenon
<1>7. man' \in LogFile /\ man'.lines = man.lines /\ man'.synced = Seg
  BY <1>3, <1>4, <1>6, LogMade
<1>8. StreamTypeOK'
  BY <1>1, <1>2, <1>7 DEF StreamTypeOK
<1>9. SegmentsInv'
  BY <1>1, <1>2, <1>3 DEF SegmentsInv
<1>10. ManifestInv'
  <2>1. man'.synced <= Len(man'.lines)
    BY <1>3, <1>5, <1>7
  <2> QED
    BY <1>1, <1>2, <1>3, <1>7, <2>1, Zenon DEF ManifestInv, Before
<1>11. DurableInv'
  BY <1>1, <1>2, <1>3, <1>7 DEF DurableInv, Before, Acknowledged
<1>12. FollowerInv'
  BY <1>1, <1>2, <1>3, <1>7 DEF FollowerInv, Before
<1>13. ControlInv'
  <2>1. SealWritten' /\ SealSynced'
    BY <1>1 DEF SealWritten, SealSynced
  <2>2. Synced'
    BY <1>1, <1>3, <1>5, Zenon DEF Synced
  <2> QED
    BY <1>1, <1>3, <1>5, <1>7, <2>1, <2>2, Zenon DEF ControlInv
<1> QED
  BY <1>1, <1>8, <1>9, <1>10, <1>11, <1>12, <1>13, Zenon DEF StreamInv

LEMMA OpenSegmentInv == StreamInv /\ OpenSegment => StreamInv'
<1> SUFFICES ASSUME StreamInv, OpenSegment PROVE StreamInv'
  BY Zenon
<1>1. /\ up /\ wpc = "open" /\ wpc' = "append" /\ acked' = 0 /\ via' = "none"
      /\ raw' = Append(raw, EmptyRaw) /\ prog' = Append(prog, EmptyLog)
      /\ h' = [h EXCEPT !["segment"] = @ + 1]
      /\ UNCHANGED <<up, fol, man>>
  BY DEF OpenSegment, WStep, wRest, readers
<1>2. StreamTypeOK /\ SegmentsInv /\ ControlInv /\ ManifestInv /\ FollowerInv /\ DurableInv
  BY <1>1 DEF StreamInv
<1>3. Seg \in Nat \ {0} /\ Seg \in 1..Seg
  BY <1>2, SegTyped
<1>4. EmptyRaw \in RawFile /\ EmptyLog \in LogFile
  BY DEF EmptyRaw, EmptyLog, RawFile, LogFile
<1>5. /\ raw' \in Seq(RawFile) /\ Len(raw') = Seg + 1 /\ raw'[Seg + 1] = EmptyRaw
      /\ \A k \in 1..Seg : raw'[k] = raw[k]
  BY <1>1, <1>2, <1>4, Appended DEF StreamTypeOK, Seg
<1>6. /\ prog' \in Seq(LogFile) /\ Len(prog') = Seg + 1 /\ prog'[Seg + 1] = EmptyLog
      /\ \A k \in 1..Seg : prog'[k] = prog[k]
  BY <1>1, <1>2, <1>4, Appended DEF StreamTypeOK, Seg
<1>7. Seg' = Seg + 1
  BY <1>5, Zenon DEF Seg
<1>8. man.lines \in Seq(Nat) /\ Len(man.lines) = Seg /\ man.synced = Seg
  BY <1>1, <1>2, Zenon DEF ControlInv, SealWritten, SealSynced, StreamTypeOK, LogFile
<1>9. DOMAIN h' = FieldSet /\ h'["durable"] = h["durable"] /\ h["durable"] \in Nat
  <2>1. DOMAIN h = FieldSet /\ h["durable"] \in Nat
    BY <1>2, Zenon DEF StreamTypeOK
  <2> QED
    BY <1>1, <2>1, OtherCounter
<1>10. StreamTypeOK'
  BY <1>1, <1>2, <1>3, <1>5, <1>6, <1>9 DEF StreamTypeOK
<1>11. EmptyRaw.synced = 0 /\ EmptyRaw.written = 0 /\ EmptyLog.lines = <<>> /\ EmptyLog.synced = 0
  BY DEF EmptyRaw, EmptyLog
<1>12. SegmentsInv'
  <2>1. GoodSegment(EmptyRaw, EmptyLog)
    BY <1>11 DEF GoodSegment, GoodLines
  <2>2. ASSUME NEW k \in 1..(Seg + 1) PROVE GoodSegment(raw'[k], prog'[k])
    <3>1. CASE k \in 1..Seg
      BY <1>2, <1>5, <1>6, <3>1, Zenon DEF SegmentsInv
    <3>2. CASE k = Seg + 1
      BY <1>5, <1>6, <2>1, <3>2
    <3> QED
      BY <1>3, <3>1, <3>2
  <2> QED
    BY <1>7, <2>2 DEF SegmentsInv
<1>13. ManifestInv'
  <2>1. \A k : Before(k)' = Before(k)
    BY <1>1, Zenon DEF Before
  <2>2. ASSUME NEW k \in 1..Len(man.lines)
        PROVE  /\ raw'[k].synced = raw'[k].written /\ LastOf(prog'[k].lines) = raw'[k].written
               /\ man.lines[k] = raw'[k].written + Before(k)
    BY <1>2, <1>5, <1>6, <1>8, Zenon DEF ManifestInv
  <2>3. Len(man'.lines) \in {Seg' - 1, Seg'} /\ man'.synced <= Len(man'.lines)
    BY <1>1, <1>3, <1>7, <1>8
  <2> QED
    BY <1>1, <2>1, <2>2, <2>3, Zenon DEF ManifestInv
<1>14. DurableInv'
  <2>1. /\ raw[Seg].written \in Nat /\ prog[Seg] \in LogFile /\ prog[Seg].lines \in Seq(Nat)
        /\ prog[Seg].synced \in Nat
    BY <1>2, <1>3, Typed, Zenon
  <2>2. GoodSegment(raw[Seg], prog[Seg]) /\ raw[Seg].synced \in Nat
    BY <1>2, <1>3, Typed, Zenon DEF SegmentsInv
  <2>3. Acknowledged(prog[Seg]) \in Nat /\ Acknowledged(prog[Seg]) <= raw[Seg].written
    <3>1. Acknowledged(prog[Seg]) \in Nat
      BY <2>1, <2>2, AcknowledgedNat, Zenon DEF GoodSegment
    <3>2. prog[Seg].synced # 0 => prog[Seg].synced \in 1..Len(prog[Seg].lines)
      BY <2>1, <2>2 DEF GoodSegment
    <3>3. Acknowledged(prog[Seg]) <= raw[Seg].synced
      BY <2>2, <3>2 DEF GoodSegment, GoodLines, Acknowledged
    <3> QED
      BY <2>1, <2>2, <3>1, <3>3 DEF GoodSegment
  <2>4. man.lines[Seg] = raw[Seg].written + Before(Seg)
    BY <1>2, <1>3, <1>8, Zenon DEF ManifestInv
  <2>5. Before(Seg) \in Nat
    <3>1. Seg # 1 => Seg - 1 \in 1..Len(man.lines)
      BY <1>3, <1>8
    <3> QED
      BY <1>8, <3>1 DEF Before
  <2>6. h["durable"] <= man.lines[Seg]
    <3>1. h["durable"] <= Before(Seg) + Acknowledged(prog[Seg]) /\ h["durable"] \in Nat
      BY <1>2, <1>9 DEF DurableInv, StreamTypeOK
    <3> QED
      BY <2>1, <2>3, <2>4, <2>5, <3>1
  <2>7. Before(Seg)' = man.lines[Seg]
    BY <1>1, <1>3, <1>7 DEF Before
  <2>8. Acknowledged(prog[Seg])' = 0
    BY <1>6, <1>7, <1>11 DEF Acknowledged
  <2>9. man.lines[Seg] \in Nat
    BY <1>3, <1>8
  <2> QED
    BY <1>9, <2>6, <2>7, <2>8, <2>9 DEF DurableInv
<1>15. FollowerInv'
  <2>1. Before(fol.segment)' = Before(fol.segment)
    BY <1>1 DEF Before
  <2>2. ASSUME fol.bound
        PROVE  fol.segment \in 1..Seg' /\ prog'[fol.segment] = prog[fol.segment]
    <3>1. fol.segment \in 1..Seg
      BY <1>2, <2>2, Zenon DEF FollowerInv
    <3> QED
      BY <1>3, <1>6, <1>7, <3>1
  <2> QED
    BY <1>1, <1>2, <2>1, <2>2, Zenon DEF FollowerInv
<1>16. ControlInv'
  <2>1. ~SealWritten' /\ ~SealSynced'
    BY <1>1 DEF SealWritten, SealSynced
  <2>2. LastOf(prog'[Seg'].lines) = 0 /\ prog'[Seg'].synced = Len(prog'[Seg'].lines)
    BY <1>6, <1>7, <1>11 DEF LastOf
  <2>3. Len(man'.lines) = Seg' - 1 /\ man'.synced = Seg' - 1
    BY <1>1, <1>3, <1>7, <1>8
  <2> QED
    BY <1>1, <2>1, <2>2, <2>3 DEF ControlInv
<1> QED
  BY <1>1, <1>10, <1>12, <1>13, <1>14, <1>15, <1>16, Zenon DEF StreamInv

-----------------------------------------------------------------------------
(* The crash of the host.                                                    *)
LEMMA Prefix ==
  ASSUME NEW s \in Seq(Nat), NEW k \in 0..Len(s)
  PROVE  /\ SubSeq(s, 1, k) \in Seq(Nat) /\ Len(SubSeq(s, 1, k)) = k
         /\ \A i \in 1..k : SubSeq(s, 1, k)[i] = s[i]
  OBVIOUS

(* What a log keeps starts with what was synced of it.                       *)
LEMMA SurvivorFacts ==
  ASSUME NEW log \in LogFile, log.synced <= Len(log.lines), NEW m \in Survivors(log)
  PROVE  /\ m \in LogFile /\ m.lines \in Seq(Nat) /\ m.synced = Len(m.lines)
         /\ log.synced <= m.synced /\ m.synced <= Len(log.lines)
         /\ \A i \in 1..Len(m.lines) : m.lines[i] = log.lines[i]
<1>1. log.lines \in Seq(Nat) /\ log.synced \in Nat /\ log.torn \in BOOLEAN
  BY DEF LogFile
<1>2. PICK k \in log.synced..Len(log.lines),
           t \in {FALSE, log.torn \/ log.synced < Len(log.lines)} :
        m = [lines |-> SubSeq(log.lines, 1, k), synced |-> k, torn |-> t]
  BY DEF Survivors
<1>3. k \in 0..Len(log.lines) /\ k \in Nat /\ log.synced <= k /\ k <= Len(log.lines)
  BY <1>1
<1>4. t \in BOOLEAN
  BY <1>1, Zenon
<1>5. /\ SubSeq(log.lines, 1, k) \in Seq(Nat) /\ Len(SubSeq(log.lines, 1, k)) = k
      /\ \A i \in 1..k : SubSeq(log.lines, 1, k)[i] = log.lines[i]
  BY <1>1, <1>3, Prefix, Zenon
<1>6. m.lines = SubSeq(log.lines, 1, k) /\ m.synced = k
  BY <1>2
<1>7. m \in LogFile
  BY <1>2, <1>3, <1>4, <1>5, LogMade, Zenon
<1> QED
  BY <1>3, <1>5, <1>6, <1>7

LEMMA RawSurvivorFacts ==
  ASSUME NEW f \in RawFile, f.synced <= f.written, NEW r \in RawSurvivors(f)
  PROVE  /\ r \in RawFile /\ r.synced = r.written
         /\ f.synced <= r.synced /\ r.written <= f.written
<1>1. f.written \in Nat /\ f.synced \in Nat /\ f.torn \in BOOLEAN
  BY DEF RawFile
<1>2. PICK k \in f.synced..f.written, t \in {FALSE, f.torn \/ f.synced < f.written} :
        r = [written |-> k, synced |-> k, torn |-> t]
  BY DEF RawSurvivors
<1>3. k \in Nat /\ f.synced <= k /\ k <= f.written
  BY <1>1
<1>4. t \in BOOLEAN
  BY <1>1, Zenon
<1>5. r.synced = k /\ r.written = k
  BY <1>2, Zenon
<1>6. r \in RawFile
  BY <1>2, <1>3, <1>4, RawMade, Zenon
<1> QED
  BY <1>3, <1>5, <1>6

LEMMA GoodPrefix ==
  ASSUME NEW l \in Seq(Nat), NEW q \in Seq(Nat), NEW a \in Nat, NEW b \in Nat, a <= b,
         GoodLines(l, a), Len(q) <= Len(l), \A i \in 1..Len(q) : q[i] = l[i]
  PROVE  GoodLines(q, b)
<1>1. \A i \in 1..Len(q) : i \in 1..Len(l)
  OBVIOUS
<1>2. ASSUME NEW i \in 1..Len(q) PROVE 0 < q[i] /\ q[i] <= b
  <2>1. q[i] = l[i] /\ l[i] \in Nat /\ 0 < l[i] /\ l[i] <= a
    BY <1>1 DEF GoodLines
  <2> QED
    BY <2>1
<1>3. ASSUME NEW i \in 1..Len(q), NEW j \in 1..Len(q), i < j PROVE q[i] < q[j]
  BY <1>1, <1>3 DEF GoodLines
<1> QED
  BY <1>2, <1>3 DEF GoodLines

LEMMA SameLines ==
  ASSUME NEW l \in Seq(Nat), NEW q \in Seq(Nat), Len(q) = Len(l),
         \A i \in 1..Len(q) : q[i] = l[i]
  PROVE  q = l
  OBVIOUS

LEMMA CrashInv == StreamInv /\ Crash => StreamInv'
<1> SUFFICES ASSUME StreamInv, Crash PROVE StreamInv'
  BY Zenon
<1>1. /\ up /\ wpc # "done" /\ up' = FALSE /\ fol' = NotFollowing
      /\ UNCHANGED <<h, acked>>
  BY DEF Crash, writer
<1>2. PICK r \in RawSurvivors(raw[Seg]), p \in Survivors(prog[Seg]), m \in Survivors(man) :
        raw' = [raw EXCEPT ![Seg] = r] /\ prog' = [prog EXCEPT ![Seg] = p] /\ man' = m
  BY Zenon DEF Crash
<1>3. StreamTypeOK /\ SegmentsInv /\ ControlInv /\ ManifestInv /\ DurableInv
  BY <1>1, Zenon DEF StreamInv
<1>4. Seg \in Nat \ {0} /\ Seg \in 1..Seg /\ Seg \in 1..Len(raw) /\ Seg \in 1..Len(prog)
  BY <1>3, SegTyped, Zenon DEF StreamTypeOK, Seg
<1>5. /\ raw[Seg] \in RawFile /\ prog[Seg] \in LogFile /\ prog[Seg].lines \in Seq(Nat)
      /\ prog[Seg].synced \in Nat /\ raw[Seg].synced \in Nat /\ raw[Seg].written \in Nat
  BY <1>3, <1>4, Typed, Zenon
<1>6. man \in LogFile /\ man.lines \in Seq(Nat) /\ man.synced \in Nat
  BY <1>3 DEF StreamTypeOK, LogFile
<1>7. GoodSegment(raw[Seg], prog[Seg])
  BY <1>3, <1>4, Zenon DEF SegmentsInv
<1>8. man.synced <= Len(man.lines)
  BY <1>3, Zenon DEF ManifestInv
<1>9. /\ r \in RawFile /\ r.synced = r.written
      /\ raw[Seg].synced <= r.synced /\ r.written <= raw[Seg].written
  BY <1>5, <1>7, RawSurvivorFacts DEF GoodSegment
<1>10. /\ p \in LogFile /\ p.lines \in Seq(Nat) /\ p.synced = Len(p.lines)
       /\ prog[Seg].synced <= p.synced /\ p.synced <= Len(prog[Seg].lines)
       /\ \A i \in 1..Len(p.lines) : p.lines[i] = prog[Seg].lines[i]
  <2>1. prog[Seg].synced <= Len(prog[Seg].lines)
    BY <1>7, Zenon DEF GoodSegment
  <2> QED
    BY <1>5, <2>1, SurvivorFacts, Zenon
<1>11. /\ m \in LogFile /\ m.lines \in Seq(Nat) /\ m.synced = Len(m.lines)
       /\ man.synced <= m.synced /\ m.synced <= Len(man.lines)
       /\ \A i \in 1..Len(m.lines) : m.lines[i] = man.lines[i]
  BY <1>6, <1>8, SurvivorFacts, Zenon
<1>12. /\ raw' \in Seq(RawFile) /\ Len(raw') = Len(raw) /\ raw'[Seg] = r
       /\ \A k \in 1..Len(raw) : k # Seg => raw'[k] = raw[k]
  BY <1>2, <1>3, <1>4, <1>9, Update DEF StreamTypeOK
<1>13. /\ prog' \in Seq(LogFile) /\ Len(prog') = Len(prog) /\ prog'[Seg] = p
       /\ \A k \in 1..Len(prog) : k # Seg => prog'[k] = prog[k]
  BY <1>2, <1>3, <1>4, <1>10, Update DEF StreamTypeOK
<1>14. Seg' = Seg
  BY <1>12, Zenon DEF Seg
<1>15. NotFollowing \in Following /\ ~NotFollowing.poisoned /\ ~NotFollowing.bound
       /\ NotFollowing.segment = 0 /\ NotFollowing.read = 0 /\ NotFollowing.lines = 0
       /\ NotFollowing.records = 0
  BY DEF NotFollowing, Following
<1>16. StreamTypeOK'
  BY <1>1, <1>2, <1>3, <1>11, <1>12, <1>13, <1>15, Zenon DEF StreamTypeOK
<1>17. r.synced \in Nat /\ r.written \in Nat
  BY <1>9, Zenon DEF RawFile
<1>18. GoodSegment(r, p)
  <2>1. GoodLines(p.lines, r.synced)
    <3>1. GoodLines(prog[Seg].lines, raw[Seg].synced) /\ Len(p.lines) <= Len(prog[Seg].lines)
      BY <1>7, <1>10, Zenon DEF GoodSegment
    <3> QED
      BY <1>5, <1>9, <1>10, <1>17, <3>1, GoodPrefix, Zenon
  <2>2. r.synced <= r.written /\ p.synced <= Len(p.lines)
    BY <1>9, <1>10, <1>17
  <2> QED
    BY <2>1, <2>2 DEF GoodSegment
<1>19. SegmentsInv'
  <2>1. ASSUME NEW k \in 1..Seg PROVE GoodSegment(raw'[k], prog'[k])
    <3>1. CASE k = Seg
      BY <1>12, <1>13, <1>18, <3>1, Zenon
    <3>2. CASE k # Seg
      <4>1. raw'[k] = raw[k] /\ prog'[k] = prog[k]
        BY <1>3, <1>12, <1>13, <3>2, Zenon DEF StreamTypeOK, Seg
      <4> QED
        BY <1>3, <4>1, Zenon DEF SegmentsInv
    <3> QED
      BY <3>1, <3>2, Zenon
  <2> QED
    BY <1>14, <2>1, Zenon DEF SegmentsInv
<1>20. Len(m.lines) \in {Seg - 1, Seg} /\ (Len(m.lines) = Seg => SealWritten)
  <2>1. /\ Len(man.lines) = IF SealWritten THEN Seg ELSE Seg - 1
        /\ man.synced = IF SealSynced THEN Seg ELSE Seg - 1
    BY <1>3, Zenon DEF ControlInv
  <2> QED
    BY <1>4, <1>6, <1>11, <2>1
<1>21. ASSUME SealWritten
       PROVE  /\ r.written = raw[Seg].written /\ p.lines = prog[Seg].lines
  <2>1. wpc \in {"sealed", "open"}
    BY <1>1, <1>21, Zenon DEF SealWritten
  <2>2. raw[Seg].synced = raw[Seg].written /\ prog[Seg].synced = Len(prog[Seg].lines)
    BY <1>3, <2>1, Zenon DEF ControlInv, Synced
  <2>3. r.written = raw[Seg].written
    BY <1>5, <1>9, <1>17, <2>2
  <2>4. Len(p.lines) = Len(prog[Seg].lines)
    BY <1>5, <1>10, <2>2
  <2>5. p.lines = prog[Seg].lines
    BY <1>5, <1>10, <2>4, SameLines, Zenon
  <2> QED
    BY <2>3, <2>5, Zenon
<1>22. \A k \in 1..Seg : Before(k)' = Before(k)
  <2>1. ASSUME NEW k \in 1..Seg PROVE (IF k = 1 THEN 0 ELSE man'.lines[k - 1]) = Before(k)
    <3>1. k # 1 => k - 1 \in 1..Len(m.lines)
      BY <1>4, <1>20
    <3> QED
      BY <1>2, <1>11, <3>1, Zenon DEF Before
  <2> QED
    BY <2>1, Zenon DEF Before
<1>23. ManifestInv'
  <2>1. ASSUME NEW k \in 1..Len(m.lines)
        PROVE  /\ raw'[k].synced = raw'[k].written /\ LastOf(prog'[k].lines) = raw'[k].written
               /\ m.lines[k] = raw'[k].written + Before(k)'
    <3>1. k \in 1..Seg /\ k \in 1..Len(man.lines)
      <4>1. Len(m.lines) <= Seg /\ Len(m.lines) <= Len(man.lines)
        BY <1>4, <1>11, <1>20
      <4>2. Len(m.lines) \in Nat /\ Len(man.lines) \in Nat
        BY <1>6, <1>11
      <4> QED
        BY <1>4, <4>1, <4>2
    <3>2. /\ raw[k].synced = raw[k].written /\ LastOf(prog[k].lines) = raw[k].written
          /\ m.lines[k] = raw[k].written + Before(k)
      BY <1>3, <1>11, <3>1, Zenon DEF ManifestInv
    <3>3. Before(k)' = Before(k)
      BY <1>22, <3>1, Zenon
    <3>4. CASE k # Seg
      <4>1. raw'[k] = raw[k] /\ prog'[k] = prog[k]
        BY <1>3, <1>12, <1>13, <3>1, <3>4, Zenon DEF StreamTypeOK, Seg
      <4> QED
        BY <3>2, <3>3, <4>1, Zenon
    <3>5. CASE k = Seg
      <4>1. SealWritten
        BY <1>4, <1>20, <3>5
      <4>2. raw'[k].written = raw[k].written /\ prog'[k].lines = prog[k].lines
        BY <1>12, <1>13, <1>21, <3>5, <4>1, Zenon
      <4>3. raw'[k].synced = raw'[k].written
        BY <1>9, <1>12, <3>5, Zenon
      <4> QED
        BY <3>2, <3>3, <4>2, <4>3, Zenon
    <3> QED
      BY <3>4, <3>5
  <2>2. man'.synced <= Len(man'.lines)
    BY <1>2, <1>11
  <2> QED
    BY <1>2, <1>14, <1>20, <2>1, <2>2, Zenon DEF ManifestInv
<1>24. DurableInv'
  <2>1. Before(Seg)' = Before(Seg) /\ Before(Seg) \in Nat
    <3>1. Seg # 1 => Seg - 1 \in 1..Len(man.lines)
      BY <1>3, <1>4, <1>6 DEF ManifestInv
    <3>2. Before(Seg) \in Nat
      BY <1>6, <3>1 DEF Before
    <3>3. Before(Seg)' = (IF Seg = 1 THEN 0 ELSE man'.lines[Seg - 1])
      BY <1>14 DEF Before
    <3>4. Seg # 1 => Seg - 1 \in 1..Len(m.lines)
      BY <1>4, <1>20
    <3> QED
      BY <1>2, <1>11, <3>2, <3>3, <3>4, Zenon DEF Before
  <2>2. Acknowledged(prog[Seg]) \in Nat /\ Acknowledged(p) \in Nat
    BY <1>5, <1>7, <1>10, <1>18, AcknowledgedNat, Zenon DEF GoodSegment
  <2>3. Acknowledged(prog[Seg]) <= Acknowledged(p)
    <3>1. CASE prog[Seg].synced = 0
      BY <2>2, <3>1 DEF Acknowledged
    <3>2. CASE prog[Seg].synced # 0
      <4> DEFINE a == prog[Seg].synced
                 b == p.synced
      <4>1. /\ a \in 1..Len(prog[Seg].lines) /\ b \in 1..Len(prog[Seg].lines) /\ a <= b
            /\ b \in 1..Len(p.lines) /\ b # 0
        BY <1>5, <1>7, <1>10, <3>2 DEF GoodSegment
      <4>2. p.lines[b] = prog[Seg].lines[b]
        BY <1>10, <4>1, Zenon
      <4> HIDE DEF a, b
      <4>3. a = b \/ prog[Seg].lines[a] < prog[Seg].lines[b]
        BY <1>7, <4>1 DEF GoodSegment, GoodLines
      <4>4. prog[Seg].lines[a] \in Nat /\ prog[Seg].lines[b] \in Nat
        BY <1>5, <4>1, LineNat, Zenon
      <4>5. prog[Seg].lines[a] <= prog[Seg].lines[b]
        BY <4>3, <4>4
      <4> QED
        BY <3>2, <4>1, <4>2, <4>5, Zenon DEF Acknowledged, a, b
    <3> QED
      BY <3>1, <3>2, Zenon
  <2>4. h["durable"] <= Before(Seg) + Acknowledged(p)
    <3>1. h["durable"] \in Nat /\ h["durable"] <= Before(Seg) + Acknowledged(prog[Seg])
      BY <1>3, Zenon DEF StreamTypeOK, DurableInv
    <3> QED
      BY <2>1, <2>2, <2>3, <3>1
  <2>5. Acknowledged(prog[Seg])' = Acknowledged(p)
    BY <1>13, <1>14, Zenon DEF Acknowledged
  <2> QED
    BY <1>1, <2>1, <2>4, <2>5, Zenon DEF DurableInv
<1>25. FollowerInv'
  <2>1. fol'.segment <= Len(man'.lines) + 1
    BY <1>1, <1>2, <1>11, <1>15
  <2> QED
    BY <1>1, <1>15, <2>1 DEF FollowerInv
<1>26. prog'[Seg'].synced = Len(prog'[Seg'].lines)
  BY <1>10, <1>13, <1>14
<1> QED
  BY <1>1, <1>16, <1>19, <1>23, <1>24, <1>25, <1>26, Zenon DEF StreamInv

-----------------------------------------------------------------------------
(* The follower.                                                             *)
LEMMA FollowedInv ==
  ASSUME StreamInv, UNCHANGED fRest, fol' \in Following, FollowerInv'
  PROVE  StreamInv'
<1>1. UNCHANGED <<h, wpc, via, acked, raw, prog, man, up>>
  BY DEF fRest, writer, files
<1>2. StreamTypeOK'
  BY <1>1 DEF StreamInv, StreamTypeOK
<1>3. SegmentsInv'
  BY <1>1, Zenon DEF StreamInv, SegmentsInv, Seg
<1>4. ManifestInv'
  BY <1>1, Zenon DEF StreamInv, ManifestInv, Seg, Before
<1>5. DurableInv'
  BY <1>1, Zenon DEF StreamInv, DurableInv, Before, Acknowledged, Seg
<1>6. up' => ControlInv'
  BY <1>1 DEF StreamInv, ControlInv, SealWritten, SealSynced, Synced, Seg
<1>7. ~up' => prog'[Seg'].synced = Len(prog'[Seg'].lines)
  BY <1>1 DEF StreamInv, Seg
<1> QED
  BY <1>2, <1>3, <1>4, <1>5, <1>6, <1>7, Zenon DEF StreamInv

(* FollowerInv of a follower that is given.                                  *)
Follows(f) ==
  /\ ~f.poisoned
  /\ f.segment <= Len(man.lines) + 1
  /\ f.segment > 0 => f.before = Before(f.segment)
  /\ f.bound =>
       /\ f.segment \in 1..Seg
       /\ f.lines <= f.read /\ f.read <= Len(prog[f.segment].lines)
       /\ f.records = IF f.lines = 0 THEN 0 ELSE prog[f.segment].lines[f.lines]
  /\ ~f.bound => f.read = 0 /\ f.lines = 0 /\ f.records = 0

LEMMA FollowsInv ==
  ASSUME StreamInv, UNCHANGED fRest, NEW f \in Following, fol' = f, Follows(f)
  PROVE  StreamInv'
<1>1. UNCHANGED <<raw, prog, man>>
  BY Zenon DEF fRest, files
<1>2. FollowerInv'
  BY <1>1 DEF Follows, FollowerInv, Before, Seg
<1> QED
  BY <1>2, FollowedInv

(* The fields of a follower.                                                 *)
LEMMA FollowFields ==
  ASSUME NEW f \in Following
  PROVE  /\ f.segment \in Nat /\ f.before \in Nat /\ f.bound \in BOOLEAN /\ f.read \in Nat
         /\ f.lines \in Nat /\ f.records \in Nat /\ f.poisoned \in BOOLEAN
<1>1. /\ f.segment \in Nat /\ f.before \in Nat /\ f.read \in Nat /\ f.lines \in Nat
      /\ f.records \in Nat
  BY DEF Following
<1>2. f.bound \in BOOLEAN /\ f.poisoned \in BOOLEAN
  BY Zenon DEF Following
<1> QED
  BY <1>1, <1>2

LEMMA NotFollowingFacts ==
  /\ NotFollowing \in Following /\ ~NotFollowing.poisoned /\ ~NotFollowing.bound
  /\ NotFollowing.segment = 0 /\ NotFollowing.read = 0 /\ NotFollowing.lines = 0
  /\ NotFollowing.records = 0
  BY DEF NotFollowing, Following

(* A follower that starts on a segment.                                      *)
LEMMA StartsFollowing ==
  ASSUME NEW k \in Nat, NEW b \in Nat
  PROVE  LET f == [NotFollowing EXCEPT !.segment = k, !.before = b]
         IN  /\ f \in Following /\ ~f.poisoned /\ ~f.bound /\ f.segment = k /\ f.before = b
             /\ f.read = 0 /\ f.lines = 0 /\ f.records = 0
<1> DEFINE f == [NotFollowing EXCEPT !.segment = k, !.before = b]
<1>1. NotFollowing \in Following
  BY NotFollowingFacts
<1>2. f \in Following /\ f.segment = k /\ f.before = b
  BY <1>1, Zenon DEF Following
<1>3. f.bound = NotFollowing.bound /\ f.poisoned = NotFollowing.poisoned
  BY <1>1 DEF Following
<1>4. /\ f.read = NotFollowing.read /\ f.lines = NotFollowing.lines
      /\ f.records = NotFollowing.records
  BY <1>1 DEF Following
<1> QED
  BY <1>2, <1>3, <1>4, NotFollowingFacts, Zenon

LEMMA OpenStreamInv == StreamInv /\ OpenStream => StreamInv'
<1> SUFFICES ASSUME StreamInv, OpenStream PROVE StreamInv'
  BY Zenon
<1> DEFINE k == Len(man.lines) + 1
           f == [NotFollowing EXCEPT !.segment = k, !.before = Sealed]
<1>1. fol' = f /\ UNCHANGED fRest
  BY DEF OpenStream, ManifestScan
<1>2. StreamTypeOK
  BY Zenon DEF StreamInv
<1>3. Sealed = Before(k) /\ Sealed \in Nat
  BY <1>2, SealedIsBefore
<1>4. k \in Nat
  BY <1>2 DEF StreamTypeOK, LogFile
<1> HIDE DEF k
<1>5. /\ f \in Following /\ ~f.poisoned /\ ~f.bound /\ f.segment = k /\ f.before = Sealed
      /\ f.read = 0 /\ f.lines = 0 /\ f.records = 0
  BY <1>3, <1>4, StartsFollowing, ZenonT(30)
<1> HIDE DEF f
<1>6. f.segment <= Len(man.lines) + 1
  BY <1>4, <1>5 DEF k
<1>7. Follows(f)
  BY <1>3, <1>5, <1>6 DEF Follows
<1> QED
  BY <1>1, <1>5, <1>7, FollowsInv, Zenon

LEMMA BindInv == StreamInv /\ Bind => StreamInv'
<1> SUFFICES ASSUME StreamInv, Bind PROVE StreamInv'
  BY Zenon
<1> DEFINE f == [fol EXCEPT !.bound = TRUE]
<1>1. fol' = f /\ UNCHANGED fRest /\ fol.segment \in 1..Seg /\ ~fol.bound
  BY DEF Bind
<1>2. StreamTypeOK /\ FollowerInv /\ fol \in Following
  BY DEF StreamInv, StreamTypeOK
<1>3. /\ f \in Following /\ f.segment = fol.segment /\ f.before = fol.before
      /\ f.read = fol.read /\ f.lines = fol.lines /\ f.records = fol.records
  BY <1>2, Zenon DEF Following
<1>4. f.bound = TRUE /\ f.poisoned = fol.poisoned
  BY <1>2, Zenon DEF Following
<1> HIDE DEF f
<1>5. /\ ~fol.poisoned /\ fol.segment <= Len(man.lines) + 1
      /\ fol.segment > 0 => fol.before = Before(fol.segment)
  BY <1>2, Zenon DEF FollowerInv
<1>6. fol.read = 0 /\ fol.lines = 0 /\ fol.records = 0
  BY <1>1, <1>2, Zenon DEF FollowerInv
<1>7. prog[fol.segment].lines \in Seq(Nat)
  BY <1>1, <1>2, Typed, Zenon
<1>8. 0 <= Len(prog[fol.segment].lines)
  BY <1>7
<1>9. Follows(f)
  BY <1>1, <1>3, <1>4, <1>5, <1>6, <1>8 DEF Follows
<1> QED
  BY <1>1, <1>3, <1>9, FollowsInv

LEMMA ReadTailInv == StreamInv /\ ReadTail => StreamInv'
<1> SUFFICES ASSUME StreamInv, ReadTail PROVE StreamInv'
  BY Zenon
<1> DEFINE n == Len(prog[fol.segment].lines)
           f == [fol EXCEPT !.read = n]
<1>1. StreamTypeOK /\ FollowerInv /\ fol \in Following /\ fol.bound
  BY Zenon DEF StreamInv, StreamTypeOK, ReadTail
<1>2. fol.segment \in 1..Seg /\ fol.lines <= fol.read /\ fol.read <= n
  BY <1>1, Zenon DEF FollowerInv
<1>3. n \in Nat /\ fol.read \in Nat /\ fol.lines \in Nat
  BY <1>1, <1>2, Typed, FollowFields
<1>4. ~(n < fol.read) /\ fol.lines <= n
  BY <1>2, <1>3
<1>5. fol' = f /\ UNCHANGED fRest
  BY <1>4 DEF ReadTail
<1> HIDE DEF n
<1>6. /\ f \in Following /\ f.segment = fol.segment /\ f.before = fol.before
      /\ f.read = n /\ f.lines = fol.lines /\ f.records = fol.records
  BY <1>1, <1>3 DEF Following
<1>7. f.bound = fol.bound /\ f.poisoned = fol.poisoned
  BY <1>1, Zenon DEF Following
<1> HIDE DEF f
<1>8. n <= n
  BY <1>3
<1>9. Follows(f)
  BY <1>1, <1>4, <1>6, <1>7, <1>8, Zenon DEF FollowerInv, Follows, n
<1> QED
  BY <1>5, <1>6, <1>9, FollowsInv, Zenon

LEMMA VerifyLineInv == StreamInv /\ VerifyLine => StreamInv'
<1> SUFFICES ASSUME StreamInv, VerifyLine PROVE StreamInv'
  BY Zenon
<1> DEFINE k == fol.segment
           i == fol.lines + 1
           ack == prog[k].lines[i]
           f == [fol EXCEPT !.lines = @ + 1, !.records = ack]
<1>1. StreamTypeOK /\ FollowerInv /\ SegmentsInv /\ fol \in Following
  BY DEF StreamInv, StreamTypeOK
<1>2. fol.bound /\ fol.lines < fol.read
  BY Zenon DEF VerifyLine
<1>3. /\ k \in 1..Seg /\ fol.lines <= fol.read /\ fol.read <= Len(prog[k].lines)
      /\ fol.records = IF fol.lines = 0 THEN 0 ELSE prog[k].lines[fol.lines]
  BY <1>1, <1>2 DEF FollowerInv
<1>4. fol.read \in Nat /\ fol.lines \in Nat /\ fol.records \in Nat
  BY <1>1, FollowFields, Zenon
<1>5. /\ prog[k].lines \in Seq(Nat) /\ raw[k].synced \in Nat /\ raw[k].written \in Nat
  BY <1>1, <1>3, Typed, Zenon
<1>6. GoodSegment(raw[k], prog[k])
  BY <1>1, <1>3, Zenon DEF SegmentsInv
<1>7. i \in 1..Len(prog[k].lines) /\ i \in Nat /\ i # 0 /\ i <= fol.read
  <2>1. Len(prog[k].lines) \in Nat
    BY <1>5
  <2> QED
    BY <1>2, <1>3, <1>4, <2>1
<1>8. ack \in Nat /\ 0 < ack /\ ack <= raw[k].synced
  BY <1>5, <1>6, <1>7 DEF GoodSegment, GoodLines
<1>9. fol.records < ack
  <2>1. CASE fol.lines = 0
    BY <1>3, <1>8, <2>1, Zenon
  <2>2. CASE fol.lines # 0
    <3>1. fol.lines \in 1..Len(prog[k].lines) /\ fol.lines < i
      BY <1>4, <1>5, <1>7, <2>2
    <3>2. prog[k].lines[fol.lines] < ack
      BY <1>6, <1>7, <3>1, Zenon DEF GoodSegment, GoodLines
    <3> QED
      BY <1>3, <2>2, <3>2, Zenon
  <2> QED
    BY <2>1, <2>2, Zenon
<1>10. ack # fol.records /\ Extends(ack)
  <2>1. raw[k].synced <= raw[k].written
    BY <1>6, Zenon DEF GoodSegment
  <2> HIDE DEF ack
  <2>2. ack # fol.records /\ ack >= fol.records /\ raw[k].written >= ack
    BY <1>4, <1>5, <1>8, <1>9, <2>1
  <2> QED
    BY <2>2, Zenon DEF Extends, RangeReadable
<1>11. fol' = [fol EXCEPT !.lines = @ + 1, !.records = ack] /\ UNCHANGED fRest
  BY <1>10 DEF VerifyLine
<1> HIDE DEF ack
<1>12. /\ f \in Following /\ f.segment = fol.segment /\ f.before = fol.before
       /\ f.read = fol.read /\ f.lines = i /\ f.records = ack
  BY <1>1, <1>4, <1>7, <1>8, Zenon DEF Following
<1>13. f.bound = fol.bound /\ f.poisoned = fol.poisoned
  BY <1>1 DEF Following
<1>14. fol' = f
  BY <1>11, Zenon
<1> HIDE DEF f
<1>15. Follows(f)
  <2>1. /\ ~f.poisoned /\ f.segment <= Len(man.lines) + 1
        /\ f.segment > 0 => f.before = Before(f.segment)
    BY <1>1, <1>12, <1>13, Zenon DEF FollowerInv
  <2>2. /\ f.segment \in 1..Seg /\ f.lines <= f.read /\ f.read <= Len(prog[f.segment].lines)
        /\ f.records = IF f.lines = 0 THEN 0 ELSE prog[f.segment].lines[f.lines]
    BY <1>3, <1>7, <1>12, Zenon DEF ack
  <2> QED
    BY <1>2, <1>13, <2>1, <2>2, Zenon DEF Follows
<1> QED
  BY <1>11, <1>12, <1>14, <1>15, FollowsInv, Zenon

LEMMA AdvanceInv == StreamInv /\ Advance => StreamInv'
<1> SUFFICES ASSUME StreamInv, Advance PROVE StreamInv'
  BY Zenon
<1> DEFINE k == fol.segment
           seal == man.lines[k] - fol.before
           f == [NotFollowing EXCEPT !.segment = k + 1, !.before = fol.before + seal]
<1>1. StreamTypeOK /\ FollowerInv /\ SegmentsInv /\ ManifestInv /\ fol \in Following
  BY DEF StreamInv, StreamTypeOK
<1>2. fol.bound /\ fol.lines = fol.read /\ k <= Len(man.lines)
  BY Zenon DEF Advance, ManifestScan
<1>3. /\ k \in 1..Seg /\ fol.read <= Len(prog[k].lines)
      /\ fol.records = IF fol.lines = 0 THEN 0 ELSE prog[k].lines[fol.lines]
  BY <1>1, <1>2 DEF FollowerInv
<1>4. /\ fol.read \in Nat /\ fol.lines \in Nat /\ fol.records \in Nat /\ fol.before \in Nat
      /\ k \in Nat
  BY <1>1, FollowFields, Zenon
<1>5. /\ prog[k].lines \in Seq(Nat) /\ raw[k].synced \in Nat /\ raw[k].written \in Nat
  BY <1>1, <1>3, Typed, Zenon
<1>6. GoodSegment(raw[k], prog[k])
  BY <1>1, <1>3, Zenon DEF SegmentsInv
<1>7. man.lines \in Seq(Nat) /\ k \in 1..Len(man.lines)
  BY <1>1, <1>2, <1>3, <1>4 DEF StreamTypeOK, LogFile
<1>8. man.lines[k] = raw[k].written + Before(k) /\ fol.before = Before(k)
  BY <1>1, <1>3, <1>4, <1>7 DEF ManifestInv, FollowerInv
<1>9. seal = raw[k].written
  BY <1>4, <1>5, <1>8
<1>10. fol.records <= raw[k].synced
  <2>1. fol.lines # 0 => fol.lines \in 1..Len(prog[k].lines)
    BY <1>2, <1>3, <1>4, <1>5
  <2> QED
    BY <1>3, <1>5, <1>6, <2>1 DEF GoodSegment, GoodLines
<1>11. Extends(seal)
  <2>1. raw[k].written >= fol.records
    BY <1>4, <1>5, <1>6, <1>10 DEF GoodSegment
  <2>2. raw[k].written >= raw[k].written
    BY <1>5
  <2> QED
    BY <1>9, <2>1, <2>2, Zenon DEF Extends, RangeReadable
<1>12. fol' = f /\ UNCHANGED fRest
  BY <1>11 DEF Advance, ManifestScan
<1>13. fol.before + seal = man.lines[k] /\ man.lines[k] \in Nat
  BY <1>4, <1>7
<1> HIDE DEF seal
<1>14. /\ f \in Following /\ ~f.poisoned /\ ~f.bound /\ f.segment = k + 1
       /\ f.before = man.lines[k] /\ f.read = 0 /\ f.lines = 0 /\ f.records = 0
  <2> DEFINE n == k + 1
             b == fol.before + seal
  <2>1. n \in Nat /\ b \in Nat /\ b = man.lines[k]
    BY <1>4, <1>13
  <2> HIDE DEF n, b
  <2>2. LET g == [NotFollowing EXCEPT !.segment = n, !.before = b]
        IN  /\ g \in Following /\ ~g.poisoned /\ ~g.bound /\ g.segment = n /\ g.before = b
            /\ g.read = 0 /\ g.lines = 0 /\ g.records = 0
    BY <2>1, StartsFollowing, ZenonT(30)
  <2> QED
    BY <2>1, <2>2 DEF n, b
<1> HIDE DEF f
<1>15. Follows(f)
  <2>1. f.segment <= Len(man.lines) + 1
    BY <1>4, <1>7, <1>14
  <2>2. Before(f.segment) = man.lines[k]
    BY <1>4, <1>7, <1>14 DEF Before
  <2> QED
    BY <1>14, <2>1, <2>2 DEF Follows
<1> QED
  BY <1>12, <1>14, <1>15, FollowsInv, Zenon

-----------------------------------------------------------------------------
(* Every step keeps the invariant.                                           *)
LEMMA StreamNext == StreamInv /\ [Next]_vars => StreamInv'
<1> SUFFICES ASSUME StreamInv, [Next]_vars PROVE StreamInv'
  OBVIOUS
<1>1. CASE Tick \/ Producer \/ LoadField \/ FinishSample \/ TerminalSample
  BY <1>1, BesideSteps
<1>2. CASE \/ Take \/ Dequeue \/ CountWritten \/ NoteMarket \/ Idle \/ Drained \/ NoteDurable
           \/ NoteSync \/ NoteMaxSync
  BY <1>2, BetweenSteps
<1>3. CASE BeginRecord \/ EndRecord \/ Sync \/ DropWriter
  BY <1>3, RawSteps
<1>4. CASE BeginAck \/ EndAck \/ SyncAck \/ CountDurable
  BY <1>4, BeginAckInv, EndAckInv, SyncAckInv, CountDurableInv
<1>5. CASE BeginSeal \/ EndSeal \/ SyncSeal \/ OpenSegment
  BY <1>5, BeginSealInv, EndSealInv, SyncSealInv, OpenSegmentInv
<1>6. CASE Crash
  BY <1>6, CrashInv
<1>7. CASE Follower
  BY <1>7, OpenStreamInv, BindInv, ReadTailInv, VerifyLineInv, AdvanceInv, Zenon
     DEF Follower, Polled
<1>8. CASE UNCHANGED vars
  <2>1. UNCHANGED fRest /\ UNCHANGED fol
    BY <1>8, Zenon DEF vars, fRest, producer, writer, files, readers
  <2>2. FollowerInv' /\ fol' \in Following
    BY <2>1 DEF StreamInv, StreamTypeOK, FollowerInv, fRest, files, Before, Seg
  <2> QED
    BY <2>1, <2>2, FollowedInv, Zenon
<1> QED
  BY <1>1, <1>2, <1>3, <1>4, <1>5, <1>6, <1>7, <1>8 DEF Next, Writer

(* The writer, its files, a crash and the follower, for every group size,    *)
(* segment length and number of frames.                                      *)
THEOREM StreamInvariance == Spec => []StreamInv
<1> QED
  BY StreamInit, StreamNext, PTL DEF Spec

(* Whatever the writer is doing when the follower looks, the follower never  *)
(* takes a half-written, unsynced or crash-torn journal or manifest for      *)
(* corruption, its base is the seal of the segment before, and the prefix it *)
(* has verified is one a sync of the raw file covers.                        *)
THEOREM FollowerNeverPoisoned == Spec => []FollowerAcceptsWriter
<1>1. StreamInv => FollowerAcceptsWriter
  <2> SUFFICES ASSUME StreamInv PROVE FollowerAcceptsWriter
    BY Zenon
  <2>1. StreamTypeOK /\ FollowerInv /\ SegmentsInv /\ fol \in Following
    BY DEF StreamInv, StreamTypeOK
  <2>2. fol.segment \in Nat /\ fol.lines \in Nat /\ fol.read \in Nat
    BY <2>1, FollowFields, Zenon
  <2>3. fol.segment > 1 => fol.before = man.lines[fol.segment - 1]
    BY <2>1, <2>2 DEF FollowerInv, Before
  <2>4. ASSUME fol.bound PROVE fol.records <= raw[fol.segment].synced
    <3> DEFINE k == fol.segment
    <3>1. /\ k \in 1..Seg /\ fol.lines <= fol.read /\ fol.read <= Len(prog[k].lines)
          /\ fol.records = IF fol.lines = 0 THEN 0 ELSE prog[k].lines[fol.lines]
      BY <2>1, <2>4, Zenon DEF FollowerInv
    <3>2. prog[k].lines \in Seq(Nat) /\ raw[k].synced \in Nat
      BY <2>1, <3>1, Typed, Zenon
    <3>3. GoodSegment(raw[k], prog[k])
      BY <2>1, <3>1, Zenon DEF SegmentsInv
    <3>4. fol.lines # 0 => fol.lines \in 1..Len(prog[k].lines)
      BY <2>2, <3>1, <3>2
    <3> QED
      BY <3>1, <3>2, <3>3, <3>4 DEF GoodSegment, GoodLines
  <2>5. ~fol.poisoned
    BY <2>1, Zenon DEF FollowerInv
  <2> QED
    BY <2>3, <2>4, <2>5 DEF FollowerAcceptsWriter
<1> QED
  BY <1>1, StreamInvariance, PTL

(* A crash between any two steps of the writer, with any part of what was    *)
(* not synced lost or torn, leaves ACKs that raw records back, seals that    *)
(* the journals agree with, and a recoverable prefix that holds every frame  *)
(* the durable counter had counted.                                          *)
THEOREM CrashKeepsWhatWasDurable == Spec => []CrashKeepsDurable
<1>1. StreamInv => CrashKeepsDurable
  <2> SUFFICES ASSUME StreamInv, ~up PROVE
        /\ \A k \in 1..Seg : Recovered(k) <= raw[k].written
        /\ \A k \in DOMAIN man.lines :
             man.lines[k] = Recovered(k) + (IF k = 1 THEN 0 ELSE man.lines[k - 1])
        /\ h["durable"] <= (IF Seg = 1 THEN 0 ELSE man.lines[Seg - 1]) + Recovered(Seg)
    BY DEF CrashKeepsDurable
  <2>1. StreamTypeOK /\ SegmentsInv /\ ManifestInv /\ DurableInv
    BY DEF StreamInv
  <2>2. \A k : Recovered(k) = LastOf(prog[k].lines)
    BY DEF Recovered, LastOf
  <2>3. ASSUME NEW k \in 1..Seg PROVE Recovered(k) <= raw[k].written
    <3>1. /\ prog[k].lines \in Seq(Nat) /\ raw[k].synced \in Nat /\ raw[k].written \in Nat
      BY <2>1, <2>3, Typed, Zenon
    <3>2. GoodSegment(raw[k], prog[k])
      BY <2>1, <2>3, Zenon DEF SegmentsInv
    <3>3. raw[k].synced <= raw[k].written /\ GoodLines(prog[k].lines, raw[k].synced)
      BY <3>2, Zenon DEF GoodSegment
    <3>4. LastOf(prog[k].lines) \in Nat /\ LastOf(prog[k].lines) <= raw[k].synced
      BY <3>1, <3>3, LastCovered
    <3> QED
      BY <2>2, <3>1, <3>3, <3>4
  <2>4. Seg \in Nat /\ Seg >= 1 /\ man.lines \in Seq(Nat)
    BY <2>1 DEF StreamTypeOK, Seg, LogFile
  <2>5. ASSUME NEW k \in DOMAIN man.lines
        PROVE  man.lines[k] = Recovered(k) + (IF k = 1 THEN 0 ELSE man.lines[k - 1])
    <3>1. k \in 1..Len(man.lines)
      BY <2>4, <2>5
    <3>2. LastOf(prog[k].lines) = raw[k].written /\ man.lines[k] = raw[k].written + Before(k)
      BY <2>1, <3>1, Zenon DEF ManifestInv
    <3> QED
      BY <2>2, <3>2, Zenon DEF Before
  <2>6. h["durable"] <= (IF Seg = 1 THEN 0 ELSE man.lines[Seg - 1]) + Recovered(Seg)
    <3>1. Acknowledged(prog[Seg]) = LastOf(prog[Seg].lines)
      BY <2>1, <2>4, SegTyped DEF StreamInv, Acknowledged, LastOf
    <3> QED
      BY <2>1, <2>2, <3>1, Zenon DEF DurableInv, Before
  <2> QED
    BY <2>3, <2>5, <2>6, Zenon
<1> QED
  BY <1>1, StreamInvariance, PTL

(* The inductive invariant of the counters and of the records taken of them. *)
THEOREM TelemetryInvariance == Spec => []TelemetryInv
<1> QED
  BY StreamInvariance, TelemetryInit, TelemetryNext, CausalCounters, PTL DEF Spec

(* Taken without a lock, one counter after the other, with any steps of the  *)
(* producer and the writer between two loads, a telemetry record is causal,  *)
(* never goes back from the one before, and the last one of a clean run      *)
(* agrees with the sealed segments.                                          *)
THEOREM TelemetryNeverAborts == Spec => []TelemetryIsCausal
<1>1. TelemetryInv => TelemetryIsCausal
  BY DEF TelemetryInv, RecordsInv, TelemetryIsCausal
<1> QED
  BY <1>1, TelemetryInvariance, PTL
=============================================================================
