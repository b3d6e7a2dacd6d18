----------------------- MODULE SegmentedCaptureProofs -----------------------
(***************************************************************************)
(* Proofs about SegmentedCapture, for every set of streams, queue bound,   *)
(* group size and segment length, and any number of frames, faults and     *)
(* ticks.                                                                  *)
(***************************************************************************)
EXTENDS SegmentedCapture, TLAPS

Frame == [mono : Nat, kind : {"market", "shutdown"}]
Event == {"SEGMENT", "SHUTDOWN"} \X Nat

FilesTypeOK ==
  /\ now \in Nat
  /\ chan \in [Streams -> Seq(Frame)]
  /\ held \in [Streams -> Frame \union {None}]
  /\ wpc \in [Streams -> {"recv", "seal", "append", "announce", "done"}]
  /\ raw \in [Streams -> Seq(Frame)]
  /\ durable \in [Streams -> Nat]
  /\ acked \in [Streams -> Nat]
  /\ acks \in [Streams -> SUBSET Nat]
  /\ manifest \in [Streams -> Seq(Nat \X Nat)]
  /\ evq \in [Streams -> Seq(Event)]
  /\ emitted \in [Streams -> Seq(Event)]

(* An event is backed by n sealed segments, d synced records and the         *)
(* acknowledgements A.                                                       *)
Backing(n, d, A, e) ==
  /\ e[1] = "SEGMENT" => e[2] \in 1..n
  /\ e[1] = "SHUTDOWN" => e[2] <= d /\ e[2] \in A

Backed(s, e) == Backing(Len(manifest[s]), durable[s], acks[s], e)

(* The writer of a stream and its files: an acknowledgement covers synced    *)
(* records, so does a seal, and so does every event.                         *)
WriterInv(s) ==
  /\ durable[s] <= Len(raw[s])
  /\ acked[s] # NoAck => acked[s] \in acks[s] /\ acked[s] <= durable[s]
  /\ wpc[s] = "append" => held[s] # None
  /\ wpc[s] = "announce" => raw[s] # <<>>
  /\ \A i \in 1..Len(manifest[s]) : manifest[s][i][2] <= durable[s]
  /\ \A i \in 1..Len(emitted[s]) : Backed(s, emitted[s][i])
  /\ \A i \in 1..Len(evq[s]) : Backed(s, evq[s][i])

FilesInv == FilesTypeOK /\ \A s \in Streams : WriterInv(s)

(* Every element of c is one of a or of b.                                   *)
From(c, a, b) ==
  /\ DOMAIN c = 1..Len(c)
  /\ \A i \in 1..Len(c) : \/ \E j \in 1..Len(a) : c[i] = a[j]
                          \/ \E j \in 1..Len(b) : c[i] = b[j]

LEMMA ConcatElements ==
  ASSUME NEW S, NEW a \in Seq(S), NEW b \in Seq(S)
  PROVE  a \o b \in Seq(S) /\ From(a \o b, a, b)
<1>1. a \o b \in Seq(S) /\ DOMAIN (a \o b) = 1..Len(a \o b) /\ Len(a \o b) = Len(a) + Len(b)
  OBVIOUS
<1>2. ASSUME NEW i \in 1..Len(a \o b)
      PROVE  \/ \E j \in 1..Len(a) : (a \o b)[i] = a[j]
             \/ \E j \in 1..Len(b) : (a \o b)[i] = b[j]
  <2>1. CASE i <= Len(a)
    <3>1. i \in 1..Len(a) /\ (a \o b)[i] = a[i]
      BY <1>1, <2>1
    <3> QED
      BY <3>1
  <2>2. CASE ~(i <= Len(a))
    <3>1. i - Len(a) \in 1..Len(b) /\ (a \o b)[i] = b[i - Len(a)]
      BY <1>1, <2>2
    <3> QED
      BY <3>1
  <2> QED
    BY <2>1, <2>2
<1> QED
  BY <1>1, <1>2 DEF From

LEMMA FilesInit == Init => FilesInv
<1> SUFFICES ASSUME Init PROVE FilesInv
  OBVIOUS
<1>1. FilesTypeOK
  BY DEF Init, FilesTypeOK, NoAck, Frame, Event
<1>2. ASSUME NEW s \in Streams PROVE WriterInv(s)
  BY DEF Init, WriterInv, NoAck
<1> QED
  BY <1>1, <1>2 DEF FilesInv

(* The state of a stream that WriterInv reads.                               *)
Same(s) ==
  /\ durable'[s] = durable[s] /\ raw'[s] = raw[s] /\ acked'[s] = acked[s] /\ acks'[s] = acks[s]
  /\ wpc'[s] = wpc[s] /\ held'[s] = held[s] /\ manifest'[s] = manifest[s]
  /\ emitted'[s] = emitted[s] /\ evq'[s] = evq[s]

LEMMA SameInv ==
  ASSUME NEW s \in Streams, WriterInv(s), Same(s)
  PROVE  WriterInv(s)'
  BY DEF WriterInv, Same, Backed

(* Nothing of a stream's files changes but by its writer.                    *)
LEMMA QuietInv ==
  ASSUME FilesInv, now' \in Nat, chan' \in [Streams -> Seq(Frame)],
         UNCHANGED <<files, writer, emitted>>
  PROVE  FilesInv'
<1>1. FilesTypeOK'
  BY DEF FilesInv, FilesTypeOK, files, writer
<1>2. \A s \in Streams : Same(s)
  BY DEF Same, files, writer
<1> QED
  BY <1>1, <1>2, SameInv DEF FilesInv

(* A step of the writer of s: what is durable and acknowledged grows, and    *)
(* a new event is backed.                                                    *)
LEMMA WriterStepInv ==
  ASSUME FilesInv, FilesTypeOK', NEW s \in Streams,
         \A t \in Streams \ {s} : Same(t),
         emitted'[s] = emitted[s],
         durable[s] <= durable'[s], acks[s] \subseteq acks'[s],
         Len(manifest[s]) <= Len(manifest'[s]),
         \A i \in 1..Len(manifest'[s]) : manifest'[s][i][2] <= durable'[s],
         \A i \in 1..Len(evq'[s]) :
           \/ i \in 1..Len(evq[s]) /\ evq'[s][i] = evq[s][i]
           \/ Backing(Len(manifest'[s]), durable'[s], acks'[s], evq'[s][i]),
         durable'[s] <= Len(raw'[s]),
         acked'[s] # NoAck => acked'[s] \in acks'[s] /\ acked'[s] <= durable'[s],
         wpc'[s] = "append" => held'[s] # None,
         wpc'[s] = "announce" => raw'[s] # <<>>
  PROVE  FilesInv'
<1>1. WriterInv(s) /\ FilesTypeOK
  BY DEF FilesInv
<1>2. ASSUME NEW e \in Event, Backed(s, e)
      PROVE  Backing(Len(manifest'[s]), durable'[s], acks'[s], e)
  <2>1. e[2] \in Nat /\ durable[s] \in Nat /\ durable'[s] \in Nat
    BY <1>1 DEF FilesTypeOK, Event
  <2>2. Len(manifest[s]) \in Nat /\ Len(manifest'[s]) \in Nat
    BY <1>1 DEF FilesTypeOK
  <2> QED
    BY <1>2, <2>1, <2>2 DEF Backed, Backing
<1>3. \A i \in 1..Len(evq[s]) : evq[s][i] \in Event
  BY <1>1 DEF FilesTypeOK
<1>4. \A i \in 1..Len(emitted[s]) : emitted[s][i] \in Event
  BY <1>1 DEF FilesTypeOK
<1>5. \A i \in 1..Len(emitted'[s]) : Backing(Len(manifest'[s]), durable'[s], acks'[s], emitted'[s][i])
  BY <1>1, <1>2, <1>4 DEF WriterInv
<1>6. \A i \in 1..Len(evq'[s]) : Backing(Len(manifest'[s]), durable'[s], acks'[s], evq'[s][i])
  BY <1>1, <1>2, <1>3 DEF WriterInv
<1>7. WriterInv(s)'
  BY <1>5, <1>6 DEF WriterInv, Backed
<1>8. ASSUME NEW t \in Streams \ {s} PROVE WriterInv(t)'
  BY SameInv DEF FilesInv
<1> QED
  BY <1>7, <1>8 DEF FilesInv

-----------------------------------------------------------------------------
(* The writer's steps.                                                       *)

LEMMA SealedNat ==
  ASSUME FilesTypeOK, NEW s \in Streams, NEW i \in 1..Len(manifest[s])
  PROVE  manifest[s][i] \in Nat \X Nat /\ manifest[s][i][1] \in Nat /\ manifest[s][i][2] \in Nat
<1>1. manifest[s][i] \in Nat \X Nat
  BY DEF FilesTypeOK
<1> QED
  BY <1>1

(* SyncTo covers the records of one stream.                                  *)
LEMMA SyncToFields ==
  ASSUME FilesTypeOK, NEW s \in Streams, NEW n \in Nat, SyncTo(s, n)
  PROVE  /\ durable' \in [Streams -> Nat] /\ acked' \in [Streams -> Nat]
         /\ acks' \in [Streams -> SUBSET Nat]
         /\ durable'[s] = n /\ acked'[s] = n /\ acks'[s] = acks[s] \cup {n}
         /\ \A t \in Streams \ {s} : /\ durable'[t] = durable[t] /\ acked'[t] = acked[t]
                                   /\ acks'[t] = acks[t]
<1>1. durable' \in [Streams -> Nat] /\ acked' \in [Streams -> Nat]
  BY DEF SyncTo, FilesTypeOK
<1>2. acks[s] \cup {n} \in SUBSET Nat
  BY DEF FilesTypeOK
<1>3. acks' \in [Streams -> SUBSET Nat]
  BY <1>2, Zenon DEF SyncTo, FilesTypeOK
<1> QED
  BY <1>1, <1>3 DEF SyncTo, FilesTypeOK

(* AppendFrame, the frame coming from the channel or from a boundary.        *)
LEMMA AppendFrameInv ==
  ASSUME FilesInv, NEW s \in Streams, NEW frame \in Frame, AppendFrame(s, frame),
         now' = now, chan' \in [Streams -> Seq(Frame)],
         UNCHANGED <<evq, manifest, emitted>>
  PROVE  FilesInv'
<1> DEFINE count == Len(raw[s]) + 1
<1>1. WriterInv(s) /\ FilesTypeOK
  BY DEF FilesInv
<1>2. /\ count \in Nat /\ durable[s] \in Nat /\ durable[s] <= count
      /\ raw'[s] \in Seq(Frame) /\ Len(raw'[s]) = count
  BY <1>1 DEF AppendFrame, FilesTypeOK, WriterInv
<1>3. \/ SyncTo(s, count)
      \/ UNCHANGED <<durable, acks, acked>>
  BY DEF AppendFrame
<1>4. /\ durable' \in [Streams -> Nat] /\ acked' \in [Streams -> Nat]
      /\ acks' \in [Streams -> SUBSET Nat]
  <2>1. CASE SyncTo(s, count)
    BY <1>1, <1>2, <2>1, SyncToFields
  <2>2. CASE UNCHANGED <<durable, acks, acked>>
    BY <1>1, <2>2 DEF FilesTypeOK
  <2> QED
    BY <1>3, <2>1, <2>2
<1>5. /\ raw' \in [Streams -> Seq(Frame)]
      /\ held' \in [Streams -> Frame \union {None}]
      /\ wpc' \in [Streams -> {"recv", "seal", "append", "announce", "done"}]
  BY <1>1 DEF AppendFrame, FilesTypeOK
<1>6. FilesTypeOK'
  BY <1>1, <1>4, <1>5, Zenon DEF FilesTypeOK
<1>7. \A t \in Streams \ {s} : Same(t)
  <2>1. \A t \in Streams \ {s} : /\ raw'[t] = raw[t] /\ wpc'[t] = wpc[t]
                                 /\ held'[t] = held[t]
    BY <1>1, Zenon DEF AppendFrame, FilesTypeOK
  <2>2. CASE SyncTo(s, count)
    BY <1>1, <1>2, <2>1, <2>2, SyncToFields DEF Same
  <2>3. CASE UNCHANGED <<durable, acks, acked>>
    BY <2>1, <2>3 DEF Same
  <2> QED
    BY <1>3, <2>2, <2>3
<1>8. /\ durable[s] <= durable'[s] /\ durable'[s] <= count
      /\ acks[s] \subseteq acks'[s]
      /\ acked'[s] # NoAck => acked'[s] \in acks'[s] /\ acked'[s] <= durable'[s]
  <2>1. CASE SyncTo(s, count)
    BY <1>1, <1>2, <2>1, SyncToFields
  <2>2. CASE UNCHANGED <<durable, acks, acked>>
    BY <1>1, <1>2, <2>2 DEF WriterInv
  <2> QED
    BY <1>3, <2>1, <2>2
<1>9. \A i \in 1..Len(manifest'[s]) : manifest'[s][i][2] <= durable'[s]
  <2>1. \A i \in 1..Len(manifest[s]) : manifest[s][i][2] \in Nat /\ manifest[s][i][2] <= durable[s]
    BY <1>1, SealedNat DEF WriterInv
  <2> QED
    BY <1>2, <1>4, <1>8, <2>1
<1>10. /\ wpc'[s] # "append"
       /\ raw'[s] # <<>>
  BY <1>1, <1>2 DEF AppendFrame, FilesTypeOK
<1>11. /\ \A i \in 1..Len(evq'[s]) : i \in 1..Len(evq[s]) /\ evq'[s][i] = evq[s][i]
       /\ Len(manifest[s]) <= Len(manifest'[s])
  BY <1>1 DEF FilesTypeOK
<1> QED
  BY <1>2, <1>6, <1>7, <1>8, <1>9, <1>10, <1>11, WriterStepInv

(* The sync that opens finalize_segment, or that the idle branch makes.      *)
LEMMA SyncInv ==
  ASSUME FilesInv, NEW s \in Streams, SyncTo(s, Len(raw[s])),
         now' = now, chan' \in [Streams -> Seq(Frame)],
         held' \in [Streams -> Frame \union {None}],
         wpc' \in [Streams -> {"recv", "seal", "append", "announce", "done"}],
         \A t \in Streams \ {s} : wpc'[t] = wpc[t] /\ held'[t] = held[t],
         wpc'[s] \in {"recv", "seal"},
         UNCHANGED <<raw, evq, manifest, emitted>>
  PROVE  FilesInv'
<1>1. WriterInv(s) /\ FilesTypeOK
  BY DEF FilesInv
<1>2. Len(raw[s]) \in Nat /\ durable[s] \in Nat /\ durable[s] <= Len(raw[s])
  BY <1>1 DEF FilesTypeOK, WriterInv
<1>3. /\ durable' \in [Streams -> Nat] /\ acked' \in [Streams -> Nat]
      /\ acks' \in [Streams -> SUBSET Nat]
  BY <1>1, <1>2, SyncToFields
<1>4. FilesTypeOK'
  BY <1>1, <1>3, Zenon DEF FilesTypeOK
<1>5. \A t \in Streams \ {s} : Same(t)
  BY <1>1, <1>2, SyncToFields DEF Same
<1>6. /\ durable'[s] = Len(raw[s]) /\ acks[s] \subseteq acks'[s]
      /\ acked'[s] \in acks'[s] /\ acked'[s] = durable'[s]
  BY <1>1, <1>2, SyncToFields
<1>7. \A i \in 1..Len(manifest'[s]) : manifest'[s][i][2] <= durable'[s]
  <2>1. \A i \in 1..Len(manifest[s]) : manifest[s][i][2] \in Nat /\ manifest[s][i][2] <= durable[s]
    BY <1>1, SealedNat DEF WriterInv
  <2> QED
    BY <1>2, <1>6, <2>1
<1>8. /\ \A i \in 1..Len(evq'[s]) : i \in 1..Len(evq[s]) /\ evq'[s][i] = evq[s][i]
      /\ Len(manifest[s]) <= Len(manifest'[s])
  BY <1>1 DEF FilesTypeOK
<1> QED
  BY <1>2, <1>4, <1>5, <1>6, <1>7, <1>8, WriterStepInv

(* WriterEnds: what is left is synced and never acknowledged.                *)
LEMMA WriterEndsInv ==
  ASSUME FilesInv, NEW s \in Streams, WriterEnds(s),
         now' = now, chan' \in [Streams -> Seq(Frame)],
         UNCHANGED <<raw, evq, held, acks, acked, manifest, emitted>>
  PROVE  FilesInv'
<1>1. WriterInv(s) /\ FilesTypeOK
  BY DEF FilesInv
<1>2. Len(raw[s]) \in Nat /\ durable[s] \in Nat /\ durable[s] <= Len(raw[s]) /\ acked[s] \in Nat
  BY <1>1 DEF FilesTypeOK, WriterInv
<1>3. /\ durable' \in [Streams -> Nat]
      /\ wpc' \in [Streams -> {"recv", "seal", "append", "announce", "done"}]
  BY <1>1, <1>2 DEF WriterEnds, FilesTypeOK
<1>4. FilesTypeOK'
  BY <1>1, <1>3, Zenon DEF FilesTypeOK
<1>5. \A t \in Streams \ {s} : Same(t)
  BY <1>1 DEF Same, WriterEnds, FilesTypeOK
<1>6. durable'[s] = Len(raw[s]) /\ wpc'[s] = "done"
  BY <1>1 DEF WriterEnds, FilesTypeOK
<1>7. \A i \in 1..Len(manifest'[s]) : manifest'[s][i][2] <= durable'[s]
  <2>1. \A i \in 1..Len(manifest[s]) : manifest[s][i][2] \in Nat /\ manifest[s][i][2] <= durable[s]
    BY <1>1, SealedNat DEF WriterInv
  <2> QED
    BY <1>2, <1>6, <2>1
<1>8. acked'[s] # NoAck => acked'[s] \in acks'[s] /\ acked'[s] <= durable'[s]
  BY <1>1, <1>2, <1>6 DEF WriterInv
<1>9. /\ \A i \in 1..Len(evq'[s]) : i \in 1..Len(evq[s]) /\ evq'[s][i] = evq[s][i]
      /\ Len(manifest[s]) <= Len(manifest'[s])
  BY <1>1 DEF FilesTypeOK
<1> QED
  BY <1>2, <1>4, <1>5, <1>6, <1>7, <1>8, <1>9, WriterStepInv

(* The seal's manifest record is there before its event.                     *)
LEMMA SealFilesInv ==
  ASSUME FilesInv, NEW s \in Streams, SealSegment(s), emitted' = emitted
  PROVE  FilesInv'
<1> DEFINE seal == <<SealedThrough(s) + 1, durable[s]>>
           event == <<"SEGMENT", Len(manifest[s]) + 1>>
<1>1. WriterInv(s) /\ FilesTypeOK
  BY DEF FilesInv
<1>2. /\ manifest' = [manifest EXCEPT ![s] = Append(@, seal)]
      /\ evq' = [evq EXCEPT ![s] = Append(@, event)]
      /\ UNCHANGED <<now, chan, held, raw, durable, acks>>
  BY Zenon DEF SealSegment
<1>3. /\ acked' \in [Streams -> Nat]
      /\ wpc' \in [Streams -> {"recv", "seal", "append", "announce", "done"}]
      /\ \A t \in Streams \ {s} : acked'[t] = acked[t] /\ wpc'[t] = wpc[t]
      /\ acked'[s] \in {acked[s], NoAck}
      /\ wpc'[s] = "append" => held[s] # None
      /\ wpc'[s] # "announce"
  <2>1. CASE held[s] # None
    <3>1. acked' = [acked EXCEPT ![s] = NoAck] /\ wpc' = [wpc EXCEPT ![s] = "append"]
      BY <2>1 DEF SealSegment
    <3> QED
      BY <1>1, <2>1, <3>1 DEF FilesTypeOK, NoAck
  <2>2. CASE held[s] = None
    <3>1. acked' = acked /\ wpc' = [wpc EXCEPT ![s] = "done"]
      BY <2>2 DEF SealSegment
    <3> QED
      BY <1>1, <3>1 DEF FilesTypeOK
  <2> QED
    BY <2>1, <2>2
<1>4. manifest[s] \in Seq(Nat \X Nat) /\ evq[s] \in Seq(Event) /\ durable[s] \in Nat
  BY <1>1 DEF FilesTypeOK
<1>5. SealedThrough(s) \in Nat
  <2>1. CASE manifest[s] = <<>>
    BY <2>1 DEF SealedThrough
  <2>2. CASE manifest[s] # <<>>
    <3>1. Len(manifest[s]) \in 1..Len(manifest[s])
      BY <1>4, <2>2
    <3> QED
      BY <1>1, <2>2, <3>1, SealedNat DEF SealedThrough
  <2> QED
    BY <2>1, <2>2
<1>6. seal \in Nat \X Nat /\ seal[2] = durable[s]
  BY <1>4, <1>5
<1>7. event \in Event /\ event[1] = "SEGMENT" /\ event[2] = Len(manifest[s]) + 1
  BY <1>4 DEF Event
<1> HIDE DEF seal, event
<1>8. /\ manifest'[s] = Append(manifest[s], seal) /\ evq'[s] = Append(evq[s], event)
      /\ manifest' \in [Streams -> Seq(Nat \X Nat)] /\ evq' \in [Streams -> Seq(Event)]
  BY <1>1, <1>2, <1>4, <1>6, <1>7 DEF FilesTypeOK
<1>9. FilesTypeOK'
  BY <1>1, <1>2, <1>3, <1>8, Zenon DEF FilesTypeOK
<1>10. \A t \in Streams \ {s} : Same(t)
  BY <1>1, <1>2, <1>3 DEF FilesTypeOK, Same
<1>11. Len(manifest'[s]) = Len(manifest[s]) + 1
  BY <1>4, <1>6, <1>8
<1>12. \A i \in 1..Len(manifest'[s]) : manifest'[s][i][2] <= durable'[s]
  BY <1>1, <1>2, <1>4, <1>6, <1>8, <1>11 DEF WriterInv
<1>13. Backing(Len(manifest'[s]), durable'[s], acks'[s], event)
  BY <1>4, <1>7, <1>11 DEF Backing
<1>14. \A i \in 1..Len(evq'[s]) :
         \/ i \in 1..Len(evq[s]) /\ evq'[s][i] = evq[s][i]
         \/ Backing(Len(manifest'[s]), durable'[s], acks'[s], evq'[s][i])
  BY <1>4, <1>7, <1>8, <1>13
<1>15. acked'[s] # NoAck => acked'[s] \in acks'[s] /\ acked'[s] <= durable'[s]
  BY <1>1, <1>2, <1>3 DEF WriterInv
<1>16. /\ durable[s] <= durable'[s] /\ Len(manifest[s]) <= Len(manifest'[s])
       /\ acks[s] \subseteq acks'[s] /\ durable'[s] <= Len(raw'[s])
  BY <1>1, <1>2, <1>4, <1>11 DEF WriterInv
<1> QED
  BY <1>2, <1>3, <1>9, <1>10, <1>12, <1>14, <1>15, <1>16, WriterStepInv

(* The shutdown is announced once an acknowledgement ends at its frame.      *)
LEMMA AnnounceFilesInv ==
  ASSUME FilesInv, NEW s \in Streams, AnnounceShutdown(s), emitted' = emitted
  PROVE  FilesInv'
<1> DEFINE event == <<"SHUTDOWN", Len(raw[s])>>
<1>1. WriterInv(s) /\ FilesTypeOK
  BY DEF FilesInv
<1>2. UNCHANGED <<now, chan, held, acked, raw, acks, manifest>>
  BY DEF AnnounceShutdown
<1>3. CASE acked[s] # Len(raw[s])
  <2>1. WriterEnds(s) /\ UNCHANGED evq
    BY <1>3, Zenon DEF AnnounceShutdown
  <2> QED
    BY <1>1, <1>2, <2>1, WriterEndsInv DEF FilesTypeOK
<1>4. CASE acked[s] = Len(raw[s])
  <2>1. /\ evq' = [evq EXCEPT ![s] = Append(@, event)]
        /\ wpc' = [wpc EXCEPT ![s] = "recv"]
        /\ durable' = durable
    BY <1>4 DEF AnnounceShutdown
  <2>2. raw[s] \in Seq(Frame) /\ raw[s] # <<>> /\ evq[s] \in Seq(Event) /\ durable[s] \in Nat
    BY <1>1 DEF FilesTypeOK, WriterInv, AnnounceShutdown
  <2>3. Len(raw[s]) \in acks[s] /\ Len(raw[s]) <= durable[s]
    BY <1>1, <1>4, <2>2 DEF WriterInv, NoAck
  <2>4. event \in Event /\ event[1] = "SHUTDOWN" /\ event[2] = Len(raw[s])
    BY <2>2 DEF Event
  <2> HIDE DEF event
  <2>5. /\ evq'[s] = Append(evq[s], event) /\ evq' \in [Streams -> Seq(Event)]
        /\ wpc'[s] = "recv"
        /\ wpc' \in [Streams -> {"recv", "seal", "append", "announce", "done"}]
    BY <1>1, <2>1, <2>2, <2>4 DEF FilesTypeOK
  <2>6. FilesTypeOK'
    BY <1>1, <1>2, <2>1, <2>5 DEF FilesTypeOK
  <2>7. \A t \in Streams \ {s} : Same(t)
    BY <1>1, <1>2, <2>1 DEF FilesTypeOK, Same
  <2>8. Backing(Len(manifest'[s]), durable'[s], acks'[s], event)
    BY <1>2, <2>1, <2>3, <2>4, Zenon DEF Backing
  <2>9. \A i \in 1..Len(evq'[s]) :
          \/ i \in 1..Len(evq[s]) /\ evq'[s][i] = evq[s][i]
          \/ Backing(Len(manifest'[s]), durable'[s], acks'[s], evq'[s][i])
    BY <2>2, <2>4, <2>5, <2>8
  <2>10. Len(manifest[s]) <= Len(manifest'[s])
    BY <1>1, <1>2 DEF FilesTypeOK
  <2>11. /\ \A i \in 1..Len(manifest'[s]) : manifest'[s][i][2] <= durable'[s]
         /\ acked'[s] # NoAck => acked'[s] \in acks'[s] /\ acked'[s] <= durable'[s]
         /\ durable'[s] <= Len(raw'[s])
    BY <1>1, <1>2, <2>1 DEF WriterInv
  <2> QED
    BY <1>2, <2>1, <2>2, <2>5, <2>6, <2>7, <2>9, <2>10, <2>11, WriterStepInv
<1> QED
  BY <1>3, <1>4

(* Every step of a writer keeps FilesInv.                                    *)
LEMMA WriterFilesInv ==
  ASSUME FilesInv, NEW s \in Streams, Writer(s)
  PROVE  FilesInv'
<1>1. WriterInv(s) /\ FilesTypeOK
  BY Zenon DEF FilesInv
<1>2. emitted' = emitted /\ now' = now
  BY DEF Writer, WriterFails, TakeFrame, TakeBoundary, IdleSync, Disconnected, SealSegment,
         AppendHeld, AnnounceShutdown, supervisor
<1>3. ASSUME chan[s] # <<>>
      PROVE  Head(chan[s]) \in Frame /\ [chan EXCEPT ![s] = Tail(@)] \in [Streams -> Seq(Frame)]
  BY <1>1, <1>3 DEF FilesTypeOK
<1>4. CASE WriterFails(s)
  <2>1. /\ UNCHANGED <<raw, durable, acks, acked, evq, held, manifest>> /\ chan' = chan
        /\ wpc' = [wpc EXCEPT ![s] = "done"]
    BY <1>4 DEF WriterFails, files
  <2>2. FilesTypeOK'
    BY <1>1, <1>2, <2>1 DEF FilesTypeOK
  <2>3. /\ \A t \in Streams \ {s} : Same(t)
        /\ wpc'[s] = "done"
    BY <1>1, <1>2, <2>1 DEF FilesTypeOK, Same
  <2>4. ASSUME NEW t \in Streams PROVE WriterInv(t)'
    <3>1. CASE t = s
      BY <1>1, <1>2, <2>1, <2>3, <3>1 DEF WriterInv, Backed
    <3>2. CASE t # s
      BY <2>3, <3>2, SameInv, Zenon DEF FilesInv
    <3> QED
      BY <3>1, <3>2, Zenon
  <2> QED
    BY <2>2, <2>4 DEF FilesInv
<1>5. CASE TakeFrame(s)
  BY <1>2, <1>3, <1>5, AppendFrameInv DEF TakeFrame
<1>6. CASE TakeBoundary(s)
  <2>1. chan' \in [Streams -> Seq(Frame)] /\ Head(chan[s]) \in Frame
    BY <1>3, <1>6 DEF TakeBoundary
  <2>2. UNCHANGED <<raw, evq, manifest>>
    BY <1>6 DEF TakeBoundary
  <2>3. CASE Desired(s) = health[s].segment + 1 /\ (Pending(s) \/ acked[s] # NoAck)
    <3>1. /\ SyncTo(s, Len(raw[s]))
          /\ held' = [held EXCEPT ![s] = Head(chan[s])]
          /\ wpc' = [wpc EXCEPT ![s] = "seal"]
      BY <1>6, <2>3 DEF TakeBoundary
    <3>2. /\ held' \in [Streams -> Frame \union {None}]
          /\ wpc' \in [Streams -> {"recv", "seal", "append", "announce", "done"}]
          /\ \A t \in Streams \ {s} : wpc'[t] = wpc[t] /\ held'[t] = held[t]
          /\ wpc'[s] = "seal"
      BY <1>1, <2>1, <3>1 DEF FilesTypeOK
    <3> QED
      BY <1>2, <2>1, <2>2, <3>1, <3>2, SyncInv
  <2>4. CASE ~(Desired(s) = health[s].segment + 1 /\ (Pending(s) \/ acked[s] # NoAck))
    <3>1. WriterEnds(s) /\ UNCHANGED <<held, acks, acked>>
      BY <1>6, <2>4 DEF TakeBoundary
    <3> QED
      BY <1>2, <2>1, <2>2, <3>1, WriterEndsInv
  <2> QED
    BY <2>3, <2>4
<1>7. CASE IdleSync(s)
  BY <1>1, <1>2, <1>7, SyncInv, Zenon DEF IdleSync, FilesTypeOK
<1>8. CASE Disconnected(s)
  <2>1. chan' \in [Streams -> Seq(Frame)] /\ UNCHANGED <<raw, evq, manifest, held>>
    BY <1>1, <1>8 DEF Disconnected, FilesTypeOK
  <2>2. CASE Pending(s) \/ acked[s] # NoAck
    <3>1. /\ SyncTo(s, Len(raw[s]))
          /\ wpc' = [wpc EXCEPT ![s] = "seal"]
      BY <1>8, <2>2 DEF Disconnected
    <3>2. /\ held' \in [Streams -> Frame \union {None}]
          /\ wpc' \in [Streams -> {"recv", "seal", "append", "announce", "done"}]
          /\ \A t \in Streams \ {s} : wpc'[t] = wpc[t] /\ held'[t] = held[t]
          /\ wpc'[s] = "seal"
      BY <1>1, <2>1, <3>1, Zenon DEF FilesTypeOK
    <3> QED
      BY <1>2, <2>1, <3>1, <3>2, SyncInv
  <2>3. CASE ~(Pending(s) \/ acked[s] # NoAck)
    <3>1. WriterEnds(s) /\ UNCHANGED <<acks, acked>>
      BY <1>8, <2>3 DEF Disconnected
    <3> QED
      BY <1>2, <2>1, <3>1, WriterEndsInv
  <2> QED
    BY <2>2, <2>3
<1>9. CASE SealSegment(s)
  BY <1>2, <1>9, SealFilesInv
<1>10. CASE AppendHeld(s)
  <2>1. held[s] \in Frame
    BY <1>1, <1>10 DEF AppendHeld, WriterInv, FilesTypeOK
  <2> QED
    BY <1>1, <1>2, <1>10, <2>1, AppendFrameInv, Zenon DEF AppendHeld, FilesTypeOK
<1>11. CASE AnnounceShutdown(s)
  BY <1>2, <1>11, AnnounceFilesInv
<1> QED
  BY <1>4, <1>5, <1>6, <1>7, <1>8, <1>9, <1>10, <1>11 DEF Writer

-----------------------------------------------------------------------------
(* The producers' steps and the main thread's.                               *)

(* The message a producer took from its socket and has not queued yet.       *)
FlightInv ==
  /\ now \in Nat
  /\ DOMAIN ppc = Streams
  /\ DOMAIN flight = Streams
  /\ \A s \in Streams : ppc[s] = "send" => flight[s] \in Frame

LEMMA FlightInit == Init => FlightInv
  BY DEF Init, FlightInv

LEMMA ProducerFlight ==
  ASSUME FlightInv, NEW s \in Streams, Producer(s)
  PROVE  FlightInv'
<1>1. now \in Nat /\ now' = now
  BY Zenon DEF FlightInv, Producer, ConnectSucceeds, ConnectFails, TransportFails, ObserveStop,
         QueueFrame, ReceiveFrame
<1>2. DOMAIN ppc = Streams /\ DOMAIN flight = Streams
  BY Zenon DEF FlightInv
<1>3. CASE \E kind \in Kinds[s] : ReceiveFrame(s, kind)
  <2>1. PICK kind \in Kinds[s] : ReceiveFrame(s, kind)
    BY <1>3
  <2>2. kind \in {"market", "shutdown"}
    BY SegmentedAssumption
  <2>3. [mono |-> now, kind |-> kind] \in Frame
    BY <1>1, <2>2 DEF Frame
  <2>4. /\ flight' = [flight EXCEPT ![s] = [mono |-> now, kind |-> kind]]
        /\ ppc' = [ppc EXCEPT ![s] = "send"]
    BY <2>1, Zenon DEF ReceiveFrame
  <2> QED
    BY <1>1, <1>2, <2>3, <2>4 DEF FlightInv
<1>4. CASE ConnectSucceeds(s) \/ ConnectFails(s) \/ TransportFails(s) \/ ObserveStop(s)
  <2>1. /\ flight' = flight
        /\ ppc' = [ppc EXCEPT ![s] = "read"] \/ ppc' = [ppc EXCEPT ![s] = "done"]
    BY <1>4, Zenon DEF ConnectSucceeds, ConnectFails, TransportFails, ObserveStop, ProducerEnds
  <2> QED
    BY <1>1, <1>2, <2>1 DEF FlightInv
<1>5. CASE QueueFrame(s)
  <2>1. /\ flight' = [flight EXCEPT ![s] = None]
        /\ ppc' = [ppc EXCEPT ![s] = "read"] \/ ppc' = [ppc EXCEPT ![s] = "done"]
    BY <1>5, Zenon DEF QueueFrame, ProducerEnds
  <2> QED
    BY <1>1, <1>2, <2>1 DEF FlightInv
<1> QED
  BY <1>3, <1>4, <1>5, Zenon DEF Producer

LEMMA FlightNext ==
  ASSUME FlightInv, [Next]_vars
  PROVE  FlightInv'
<1>1. CASE Tick
  BY <1>1 DEF Tick, producer, FlightInv
<1>2. CASE Main
  <2>1. UNCHANGED <<now, ppc, flight>>
    BY <1>2, Zenon DEF Main, HearConnection, ConnectionTimeout, FetchSnapshot, FailStartup,
           StopRequested, ClockProbeFails, DrainEvents, Abandon, LoopEnds, Settle, RaiseStop,
           Finish, mainRest, producer
  <2> QED
    BY <2>1, Zenon DEF FlightInv
<1>3. ASSUME NEW s \in Streams, Producer(s) PROVE FlightInv'
  BY <1>3, ProducerFlight, Zenon
<1>4. ASSUME NEW s \in Streams, Writer(s) PROVE FlightInv'
  <2>1. UNCHANGED <<now, ppc, flight>>
    BY <1>4, Zenon DEF Writer, WriterFails, TakeFrame, TakeBoundary, IdleSync, Disconnected,
           SealSegment, AppendHeld, AnnounceShutdown, producer
  <2> QED
    BY <2>1, Zenon DEF FlightInv
<1>5. CASE UNCHANGED vars
  BY <1>5, Zenon DEF vars, producer, FlightInv
<1> QED
  BY <1>1, <1>2, <1>3, <1>4, <1>5, Zenon DEF Next

(* A producer touches no file: it only fills the channel.                    *)
LEMMA ProducerFilesInv ==
  ASSUME FilesInv, FlightInv, NEW s \in Streams, Producer(s)
  PROVE  FilesInv'
<1>1. now' = now /\ UNCHANGED <<files, writer, emitted>>
  BY Zenon DEF Producer, ConnectSucceeds, ConnectFails, TransportFails, ObserveStop, QueueFrame,
         ReceiveFrame, supervisor
<1>2. now \in Nat /\ chan \in [Streams -> Seq(Frame)]
  BY Zenon DEF FilesInv, FilesTypeOK
<1>3. chan' \in [Streams -> Seq(Frame)]
  <2>1. CASE QueueFrame(s)
    <3>1. flight[s] \in Frame
      BY <2>1, Zenon DEF QueueFrame, FlightInv
    <3>2. Append(chan[s], flight[s]) \in Seq(Frame)
      BY <1>2, <3>1
    <3>3. chan' = [chan EXCEPT ![s] = Append(@, flight[s])] \/ chan' = chan
      BY <2>1, Zenon DEF QueueFrame
    <3> QED
      BY <1>2, <3>2, <3>3, Zenon
  <2>2. CASE \/ ConnectSucceeds(s) \/ ConnectFails(s) \/ TransportFails(s) \/ ObserveStop(s)
             \/ \E kind \in Kinds[s] : ReceiveFrame(s, kind)
    BY <1>2, <2>2, Zenon DEF ConnectSucceeds, ConnectFails, TransportFails, ObserveStop, ReceiveFrame
  <2> QED
    BY <2>1, <2>2, Zenon DEF Producer
<1> QED
  BY <1>1, <1>2, <1>3, QuietInv

(* The events drained were backed when they were published.                  *)
LEMMA DrainInv ==
  ASSUME FilesInv, emitted' = Drained, evq' = [s \in Streams |-> <<>>],
         UNCHANGED <<now, chan, held, wpc, raw, durable, acked, acks, manifest>>
  PROVE  FilesInv'
<1>1. FilesTypeOK
  BY DEF FilesInv
<1>2. ASSUME NEW s \in Streams
      PROVE  /\ emitted'[s] = emitted[s] \o evq[s] /\ evq'[s] = <<>>
             /\ emitted[s] \in Seq(Event) /\ evq[s] \in Seq(Event)
             /\ emitted'[s] \in Seq(Event) /\ Drained[s] \in Seq(Event)
  <2>1. emitted[s] \in Seq(Event) /\ evq[s] \in Seq(Event)
    BY <1>1 DEF FilesTypeOK
  <2>2. emitted'[s] = emitted[s] \o evq[s] /\ evq'[s] = <<>>
    BY Zenon DEF Drained
  <2>3. emitted[s] \o evq[s] \in Seq(Event)
    BY <2>1, ConcatElements
  <2> QED
    BY <2>1, <2>2, <2>3
<1>3. emitted' \in [Streams -> Seq(Event)] /\ evq' \in [Streams -> Seq(Event)]
  <2>1. Drained \in [Streams -> Seq(Event)]
    BY <1>2, Zenon DEF Drained
  <2>2. <<>> \in Seq(Event)
    OBVIOUS
  <2> QED
    BY <2>1, <2>2
<1>4. FilesTypeOK'
  BY <1>1, <1>3, Zenon DEF FilesTypeOK
<1>5. ASSUME NEW s \in Streams PROVE WriterInv(s)'
  <2>1. WriterInv(s)
    BY Zenon DEF FilesInv
  <2>2. ASSUME NEW i \in 1..Len(emitted'[s]) PROVE Backed(s, emitted'[s][i])
    <3>1. \/ \E j \in 1..Len(emitted[s]) : emitted'[s][i] = emitted[s][j]
          \/ \E j \in 1..Len(evq[s]) : emitted'[s][i] = evq[s][j]
      <4>1. From(emitted[s] \o evq[s], emitted[s], evq[s])
        BY <1>2, ConcatElements, Zenon
      <4>2. From(emitted'[s], emitted[s], evq[s])
        BY <1>2, <4>1, Zenon
      <4> QED
        BY <4>2 DEF From
    <3> QED
      BY <2>1, <3>1, Zenon DEF WriterInv
  <2>3. Len(evq'[s]) = 0
    BY <1>2
  <2>4. \A i \in 1..Len(evq'[s]) : FALSE
    BY <2>3
  <2> QED
    BY <2>1, <2>2, <2>4 DEF WriterInv, Backed
<1> QED
  BY <1>4, <1>5 DEF FilesInv

LEMMA MainFilesInv ==
  ASSUME FilesInv, Tick \/ Main
  PROVE  FilesInv'
<1>1. now \in Nat /\ chan \in [Streams -> Seq(Frame)]
  BY DEF FilesInv, FilesTypeOK
<1>2. CASE DrainEvents
  BY <1>2, DrainInv DEF DrainEvents, files
<1>3. CASE Finish
  BY <1>3, DrainInv DEF Finish, files
<1>4. CASE Tick
  BY <1>1, <1>4, QuietInv DEF Tick, supervisor
<1>5. CASE HearConnection
  BY <1>1, <1>5, QuietInv DEF HearConnection
<1>6. CASE ConnectionTimeout \/ FetchSnapshot \/ FailStartup
  BY <1>1, <1>6, QuietInv, Zenon DEF ConnectionTimeout, FetchSnapshot, FailStartup, mainRest
<1>7. CASE StopRequested \/ ClockProbeFails \/ Abandon \/ LoopEnds
  BY <1>1, <1>7, QuietInv DEF StopRequested, ClockProbeFails, Abandon, LoopEnds, mainRest
<1>8. CASE Settle \/ RaiseStop
  BY <1>1, <1>8, QuietInv DEF Settle, RaiseStop, mainRest
<1> QED
  BY <1>2, <1>3, <1>4, <1>5, <1>6, <1>7, <1>8 DEF Main

LEMMA FilesNext ==
  ASSUME FilesInv, FlightInv, [Next]_vars
  PROVE  FilesInv'
<1>1. CASE Tick \/ Main
  BY <1>1, MainFilesInv
<1>2. CASE \E s \in Streams : Producer(s) \/ Writer(s)
  BY <1>2, ProducerFilesInv, WriterFilesInv
<1>3. CASE UNCHANGED vars
  <2>1. now' = now /\ chan' = chan /\ UNCHANGED <<files, writer, emitted>>
    BY <1>3 DEF vars, supervisor
  <2> QED
    BY <2>1, QuietInv, Zenon DEF FilesInv, FilesTypeOK
<1> QED
  BY <1>1, <1>2, <1>3 DEF Next

(* The files of every stream stay as FilesInv says, whatever fails and       *)
(* however the threads interleave (writer_loop, finalize_segment).           *)
THEOREM FilesInvariance == Spec => []FilesInv
<1>1. Spec => []FlightInv
  BY FlightInit, FlightNext, PTL DEF Spec
<1> QED
  BY <1>1, FilesInit, FilesNext, PTL DEF Spec

(* writer_loop: every SEGMENT_DURABLE event names a segment whose seal is in *)
(* the manifest and covers synced records, and every SERVER_SHUTDOWN_DURABLE *)
(* event a synced record that the progress journal acknowledges.             *)
THEOREM EventsAreDurable == Spec => []AnnouncedIsDurable
<1>1. ASSUME FilesInv PROVE AnnouncedIsDurable
  <2> SUFFICES ASSUME NEW s \in Streams, NEW e \in Range(Announced(s))
               PROVE  CASE e[1] = "SEGMENT" -> e[2] <= Len(manifest[s]) /\ manifest[s][e[2]][2] <= durable[s]
                        [] e[1] = "SHUTDOWN" -> e[2] <= durable[s] /\ e[2] \in acks[s]
    BY Zenon DEF AnnouncedIsDurable
  <2>1. FilesTypeOK /\ WriterInv(s)
    BY <1>1 DEF FilesInv
  <2>2. emitted[s] \in Seq(Event) /\ evq[s] \in Seq(Event)
    BY <2>1 DEF FilesTypeOK
  <2>3. PICK i \in DOMAIN Announced(s) : e = Announced(s)[i]
    BY DEF Range
  <2>4. /\ i \in 1..Len(Announced(s))
        /\ \/ \E j \in 1..Len(emitted[s]) : e = emitted[s][j]
           \/ \E j \in 1..Len(evq[s]) : e = evq[s][j]
    <3>1. From(emitted[s] \o evq[s], emitted[s], evq[s])
      BY <2>2, ConcatElements, Zenon
    <3>2. From(Announced(s), emitted[s], evq[s])
      BY <3>1, Zenon DEF Announced
    <3> QED
      BY <2>3, <3>2, Zenon DEF From
  <2>5. e \in Event
    BY <2>2, <2>4
  <2>6. Backed(s, e)
    BY <2>1, <2>4, Zenon DEF WriterInv
  <2>7. CASE e[1] = "SEGMENT"
    <3>1. e[2] \in 1..Len(manifest[s])
      BY <2>6, <2>7, Zenon DEF Backed, Backing
    <3>2. manifest[s][e[2]][2] <= durable[s]
      BY <2>1, <3>1, Zenon DEF WriterInv
    <3>3. e[2] <= Len(manifest[s])
      BY <3>1
    <3> QED
      BY <2>7, <3>2, <3>3
  <2>8. CASE e[1] = "SHUTDOWN"
    <3>1. e[2] <= durable[s] /\ e[2] \in acks[s]
      BY <2>6, <2>8 DEF Backed, Backing
    <3> QED
      BY <2>8, <3>1
  <2> QED
    BY <2>5, <2>7, <2>8, Zenon DEF Event
<1> QED
  BY <1>1, FilesInvariance, PTL

-----------------------------------------------------------------------------
(* The transport journals a producer leaves.                                 *)

(* The names of the records of a transport journal.                          *)
EventNames ==
  {"CONNECT_ATTEMPT", "DNS_OBSERVED", "DNS_FAILED"}
    \cup ConnectionOutcomes \cup AfterConnection \cup Terminals

(* What a producer may journal between the connection and its failure.       *)
Middle == (AfterConnection \ {"CLIENT_STOP_OBSERVED"}) \cup {"SUPERVISOR_FAILURE_STOP"}

(* The journal of a connected producer.                                      *)
Connected(j) ==
  /\ Len(j) >= 3 /\ j[1] = "CONNECT_ATTEMPT" /\ j[2] = "DNS_OBSERVED"
  /\ j[3] = "WEBSOCKET_CONNECTED"

(* The journal of a producer that was told to stop.                          *)
Stopped(j) ==
  Connected(j) /\ Len(j) = 5 /\ j[4] = "CLIENT_STOP_OBSERVED" /\ j[5] = "STOPPED"

(* The journal of a producer that failed, before or after the connection.    *)
FailedEnd(j) ==
  /\ Len(j) >= 4 /\ j[1] = "CONNECT_ATTEMPT" /\ j[2] = "DNS_OBSERVED"
  /\ j[Len(j) - 1] = "PRODUCER_FAILURE" /\ j[Len(j)] = "FAILED"
  /\ \/ Len(j) = 4
     \/ Len(j) = 5 /\ j[3] \in {"CONNECT_FAILED", "WEBSOCKET_UPGRADE_REJECTED",
                                "SUPERVISOR_FAILURE_STOP"}
     \/ /\ Len(j) >= 5 /\ j[3] = "WEBSOCKET_CONNECTED"
        /\ \A i \in 4..(Len(j) - 2) : j[i] \in Middle

(* How a journal ends, by the way its producer did.                          *)
Told(j, how) ==
  \/ how = "CLIENT_STOP" /\ Stopped(j)
  \/ /\ how \in {"FAILED", "SUPERVISOR_STOP"} /\ FailedEnd(j)
     /\ how = "SUPERVISOR_STOP" <=> \E i \in 3..(Len(j) - 2) : j[i] = "SUPERVISOR_FAILURE_STOP"

LEMMA StoppedSeals ==
  ASSUME NEW j \in Seq(EventNames), Stopped(j)
  PROVE  Seals(j)
<1>1. Len(j) = 5 /\ DOMAIN j = 1..5
  BY DEF Stopped
<1>2. /\ j[1] = "CONNECT_ATTEMPT" /\ j[2] = "DNS_OBSERVED" /\ j[3] = "WEBSOCKET_CONNECTED"
      /\ j[4] = "CLIENT_STOP_OBSERVED" /\ j[5] = "STOPPED"
  BY DEF Stopped, Connected
<1>3. ASSUME NEW e PROVE /\ ~Before(j, 1, e)
                         /\ Before(j, 2, e) <=> j[1] = e
                         /\ Before(j, 3, e) <=> (j[1] = e \/ j[2] = e)
                         /\ Before(j, 4, e) <=> (j[1] = e \/ j[2] = e \/ j[3] = e)
                         /\ Before(j, 5, e) <=> (j[1] = e \/ j[2] = e \/ j[3] = e \/ j[4] = e)
  BY DEF Before
<1>4. InPlace(j, 1)
  BY <1>2, <1>3 DEF InPlace, Terminals, AfterConnection
<1>5. InPlace(j, 2)
  BY <1>2, <1>3 DEF InPlace, Terminals, AfterConnection
<1>6. InPlace(j, 3)
  BY <1>2, <1>3 DEF InPlace, Terminals, AfterConnection, ConnectionOutcomes
<1>7. InPlace(j, 4)
  BY <1>2, <1>3 DEF InPlace, Terminals, AfterConnection
<1>8. InPlace(j, 5)
  BY <1>2, <1>3 DEF InPlace, Terminals, AfterConnection
<1>9. ASSUME NEW i \in DOMAIN j PROVE InPlace(j, i)
  <2>1. i \in 1..5
    BY <1>1
  <2>2. i = 1 \/ i = 2 \/ i = 3 \/ i = 4 \/ i = 5
    BY <2>1
  <2> QED
    BY <2>2, <1>4, <1>5, <1>6, <1>7, <1>8
<1>10. j # <<>> /\ j[Len(j)] \in Terminals
  BY <1>1, <1>2 DEF Terminals
<1> QED
  BY <1>9, <1>10 DEF Seals

LEMMA FailedSeals ==
  ASSUME NEW j \in Seq(EventNames), FailedEnd(j)
  PROVE  Seals(j)
<1> DEFINE n == Len(j)
<1>1. n \in Nat /\ n >= 4 /\ DOMAIN j = 1..n
  BY DEF FailedEnd
<1>2. /\ j[1] = "CONNECT_ATTEMPT" /\ j[2] = "DNS_OBSERVED"
      /\ j[n - 1] = "PRODUCER_FAILURE" /\ j[n] = "FAILED"
  BY DEF FailedEnd
<1>3. /\ j[3] \in {"PRODUCER_FAILURE", "CONNECT_FAILED", "WEBSOCKET_UPGRADE_REJECTED",
                   "SUPERVISOR_FAILURE_STOP", "WEBSOCKET_CONNECTED"}
      /\ j[3] = "PRODUCER_FAILURE" => n = 4
      /\ n = 4 => j[3] = "PRODUCER_FAILURE"
      /\ n > 5 => j[3] = "WEBSOCKET_CONNECTED"
  BY <1>1, <1>2 DEF FailedEnd
<1>4. \A i \in 4..(n - 2) : j[i] \in Middle
  BY <1>1 DEF FailedEnd
<1> HIDE DEF n
<1>5. \A k \in 1..(n - 2) :
        j[k] \notin {"STOPPED", "FAILED", "PRODUCER_FAILURE", "CLIENT_STOP_OBSERVED"}
  <2> TAKE k \in 1..(n - 2)
  <2>1. k = 1 \/ k = 2 \/ (k = 3 /\ n >= 5) \/ k \in 4..(n - 2)
    BY <1>1
  <2>2. CASE k = 1 \/ k = 2
    BY <1>2, <2>2
  <2>3. CASE k = 3 /\ n >= 5
    BY <1>1, <1>3, <2>3
  <2>4. CASE k \in 4..(n - 2)
    BY <1>4, <2>4 DEF Middle, AfterConnection
  <2> QED
    BY <2>1, <2>2, <2>3, <2>4
<1>6. ASSUME NEW i \in 1..n, NEW e \in {"STOPPED", "FAILED", "CLIENT_STOP_OBSERVED"}
      PROVE  ~Before(j, i, e)
  <2>1. ASSUME NEW k \in 1..(i - 1) PROVE j[k] # e
    <3>1. k \in 1..(n - 2) \/ k = n - 1
      BY <1>1
    <3> QED
      BY <1>2, <1>5, <3>1
  <2> QED
    BY <2>1 DEF Before
<1>7. ASSUME NEW i \in 1..(n - 1) PROVE ~Before(j, i, "PRODUCER_FAILURE")
  <2>1. \A k \in 1..(i - 1) : k \in 1..(n - 2)
    BY <1>1
  <2> QED
    BY <1>5, <2>1 DEF Before
<1>8. Before(j, n, "PRODUCER_FAILURE")
  <2>1. n - 1 \in 1..(n - 1)
    BY <1>1
  <2> QED
    BY <1>2, <2>1 DEF Before
<1>9. ASSUME NEW i \in 1..n, i > 3, j[3] = "WEBSOCKET_CONNECTED"
      PROVE  Before(j, i, "WEBSOCKET_CONNECTED")
  <2>1. 3 \in 1..(i - 1)
    BY <1>1, <1>9
  <2> QED
    BY <1>9, <2>1 DEF Before
<1>10. ASSUME NEW i \in 1..3 PROVE ~Before(j, i, "WEBSOCKET_CONNECTED")
  <2>1. \A k \in 1..(i - 1) : k = 1 \/ k = 2
    OBVIOUS
  <2> QED
    BY <1>2, <2>1 DEF Before
<1>11. ASSUME NEW i \in 1..n PROVE InPlace(j, i)
  <2>0. /\ ~Before(j, i, "STOPPED") /\ ~Before(j, i, "FAILED")
        /\ ~Before(j, i, "CLIENT_STOP_OBSERVED")
    BY <1>6
  <2>1. CASE i = 1 \/ i = 2
    <3>1. /\ i \in 1..(n - 1) /\ i \in 1..3 /\ ~(i = 3) /\ ~(i > 3)
          /\ ~Before(j, i, "PRODUCER_FAILURE")
      BY <1>1, <1>7, <2>1
    <3>2. j[i] = "CONNECT_ATTEMPT" \/ j[i] = "DNS_OBSERVED"
      BY <1>2, <2>1
    <3>3. /\ i = 1 => j[i] = "CONNECT_ATTEMPT"
          /\ i = 2 => j[i] \in {"DNS_OBSERVED", "DNS_FAILED"}
      BY <1>2
    <3> QED
      BY <2>0, <3>1, <3>2, <3>3 DEF InPlace, Terminals, AfterConnection
  <2>2. CASE i = 3
    <3>1. /\ ~Before(j, i, "PRODUCER_FAILURE") /\ ~Before(j, i, "WEBSOCKET_CONNECTED")
      BY <1>1, <1>7, <1>10, <2>2
    <3>2. i # 1 /\ i # 2 /\ ~(i > 3)
      BY <2>2
    <3> QED
      BY <1>3, <2>0, <2>2, <3>1, <3>2 DEF InPlace, Terminals, AfterConnection, ConnectionOutcomes
  <2>3. CASE i \in 4..(n - 2)
    <3>1. i \in 1..(n - 1) /\ i > 3 /\ i # 1 /\ i # 2 /\ i # 3 /\ n > 5
      BY <1>1, <2>3
    <3>2. ~Before(j, i, "PRODUCER_FAILURE") /\ Before(j, i, "WEBSOCKET_CONNECTED")
      BY <1>3, <1>7, <1>9, <3>1
    <3>3. j[i] \in Middle
      BY <1>4, <2>3
    <3> QED
      BY <2>0, <3>1, <3>2, <3>3 DEF InPlace, Terminals, AfterConnection, Middle
  <2>4. CASE i = n - 1 /\ i > 3
    <3>1. /\ i \in 1..(n - 1) /\ i # 1 /\ i # 2 /\ i # 3
          /\ j[i] = "PRODUCER_FAILURE" /\ ~Before(j, i, "PRODUCER_FAILURE")
      BY <1>1, <1>2, <1>7, <2>4
    <3> QED
      BY <2>0, <3>1 DEF InPlace, Terminals, AfterConnection
  <2>5. CASE i = n
    <3>1. /\ i # 1 /\ i # 2 /\ i # 3
          /\ j[i] = "FAILED" /\ Before(j, i, "PRODUCER_FAILURE")
      BY <1>1, <1>2, <1>8, <2>5
    <3> QED
      BY <2>0, <3>1 DEF InPlace, Terminals, AfterConnection
  <2>6. i = 1 \/ i = 2 \/ i = 3 \/ i \in 4..(n - 2) \/ (i = n - 1 /\ i > 3) \/ i = n
    BY <1>1
  <2> QED
    BY <2>1, <2>2, <2>3, <2>4, <2>5, <2>6
<1>12. j # <<>> /\ j[n] \in Terminals
  BY <1>1, <1>2 DEF Terminals, n
<1> QED
  BY <1>1, <1>11, <1>12 DEF Seals, n

(* The least of some numbers up to 6.                                        *)
Least(F) == CHOOSE i \in F : \A k \in F : i <= k

LEMMA LeastOfSix ==
  ASSUME NEW F \in SUBSET (1..6), F # {}
  PROVE  Least(F) \in F /\ \A k \in F : Least(F) <= k
<1>1. PICK x \in F : TRUE
  BY Zenon
<1>2. \E i \in F : \A k \in F : i <= k
  <2>1. CASE 1 \in F
    BY <2>1
  <2>2. CASE 1 \notin F /\ 2 \in F
    BY <2>2
  <2>3. CASE 1 \notin F /\ 2 \notin F /\ 3 \in F
    BY <2>3
  <2>4. CASE 1 \notin F /\ 2 \notin F /\ 3 \notin F /\ 4 \in F
    BY <2>4
  <2>5. CASE 1 \notin F /\ 2 \notin F /\ 3 \notin F /\ 4 \notin F /\ 5 \in F
    BY <2>5
  <2>6. CASE 1 \notin F /\ 2 \notin F /\ 3 \notin F /\ 4 \notin F /\ 5 \notin F
    <3>1. \A k \in F : k = 6
      BY <2>6
    <3> QED
      BY <1>1, <3>1
  <2> QED
    BY <2>1, <2>2, <2>3, <2>4, <2>5, <2>6
<1> QED
  BY <1>2, Zenon DEF Least

LEMMA LeastClass ==
  ASSUME NEW F \in SUBSET (1..6), F # {}
  PROVE  /\ 1 \in F => Least(F) = 1
         /\ 1 \notin F => Least(F) \in 2..6
<1> DEFINE m == Least(F)
<1>1. m \in F /\ \A k \in F : m <= k
  BY LeastOfSix
<1> HIDE DEF m
<1>2. m \in 1..6
  BY <1>1
<1>3. 1 \in F => m = 1
  BY <1>1, <1>2
<1>4. 1 \notin F => m \in 2..6
  BY <1>1, <1>2
<1> QED
  BY <1>3, <1>4 DEF m

(* The diagnosis of a sealed journal finds the supervisor's stop first.      *)
LEMMA ToldClass ==
  ASSUME NEW j \in Seq(EventNames), NEW how, Told(j, how)
  PROVE  /\ Seals(j)
         /\ Classification(j) = "CLEAN_CLIENT_STOP" <=> how = "CLIENT_STOP"
         /\ Classification(j) = "SUPERVISOR_FAILURE_STOP" <=> how = "SUPERVISOR_STOP"
<1> DEFINE found == {i \in DOMAIN Classes : Before(j, Len(j), Classes[i])}
           first == Least(found)
<1>1. CASE how = "CLIENT_STOP" /\ Stopped(j)
  <2>1. j[Len(j)] = "STOPPED"
    BY <1>1 DEF Stopped
  <2>2. Classification(j) = "CLEAN_CLIENT_STOP"
    BY <2>1 DEF Classification
  <2> QED
    BY <1>1, <2>2, StoppedSeals
<1>2. CASE /\ how \in {"FAILED", "SUPERVISOR_STOP"} /\ FailedEnd(j)
           /\ how = "SUPERVISOR_STOP" <=> \E i \in 3..(Len(j) - 2) : j[i] = "SUPERVISOR_FAILURE_STOP"
  <2>1. Len(j) \in Nat /\ Len(j) >= 4 /\ j[Len(j)] = "FAILED"
    BY <1>2 DEF FailedEnd
  <2>2. DOMAIN Classes = 1..6 /\ Classes[1] = "SUPERVISOR_FAILURE_STOP"
    BY DEF Classes
  <2>3. \A i \in 2..6 : Classes[i] # "SUPERVISOR_FAILURE_STOP"
    BY DEF Classes
  <2>4. \A i \in 1..6 : Classes[i] # "CLEAN_CLIENT_STOP"
    BY DEF Classes
  <2>5. Classification(j) = IF found = {} THEN Untyped ELSE Classes[first]
    BY <2>1 DEF Classification, Least
  <2>6. 1 \in found <=> how = "SUPERVISOR_STOP"
    <3>1. Before(j, Len(j), "SUPERVISOR_FAILURE_STOP")
            <=> \E i \in 3..(Len(j) - 2) : j[i] = "SUPERVISOR_FAILURE_STOP"
      <4>1. \A k \in 1..(Len(j) - 1) : k = 1 \/ k = 2 \/ k \in 3..(Len(j) - 2) \/ k = Len(j) - 1
        BY <2>1
      <4>2. \A k \in 3..(Len(j) - 2) : k \in 1..(Len(j) - 1)
        BY <2>1
      <4>3. /\ j[1] # "SUPERVISOR_FAILURE_STOP" /\ j[2] # "SUPERVISOR_FAILURE_STOP"
            /\ j[Len(j) - 1] # "SUPERVISOR_FAILURE_STOP"
        BY <1>2 DEF FailedEnd
      <4> QED
        BY <4>1, <4>2, <4>3 DEF Before
    <3> QED
      BY <1>2, <2>2, <3>1
  <2>7. found \subseteq 1..6
    BY <2>2
  <2>8. ASSUME found # {}
        PROVE  (1 \in found => first = 1) /\ (1 \notin found => first \in 2..6)
    BY <2>7, <2>8, LeastClass, Zenon
  <2> HIDE DEF found, first
  <2>9. CASE found = {}
    <3>1. Classification(j) = Untyped
      BY <2>5, <2>9
    <3>2. how = "FAILED"
      BY <1>2, <2>6, <2>9
    <3> QED
      BY <3>1, <3>2, <1>2, FailedSeals DEF Untyped
  <2>10. CASE 1 \in found
    <3>1. first = 1
      BY <2>7, <2>8, <2>10
    <3>2. Classification(j) = "SUPERVISOR_FAILURE_STOP"
      BY <2>2, <2>5, <2>10, <3>1
    <3> QED
      BY <1>2, <2>6, <2>10, <3>2, FailedSeals
  <2>11. CASE found # {} /\ 1 \notin found
    <3>1. first \in 2..6
      BY <2>7, <2>8, <2>11
    <3>2. Classification(j) = Classes[first]
      BY <2>5, <2>11
    <3>3. Classification(j) # "SUPERVISOR_FAILURE_STOP" /\ Classification(j) # "CLEAN_CLIENT_STOP"
      BY <2>3, <2>4, <3>1, <3>2
    <3>4. how = "FAILED"
      BY <1>2, <2>6, <2>11
    <3> QED
      BY <1>2, <3>3, <3>4, FailedSeals
  <2> QED
    BY <2>9, <2>10, <2>11
<1> QED
  BY <1>1, <1>2 DEF Told

-----------------------------------------------------------------------------
(* How the producers and the run end.                                        *)

ThreadFailed == \E s \in Streams : pend[s] = "FAILED" \/ werr[s] = TRUE

EndTypeOK ==
  /\ ppc \in [Streams -> {"connect", "read", "send", "done"}]
  /\ pend \in [Streams -> {"OPEN", "CLIENT_STOP", "SUPERVISOR_STOP", "FAILED"}]
  /\ journal \in [Streams -> Seq(EventNames)]
  /\ werr \in [Streams -> BOOLEAN] /\ runtimeFailed \in BOOLEAN
  /\ cause \in {"NONE", "LOCAL", "CAMPAIGN"}
  /\ mpc \in {"connect", "failStartup", "loop", "settle", "raise", "join", "done"}

(* A producer's journal tells where it is, and how it ended.                 *)
JournalInv(s) ==
  /\ ppc[s] = "connect" => journal[s] = <<>>
  /\ ppc[s] \in {"read", "send"} => Connected(journal[s]) /\ Len(journal[s]) = 3
  /\ ppc[s] = "done" => Told(journal[s], pend[s])
  /\ ppc[s] # "done" => pend[s] = "OPEN"

(* The main thread's cause, and who raised the stop flag.  A producer that   *)
(* read a clean stop read it after a thread failed, or once the main thread  *)
(* had settled that nothing had.                                             *)
CauseInv ==
  /\ mpc \in {"connect", "failStartup", "loop"} => cause = "NONE"
  /\ mpc \in {"loop", "settle"} => startupFailed = FALSE
  /\ mpc \in {"raise", "join", "done"} /\ cause = "NONE" =>
       startupFailed = FALSE /\ runtimeFailed = FALSE
  /\ stop /\ cause = "NONE" => ThreadFailed \/ mpc \in {"join", "done"}
  /\ \A s \in Streams : pend[s] = "CLIENT_STOP" =>
       ThreadFailed \/ (mpc \in {"join", "done"} /\ cause = "NONE")
  /\ terminal = "FAILED" => mpc = "done"

EndInv == EndTypeOK /\ CauseInv /\ \A s \in Streams : JournalInv(s)

LEMMA EndInit == Init => EndInv
<1> SUFFICES ASSUME Init PROVE EndInv
  OBVIOUS
<1>1. EndTypeOK
  <2>1. <<>> \in Seq(EventNames)
    OBVIOUS
  <2> QED
    BY <2>1, Zenon DEF Init, EndTypeOK
<1>2. CauseInv
  BY Zenon DEF Init, CauseInv
<1>3. ASSUME NEW s \in Streams PROVE JournalInv(s)
  BY DEF Init, JournalInv
<1> QED
  BY <1>1, <1>2, <1>3 DEF EndInv

(* The records a failing producer leaves before PRODUCER_FAILURE.            *)
LastRecords(j, records) ==
  \/ /\ Connected(j) /\ Len(j) = 3
     /\ \A i \in 1..Len(records) : records[i] \in Middle
  \/ /\ j = <<>> /\ Len(records) \in 2..3
     /\ records[1] = "CONNECT_ATTEMPT" /\ records[2] = "DNS_OBSERVED"
     /\ Len(records) = 3 => records[3] \in {"CONNECT_FAILED", "WEBSOCKET_UPGRADE_REJECTED",
                                            "SUPERVISOR_FAILURE_STOP"}

(* The records name the supervisor's stop exactly when it is the end.        *)
Names(records, how) ==
  how = "SUPERVISOR_STOP" <=> \E i \in 1..Len(records) : records[i] = "SUPERVISOR_FAILURE_STOP"

(* The two records every failing producer ends with.                         *)
FailureRecords == <<"PRODUCER_FAILURE", "FAILED">>

(* c is a followed by b.                                                     *)
Concat(c, a, b) ==
  /\ Len(c) = Len(a) + Len(b)
  /\ \A i \in 1..Len(a) : c[i] = a[i]
  /\ \A i \in 1..Len(b) : c[Len(a) + i] = b[i]

LEMMA ConcatPlaces ==
  ASSUME NEW S, NEW a \in Seq(S), NEW b \in Seq(S)
  PROVE  a \o b \in Seq(S) /\ Len(a) \in Nat /\ Len(b) \in Nat /\ Concat(a \o b, a, b)
<1>1. a \o b \in Seq(S) /\ Len(a) \in Nat /\ Len(b) \in Nat
  OBVIOUS
<1>2. Len(a \o b) = Len(a) + Len(b)
  OBVIOUS
<1>3. \A i \in 1..Len(a) : (a \o b)[i] = a[i]
  OBVIOUS
<1>4. \A i \in 1..Len(b) : (a \o b)[Len(a) + i] = b[i]
  OBVIOUS
<1> QED
  BY <1>1, <1>2, <1>3, <1>4 DEF Concat

LEMMA FailureTold ==
  ASSUME NEW j \in Seq(EventNames), NEW records \in Seq(EventNames), LastRecords(j, records),
         NEW how \in {"FAILED", "SUPERVISOR_STOP"},
         Names(records, how)
  PROVE  /\ j \o records \o FailureRecords \in Seq(EventNames)
         /\ Told(j \o records \o FailureRecords, how)
<1> DEFINE jr == j \o records
           all == jr \o FailureRecords
           m == Len(j)
           k == Len(records)
<1>1. /\ FailureRecords \in Seq(EventNames) /\ Len(FailureRecords) = 2
      /\ FailureRecords[1] = "PRODUCER_FAILURE" /\ FailureRecords[2] = "FAILED"
  BY DEF FailureRecords, EventNames, ConnectionOutcomes, Terminals
<1>2. /\ jr \in Seq(EventNames) /\ Len(jr) = m + k /\ m \in Nat /\ k \in Nat
      /\ \A i \in 1..m : jr[i] = j[i]
      /\ \A i \in 1..k : jr[m + i] = records[i]
  BY ConcatPlaces DEF Concat
<1> HIDE DEF jr
<1>3. /\ all \in Seq(EventNames) /\ Len(all) = m + k + 2
      /\ \A i \in 1..(m + k) : all[i] = jr[i]
      /\ all[m + k + 1] = "PRODUCER_FAILURE" /\ all[m + k + 2] = "FAILED"
  <2>1. all \in Seq(EventNames) /\ Concat(all, jr, FailureRecords)
    BY <1>1, <1>2, ConcatPlaces
  <2> HIDE DEF all
  <2>2. 1 \in 1..2 /\ 2 \in 1..2
    OBVIOUS
  <2> QED
    BY <1>1, <1>2, <2>1, <2>2, Zenon DEF Concat
<1> HIDE DEF all
<1>4. /\ \A i \in 1..m : all[i] = j[i]
      /\ \A i \in 1..k : all[m + i] = records[i]
  BY <1>2, <1>3
<1>5. CASE /\ Connected(j) /\ m = 3
           /\ \A i \in 1..k : records[i] \in Middle
  <2>1. /\ all[1] = "CONNECT_ATTEMPT" /\ all[2] = "DNS_OBSERVED"
        /\ all[3] = "WEBSOCKET_CONNECTED" /\ Len(all) = k + 5
        /\ all[k + 4] = "PRODUCER_FAILURE" /\ all[k + 5] = "FAILED"
    BY <1>2, <1>3, <1>4, <1>5 DEF Connected
  <2>2. \A i \in 4..(k + 3) : i - 3 \in 1..k /\ all[i] = records[i - 3]
    BY <1>2, <1>4, <1>5
  <2>3. FailedEnd(all)
    <3>1. \A i \in 4..(k + 3) : all[i] \in Middle
      BY <1>5, <2>2
    <3>2. Len(all) - 1 = k + 4 /\ Len(all) - 2 = k + 3 /\ Len(all) >= 5 /\ Len(all) >= 4
      BY <1>2, <2>1
    <3> QED
      BY <2>1, <3>1, <3>2, Zenon DEF FailedEnd
  <2>4. (\E i \in 3..(k + 3) : all[i] = "SUPERVISOR_FAILURE_STOP")
          <=> \E i \in 1..k : records[i] = "SUPERVISOR_FAILURE_STOP"
    <3>1. \A i \in 1..k : i + 3 \in 4..(k + 3) /\ all[i + 3] = records[i]
      BY <1>2, <2>2
    <3>2. \A i \in 3..(k + 3) : i = 3 \/ i \in 4..(k + 3)
      BY <1>2
    <3>3. \A i \in 4..(k + 3) : i \in 3..(k + 3)
      BY <1>2
    <3> QED
      BY <2>1, <2>2, <3>1, <3>2, <3>3, Zenon
  <2>5. Len(all) - 2 = k + 3
    BY <1>2, <2>1
  <2>6. Told(all, how)
    BY <2>3, <2>4, <2>5, Zenon DEF Told, Names
  <2> QED
    BY <1>3, <2>6 DEF all, jr
<1>6. CASE /\ m = 0 /\ k \in 2..3
           /\ records[1] = "CONNECT_ATTEMPT" /\ records[2] = "DNS_OBSERVED"
           /\ k = 3 => records[3] \in {"CONNECT_FAILED", "WEBSOCKET_UPGRADE_REJECTED",
                                       "SUPERVISOR_FAILURE_STOP"}
  <2>1. /\ all[1] = "CONNECT_ATTEMPT" /\ all[2] = "DNS_OBSERVED" /\ Len(all) = k + 2
        /\ all[k + 1] = "PRODUCER_FAILURE" /\ all[k + 2] = "FAILED"
    BY <1>2, <1>3, <1>4, <1>6
  <2>2. k = 3 => all[3] = records[3]
    BY <1>2, <1>4, <1>6
  <2>3. FailedEnd(all)
    BY <1>2, <1>6, <2>1, <2>2 DEF FailedEnd
  <2>4. Len(all) - 2 = k
    BY <1>2, <2>1
  <2>5. (\E i \in 3..k : all[i] = "SUPERVISOR_FAILURE_STOP")
          <=> \E i \in 1..k : records[i] = "SUPERVISOR_FAILURE_STOP"
    <3>1. CASE k = 2
      <4>1. /\ \A i \in 3..k : FALSE
            /\ \A i \in 1..k : i = 1 \/ i = 2
        BY <3>1
      <4> QED
        BY <1>6, <4>1
    <3>2. CASE k = 3
      <4>1. /\ \A i \in 3..k : i = 3
            /\ \A i \in 1..k : i = 1 \/ i = 2 \/ i = 3
            /\ 3 \in 3..k /\ 3 \in 1..k
        BY <3>2
      <4> QED
        BY <1>6, <2>2, <3>2, <4>1
    <3> QED
      BY <1>6, <3>1, <3>2
  <2>6. Told(all, how)
    BY <2>3, <2>4, <2>5 DEF Told, Names
  <2> QED
    BY <1>3, <2>6 DEF all, jr
<1>7. j = <<>> => m = 0
  OBVIOUS
<1> QED
  BY <1>5, <1>6, <1>7 DEF LastRecords

LEMMA CleanTold ==
  ASSUME NEW j \in Seq(EventNames), Connected(j), Len(j) = 3
  PROVE  /\ j \o <<"CLIENT_STOP_OBSERVED">> \o <<"STOPPED">> \in Seq(EventNames)
         /\ Told(j \o <<"CLIENT_STOP_OBSERVED">> \o <<"STOPPED">>, "CLIENT_STOP")
<1> DEFINE a == <<"CLIENT_STOP_OBSERVED">>
           b == <<"STOPPED">>
           jr == j \o a
           all == jr \o b
<1>1. /\ a \in Seq(EventNames) /\ Len(a) = 1 /\ a[1] = "CLIENT_STOP_OBSERVED"
      /\ b \in Seq(EventNames) /\ Len(b) = 1 /\ b[1] = "STOPPED"
  BY DEF EventNames, AfterConnection, Terminals
<1> HIDE DEF a, b
<1>2. /\ jr \in Seq(EventNames) /\ Len(jr) = 4 /\ jr[4] = "CLIENT_STOP_OBSERVED"
      /\ jr[1] = j[1] /\ jr[2] = j[2] /\ jr[3] = j[3]
  <2>1. jr \in Seq(EventNames) /\ Concat(jr, j, a)
    BY <1>1, ConcatPlaces
  <2> HIDE DEF jr
  <2> QED
    BY <1>1, <2>1 DEF Concat
<1> HIDE DEF jr
<1>3. /\ all \in Seq(EventNames) /\ Len(all) = 5 /\ all[5] = "STOPPED" /\ all[4] = jr[4]
      /\ all[1] = jr[1] /\ all[2] = jr[2] /\ all[3] = jr[3]
  <2>1. all \in Seq(EventNames) /\ Concat(all, jr, b)
    BY <1>1, <1>2, ConcatPlaces
  <2> HIDE DEF all
  <2> QED
    BY <1>1, <1>2, <2>1 DEF Concat
<1> HIDE DEF all
<1>4. Stopped(all)
  BY <1>2, <1>3 DEF Stopped, Connected
<1>5. Told(all, "CLIENT_STOP")
  BY <1>4 DEF Told
<1> QED
  BY <1>3, <1>5 DEF all, jr, a, b

(* ThreadFailed stays: a producer ends once and a writer's error is final.   *)
LEMMA FailedStays ==
  ASSUME EndTypeOK, NEW s \in Streams, pend[s] = "OPEN",
         NEW how, pend' = [pend EXCEPT ![s] = how], werr' = werr
  PROVE  /\ ThreadFailed => ThreadFailed'
         /\ how = "FAILED" => ThreadFailed'
         /\ \A t \in Streams : pend'[t] = "CLIENT_STOP" => pend[t] = "CLIENT_STOP" \/ how = "CLIENT_STOP"
<1>1. pend'[s] = how /\ \A t \in Streams \ {s} : pend'[t] = pend[t]
  BY Zenon DEF EndTypeOK
<1> QED
  BY <1>1 DEF ThreadFailed

(* A producer that failed, or that the supervisor's cause stopped.           *)
LEMMA ProducerFailsInv ==
  ASSUME EndInv, NEW s \in Streams, NEW records \in Seq(EventNames), ppc[s] # "done",
         NEW how \in {"FAILED", "SUPERVISOR_STOP"}, LastRecords(journal[s], records),
         Names(records, how),
         ProducerEnds(s, how, records), how = "SUPERVISOR_STOP" => cause # "NONE",
         UNCHANGED <<cause, werr, mpc, startupFailed, runtimeFailed, terminal>>
  PROVE  EndInv'
<1> DEFINE all == journal[s] \o records \o FailureRecords
<1>1. EndTypeOK /\ CauseInv /\ \A t \in Streams : JournalInv(t)
  BY Zenon DEF EndInv
<1>2. pend[s] = "OPEN"
  BY <1>1 DEF JournalInv
<1>3. /\ ppc' = [ppc EXCEPT ![s] = "done"] /\ pend' = [pend EXCEPT ![s] = how]
      /\ journal' = [journal EXCEPT ![s] = all]
  BY Zenon DEF ProducerEnds, FailureRecords
<1>4. all \in Seq(EventNames) /\ Told(all, how)
  <2>1. journal[s] \in Seq(EventNames)
    BY <1>1 DEF EndTypeOK
  <2> QED
    BY <2>1, FailureTold
<1> HIDE DEF all
<1>5. EndTypeOK'
  BY <1>1, <1>3, <1>4 DEF EndTypeOK
<1>6. /\ journal'[s] = all /\ ppc'[s] = "done" /\ pend'[s] = how
      /\ \A t \in Streams \ {s} : journal'[t] = journal[t] /\ ppc'[t] = ppc[t] /\ pend'[t] = pend[t]
  BY <1>1, <1>3, Zenon DEF EndTypeOK
<1>7. ASSUME NEW t \in Streams PROVE JournalInv(t)'
  <2>1. CASE t = s
    BY <1>4, <1>6, <2>1, Zenon DEF JournalInv
  <2>2. CASE t # s
    BY <1>1, <1>6, <2>2 DEF JournalInv
  <2> QED
    BY <2>1, <2>2, Zenon
<1>8. /\ ThreadFailed => ThreadFailed'
      /\ how = "FAILED" => ThreadFailed'
      /\ \A t \in Streams : pend'[t] = "CLIENT_STOP" => pend[t] = "CLIENT_STOP"
  BY <1>1, <1>2, <1>3, FailedStays, Zenon
<1>9. CauseInv'
  BY <1>1, <1>8 DEF CauseInv
<1> QED
  BY <1>5, <1>7, <1>9 DEF EndInv

LEMMA ConnectSucceedsEnd ==
  ASSUME EndInv, NEW s \in Streams, ConnectSucceeds(s)
  PROVE  EndInv'
<1>1. EndTypeOK /\ CauseInv /\ JournalInv(s)
  BY DEF EndInv
<1>2. ppc[s] = "connect" /\ journal[s] = <<>> /\ pend[s] = "OPEN"
  BY <1>1 DEF JournalInv, ConnectSucceeds
<1>3. UNCHANGED <<cause, werr, mpc, startupFailed, runtimeFailed, terminal>>
  BY Zenon DEF ConnectSucceeds, writer, supervisor
<1>4. CASE cause # "NONE"
  <2> DEFINE records == Append(Attempt, "SUPERVISOR_FAILURE_STOP")
  <2>1. ProducerEnds(s, "SUPERVISOR_STOP", records)
    BY <1>4 DEF ConnectSucceeds
  <2>2. /\ records \in Seq(EventNames) /\ Len(records) = 3 /\ records[1] = "CONNECT_ATTEMPT"
        /\ records[2] = "DNS_OBSERVED" /\ records[3] = "SUPERVISOR_FAILURE_STOP"
    BY DEF Attempt, EventNames, ConnectionOutcomes
  <2> HIDE DEF records
  <2>3. LastRecords(journal[s], records)
    BY <1>2, <2>2 DEF LastRecords
  <2>4. Names(records, "SUPERVISOR_STOP")
    BY <2>2 DEF Names
  <2> QED
    BY <1>2, <1>3, <1>4, <2>1, <2>2, <2>3, <2>4, ProducerFailsInv, Zenon
<1>5. CASE cause = "NONE"
  <2> DEFINE records == Append(Attempt, "WEBSOCKET_CONNECTED")
  <2>1. /\ ppc' = [ppc EXCEPT ![s] = "read"]
        /\ journal' = [journal EXCEPT ![s] = records]
        /\ UNCHANGED <<pend, stop>>
    BY <1>5 DEF ConnectSucceeds
  <2>2. /\ records \in Seq(EventNames) /\ Len(records) = 3 /\ records[1] = "CONNECT_ATTEMPT"
        /\ records[2] = "DNS_OBSERVED" /\ records[3] = "WEBSOCKET_CONNECTED"
    BY DEF Attempt, EventNames, ConnectionOutcomes
  <2> HIDE DEF records
  <2>3. Connected(records)
    BY <2>2 DEF Connected
  <2>4. EndTypeOK'
    BY <1>1, <1>3, <2>1, <2>2, Zenon DEF EndTypeOK
  <2>5. CauseInv'
    BY <1>1, <1>3, <2>1, Zenon DEF CauseInv, ThreadFailed
  <2>6. ASSUME NEW t \in Streams PROVE JournalInv(t)'
    <3>1. CASE t = s
      <4>1. ppc'[s] = "read" /\ journal'[s] = records
        BY <1>1, <2>1, Zenon DEF EndTypeOK
      <4> QED
        BY <1>2, <2>1, <2>2, <2>3, <3>1, <4>1 DEF JournalInv
    <3>2. CASE t # s
      <4>1. ppc'[t] = ppc[t] /\ journal'[t] = journal[t]
        BY <1>1, <2>1, <3>2, Zenon DEF EndTypeOK
      <4> QED
        BY <2>1, <4>1 DEF JournalInv, EndInv
    <3> QED
      BY <3>1, <3>2
  <2> QED
    BY <2>4, <2>5, <2>6 DEF EndInv
<1> QED
  BY <1>4, <1>5

LEMMA ConnectFailsEnd ==
  ASSUME EndInv, NEW s \in Streams, ConnectFails(s)
  PROVE  EndInv'
<1>1. JournalInv(s) /\ ppc[s] = "connect"
  BY Zenon DEF EndInv, ConnectFails
<1>2. journal[s] = <<>>
  BY <1>1 DEF JournalInv
<1>3. UNCHANGED <<cause, werr, mpc, startupFailed, runtimeFailed, terminal>>
  BY DEF ConnectFails, writer, supervisor
<1>4. PICK last \in {<<"CONNECT_FAILED">>, <<"WEBSOCKET_UPGRADE_REJECTED">>, <<>>} :
        ProducerEnds(s, "FAILED", Attempt \o last)
  BY Zenon DEF ConnectFails
<1> DEFINE records == Attempt \o last
<1>5. /\ Attempt \in Seq(EventNames) /\ Len(Attempt) = 2
      /\ Attempt[1] = "CONNECT_ATTEMPT" /\ Attempt[2] = "DNS_OBSERVED"
  BY DEF Attempt, EventNames
<1>6. /\ last \in Seq(EventNames) /\ Len(last) \in 0..1
      /\ Len(last) = 1 => last[1] \in {"CONNECT_FAILED", "WEBSOCKET_UPGRADE_REJECTED"}
  <2>1. CASE last = <<"CONNECT_FAILED">>
    BY <2>1 DEF EventNames, ConnectionOutcomes
  <2>2. CASE last = <<"WEBSOCKET_UPGRADE_REJECTED">>
    BY <2>2 DEF EventNames, ConnectionOutcomes
  <2>3. CASE last = <<>>
    BY <2>3
  <2> QED
    BY <2>1, <2>2, <2>3
<1>7. records \in Seq(EventNames) /\ Concat(records, Attempt, last)
  BY <1>5, <1>6, ConcatPlaces, Zenon
<1> HIDE DEF records
<1>8. /\ Len(records) \in 2..3 /\ records[1] = "CONNECT_ATTEMPT" /\ records[2] = "DNS_OBSERVED"
      /\ Len(records) = 3 => records[3] \in {"CONNECT_FAILED", "WEBSOCKET_UPGRADE_REJECTED"}
  BY <1>5, <1>6, <1>7 DEF Concat
<1>9. LastRecords(journal[s], records)
  BY <1>2, <1>8 DEF LastRecords
<1>10. Names(records, "FAILED")
  <2>1. \A i \in 1..Len(records) : i = 1 \/ i = 2 \/ (i = 3 /\ Len(records) = 3)
    <3>1. Len(records) = 2 \/ Len(records) = 3
      BY <1>8
    <3>2. (\A i \in 1..2 : i = 1 \/ i = 2) /\ (\A i \in 1..3 : i = 1 \/ i = 2 \/ i = 3)
      OBVIOUS
    <3>3. CASE Len(records) = 2
      BY <3>2, <3>3, Zenon
    <3>4. CASE Len(records) = 3
      BY <3>2, <3>4, Zenon
    <3> QED
      BY <3>1, <3>3, <3>4
  <2>2. \A i \in 1..Len(records) : records[i] # "SUPERVISOR_FAILURE_STOP"
    BY <1>8, <2>1
  <2> QED
    BY <2>2 DEF Names
<1>11. ProducerEnds(s, "FAILED", records)
  BY <1>4, Zenon DEF records
<1> QED
  BY <1>1, <1>3, <1>7, <1>9, <1>10, <1>11, ProducerFailsInv, Zenon

(* The read loop's failure leaves records of a connected transport.          *)
LEMMA ReadFailsEnd ==
  ASSUME EndInv, NEW s \in Streams, ppc[s] \in {"read", "send"}, NEW last \in Seq(Middle),
         \A i \in 1..Len(last) : last[i] # "SUPERVISOR_FAILURE_STOP",
         ProducerEnds(s, "FAILED", last),
         UNCHANGED <<cause, werr, mpc, startupFailed, runtimeFailed, terminal>>
  PROVE  EndInv'
<1>1. JournalInv(s)
  BY Zenon DEF EndInv
<1>2. Connected(journal[s]) /\ Len(journal[s]) = 3
  BY <1>1 DEF JournalInv
<1>3. Middle \subseteq EventNames
  BY DEF Middle, EventNames, ConnectionOutcomes
<1>4. last \in Seq(EventNames) /\ \A i \in 1..Len(last) : last[i] \in Middle
  BY <1>3
<1>5. LastRecords(journal[s], last)
  BY <1>2, <1>4 DEF LastRecords
<1>6. Names(last, "FAILED")
  BY DEF Names
<1> QED
  BY <1>4, <1>5, <1>6, ProducerFailsInv

LEMMA TransportFailsEnd ==
  ASSUME EndInv, NEW s \in Streams, TransportFails(s)
  PROVE  EndInv'
<1>1. UNCHANGED <<cause, werr, mpc, startupFailed, runtimeFailed, terminal>> /\ ppc[s] = "read"
  BY DEF TransportFails, writer, supervisor
<1>2. PICK last \in {<<"WATCHDOG_PING_SENT", "WATCHDOG_PONG_DEADLINE">>,
                     <<"READ_TIMEOUT", "TRANSPORT_DEADLINE">>,
                     <<"SOCKET_READ_ERROR">>, <<"WEBSOCKET_CLOSE">>, <<>>} :
        ProducerEnds(s, "FAILED", last)
  BY DEF TransportFails
<1> DEFINE Fine(r) == r \in Seq(Middle) /\ \A i \in 1..Len(r) : r[i] # "SUPERVISOR_FAILURE_STOP"
<1>3. Fine(<<"WATCHDOG_PING_SENT", "WATCHDOG_PONG_DEADLINE">>)
  BY DEF Middle, AfterConnection
<1>4. Fine(<<"READ_TIMEOUT", "TRANSPORT_DEADLINE">>)
  BY DEF Middle, AfterConnection
<1>5. Fine(<<"SOCKET_READ_ERROR">>) /\ Fine(<<"WEBSOCKET_CLOSE">>)
  BY DEF Middle, AfterConnection
<1>6. Fine(<<>>)
  OBVIOUS
<1> HIDE DEF Fine
<1>7. Fine(last)
  BY <1>3, <1>4, <1>5, <1>6
<1> QED
  BY <1>1, <1>2, <1>7, ReadFailsEnd DEF Fine

(* A message taken or queued leaves the journal alone.                       *)
LEMMA FrameEnd ==
  ASSUME EndInv, NEW s \in Streams, ppc[s] \in {"read", "send"}, NEW at \in {"read", "send"},
         ppc' = [ppc EXCEPT ![s] = at],
         UNCHANGED <<pend, journal, stop, cause, werr, mpc, startupFailed, runtimeFailed, terminal>>
  PROVE  EndInv'
<1>1. EndTypeOK /\ CauseInv /\ \A t \in Streams : JournalInv(t)
  BY Zenon DEF EndInv
<1>2. ppc'[s] = at /\ \A t \in Streams \ {s} : ppc'[t] = ppc[t]
  BY <1>1, Zenon DEF EndTypeOK
<1>3. EndTypeOK'
  BY <1>1 DEF EndTypeOK
<1>4. CauseInv'
  BY <1>1, Zenon DEF CauseInv, ThreadFailed
<1>5. ASSUME NEW t \in Streams PROVE JournalInv(t)'
  <2>1. CASE t = s
    BY <1>1, <1>2, <2>1 DEF JournalInv
  <2>2. CASE t # s
    BY <1>1, <1>2, <2>2 DEF JournalInv
  <2> QED
    BY <2>1, <2>2, Zenon
<1> QED
  BY <1>3, <1>4, <1>5, Zenon DEF EndInv

LEMMA ReceiveFrameEnd ==
  ASSUME EndInv, NEW s \in Streams, NEW kind, ReceiveFrame(s, kind)
  PROVE  EndInv'
<1>1. /\ UNCHANGED <<pend, journal, stop, cause, werr, mpc, startupFailed, runtimeFailed, terminal>>
      /\ ppc[s] = "read" /\ ppc' = [ppc EXCEPT ![s] = "send"]
  BY Zenon DEF ReceiveFrame, writer, supervisor
<1> QED
  BY <1>1, FrameEnd

LEMMA QueueFrameEnd ==
  ASSUME EndInv, NEW s \in Streams, QueueFrame(s)
  PROVE  EndInv'
<1>1. UNCHANGED <<cause, werr, mpc, startupFailed, runtimeFailed, terminal>> /\ ppc[s] = "send"
  BY Zenon DEF QueueFrame, writer, supervisor
<1>2. CASE ProducerEnds(s, "FAILED", <<>>)
  <2>1. <<>> \in Seq(Middle) /\ \A i \in 1..Len(<<>>) : FALSE
    OBVIOUS
  <2> QED
    BY <1>1, <1>2, <2>1, ReadFailsEnd, Zenon
<1>3. CASE ppc' = [ppc EXCEPT ![s] = "read"] /\ UNCHANGED <<pend, journal, stop>>
  BY <1>1, <1>3, FrameEnd
<1> QED
  BY <1>2, <1>3, Zenon DEF QueueFrame

LEMMA ObserveStopEnd ==
  ASSUME EndInv, NEW s \in Streams, ObserveStop(s)
  PROVE  EndInv'
<1>1. EndTypeOK /\ CauseInv /\ JournalInv(s) /\ ppc[s] = "read" /\ stop
  BY DEF EndInv, ObserveStop
<1>2. UNCHANGED <<cause, werr, mpc, startupFailed, runtimeFailed, terminal>>
  BY Zenon DEF ObserveStop, writer, supervisor
<1>3. Connected(journal[s]) /\ Len(journal[s]) = 3 /\ pend[s] = "OPEN"
  BY <1>1, Zenon DEF JournalInv
<1>4. CASE cause # "NONE"
  <2> DEFINE records == <<"SUPERVISOR_FAILURE_STOP">>
  <2>1. ProducerEnds(s, "SUPERVISOR_STOP", records)
    BY <1>4 DEF ObserveStop
  <2>2. /\ records \in Seq(EventNames) /\ Len(records) = 1
        /\ records[1] = "SUPERVISOR_FAILURE_STOP"
    BY DEF EventNames, ConnectionOutcomes
  <2> HIDE DEF records
  <2>3. LastRecords(journal[s], records)
    BY <1>3, <2>2 DEF LastRecords, Middle
  <2>4. Names(records, "SUPERVISOR_STOP")
    BY <2>2 DEF Names
  <2> QED
    BY <1>1, <1>2, <1>4, <2>1, <2>2, <2>3, <2>4, ProducerFailsInv, Zenon
<1>5. CASE cause = "NONE"
  <2> DEFINE all == journal[s] \o <<"CLIENT_STOP_OBSERVED">> \o <<"STOPPED">>
  <2>1. /\ ppc' = [ppc EXCEPT ![s] = "done"] /\ pend' = [pend EXCEPT ![s] = "CLIENT_STOP"]
        /\ journal' = [journal EXCEPT ![s] = all] /\ stop' = stop
    BY <1>5 DEF ObserveStop, ProducerEnds
  <2>2. all \in Seq(EventNames) /\ Told(all, "CLIENT_STOP")
    BY <1>1, <1>3, CleanTold, Zenon DEF EndTypeOK
  <2> HIDE DEF all
  <2>3. EndTypeOK'
    BY <1>1, <1>2, <2>1, <2>2 DEF EndTypeOK
  <2>4. /\ journal'[s] = all /\ ppc'[s] = "done" /\ pend'[s] = "CLIENT_STOP"
        /\ \A t \in Streams \ {s} : journal'[t] = journal[t] /\ ppc'[t] = ppc[t] /\ pend'[t] = pend[t]
    BY <1>1, <2>1, Zenon DEF EndTypeOK
  <2>5. ASSUME NEW t \in Streams PROVE JournalInv(t)'
    <3>1. CASE t = s
      BY <2>2, <2>4, <3>1, Zenon DEF JournalInv
    <3>2. CASE t # s
      BY <2>4, <3>2 DEF JournalInv, EndInv
    <3> QED
      BY <3>1, <3>2
  <2>6. ThreadFailed => ThreadFailed'
    BY <1>1, <1>2, <1>3, <2>1, FailedStays, Zenon
  <2>7. ThreadFailed \/ mpc \in {"join", "done"}
    BY <1>1, <1>5, Zenon DEF CauseInv
  <2>8. CauseInv'
    BY <1>1, <1>2, <1>5, <2>1, <2>6, <2>7, Zenon DEF CauseInv
  <2> QED
    BY <2>3, <2>5, <2>8, Zenon DEF EndInv
<1> QED
  BY <1>4, <1>5

(* A writer that fails raises the flag with its error; any other step of a   *)
(* writer changes nothing the ends depend on.                                *)
LEMMA WriterEnd ==
  ASSUME EndInv, NEW s \in Streams, Writer(s)
  PROVE  EndInv'
<1>1. UNCHANGED <<producer, cause, mpc, startupFailed, runtimeFailed, terminal>>
  BY Zenon DEF Writer, WriterFails, TakeFrame, TakeBoundary, IdleSync, Disconnected, SealSegment,
         AppendHeld, AnnounceShutdown, supervisor
<1>2. \/ werr' = [werr EXCEPT ![s] = TRUE]
      \/ UNCHANGED <<werr, stop>>
  <2>1. CASE WriterFails(s)
    BY <2>1 DEF WriterFails
  <2>2. CASE TakeFrame(s) \/ IdleSync(s) \/ SealSegment(s) \/ AppendHeld(s)
    BY <2>2 DEF TakeFrame, IdleSync, SealSegment, AppendHeld
  <2>3. CASE TakeBoundary(s)
    BY <2>3 DEF TakeBoundary, WriterEnds
  <2>4. CASE Disconnected(s)
    BY <2>4 DEF Disconnected, WriterEnds
  <2>5. CASE AnnounceShutdown(s)
    BY <2>5 DEF AnnounceShutdown, WriterEnds
  <2> QED
    BY <2>1, <2>2, <2>3, <2>4, <2>5, Zenon DEF Writer
<1>3. EndTypeOK /\ CauseInv /\ \A t \in Streams : JournalInv(t)
  BY Zenon DEF EndInv
<1>4. \A t \in Streams : JournalInv(t)'
  BY <1>1, <1>3 DEF JournalInv, producer
<1>5. CASE werr' = [werr EXCEPT ![s] = TRUE]
  <2>1. EndTypeOK'
    BY <1>1, <1>3, <1>5, Zenon DEF EndTypeOK, producer
  <2>2. werr'[s] = TRUE
    BY <1>3, <1>5, Zenon DEF EndTypeOK
  <2>3. ThreadFailed'
    BY <2>2, Zenon DEF ThreadFailed
  <2>4. CauseInv'
    BY <1>1, <1>3, <2>3 DEF CauseInv
  <2> QED
    BY <1>4, <2>1, <2>4, Zenon DEF EndInv
<1>6. CASE UNCHANGED <<werr, stop>>
  <2>1. EndTypeOK' /\ CauseInv'
    BY <1>1, <1>3, <1>6, Zenon DEF EndTypeOK, CauseInv, ThreadFailed, producer
  <2> QED
    BY <1>4, <2>1, Zenon DEF EndInv
<1> QED
  BY <1>2, <1>5, <1>6, Zenon

(* The main thread's steps leave the threads' ends alone.                    *)
LEMMA MainEndFrame ==
  ASSUME EndInv, UNCHANGED <<ppc, pend, journal, werr>>,
         cause' \in {"NONE", "LOCAL", "CAMPAIGN"},
         mpc' \in {"connect", "failStartup", "loop", "settle", "raise", "join", "done"},
         runtimeFailed' \in BOOLEAN,
         CauseInv'
  PROVE  EndInv'
  BY DEF EndInv, EndTypeOK, JournalInv

LEMMA MainEnd ==
  ASSUME EndInv, Tick \/ Main
  PROVE  EndInv'
<1>1. EndTypeOK /\ CauseInv
  BY Zenon DEF EndInv
<1>2. UNCHANGED <<ppc, pend, journal, werr>>
  BY Zenon DEF Tick, Main, HearConnection, ConnectionTimeout, FetchSnapshot, FailStartup, StopRequested,
         ClockProbeFails, DrainEvents, Abandon, LoopEnds, Settle, RaiseStop, Finish, mainRest,
         producer, writer
<1>3. ThreadFailed <=> ThreadFailed'
  BY <1>2 DEF ThreadFailed
<1>4. cause \in {"NONE", "LOCAL", "CAMPAIGN"}
      /\ mpc \in {"connect", "failStartup", "loop", "settle", "raise", "join", "done"}
  BY <1>1 DEF EndTypeOK
<1>15. runtimeFailed' \in BOOLEAN
  <2>1. runtimeFailed' \in {runtimeFailed, TRUE}
    BY Zenon DEF Tick, Main, HearConnection, ConnectionTimeout, FetchSnapshot, FailStartup, StopRequested,
           ClockProbeFails, DrainEvents, Abandon, LoopEnds, Settle, RaiseStop, Finish, supervisor
  <2> QED
    BY <1>1, <2>1, Zenon DEF EndTypeOK
<1>5. CASE Tick \/ DrainEvents
  <2>1. UNCHANGED <<stop, cause, mpc, startupFailed, runtimeFailed, terminal>>
    BY <1>5, Zenon DEF Tick, DrainEvents, supervisor
  <2>2. CauseInv'
    BY <1>1, <1>2, <1>3, <2>1 DEF CauseInv
  <2> QED
    BY <1>2, <1>4, <2>1, <2>2, <1>15, MainEndFrame
<1>6. CASE HearConnection \/ ConnectionTimeout
  <2>1. UNCHANGED <<stop, cause, mpc, runtimeFailed, terminal>> /\ mpc = "connect"
    BY <1>6, Zenon DEF HearConnection, ConnectionTimeout
  <2>2. CauseInv'
    BY <1>1, <1>2, <1>3, <2>1, Zenon DEF CauseInv
  <2> QED
    BY <1>2, <1>4, <2>1, <2>2, <1>15, MainEndFrame, Zenon
<1>7. CASE FetchSnapshot
  <2>1. /\ UNCHANGED <<stop, cause, runtimeFailed, terminal>> /\ mpc = "connect"
        /\ mpc' \in {"loop", "failStartup"} /\ (mpc' = "loop" => startupFailed' = FALSE)
    BY <1>7, Zenon DEF FetchSnapshot
  <2>2. CauseInv'
    BY <1>1, <1>2, <1>3, <2>1, Zenon DEF CauseInv
  <2> QED
    BY <1>2, <1>4, <2>1, <2>2, <1>15, MainEndFrame
<1>8. CASE FailStartup
  <2>1. /\ UNCHANGED <<stop, startupFailed, runtimeFailed, terminal>> /\ mpc = "failStartup"
        /\ mpc' = "raise" /\ cause' = "LOCAL"
    BY <1>8, Zenon DEF FailStartup
  <2>2. CauseInv'
    BY <1>1, <1>2, <1>3, <2>1, Zenon DEF CauseInv
  <2> QED
    BY <1>2, <2>1, <2>2, <1>15, MainEndFrame
<1>9. CASE StopRequested \/ ClockProbeFails
  <2>1. /\ UNCHANGED <<stop, startupFailed, terminal>> /\ mpc = "loop" /\ ~stop
        /\ mpc' = "settle" /\ cause' \in {"NONE", "LOCAL", "CAMPAIGN"}
    BY <1>9, Zenon DEF StopRequested, ClockProbeFails, InLoop
  <2>2. CauseInv'
    BY <1>1, <1>2, <1>3, <2>1 DEF CauseInv
  <2> QED
    BY <1>2, <2>1, <2>2, <1>15, MainEndFrame, Zenon
<1>10. CASE Abandon
  <2>1. /\ UNCHANGED <<stop, cause, mpc, startupFailed, runtimeFailed>> /\ terminal' = "ABANDONED"
    BY <1>10, Zenon DEF Abandon
  <2>2. CauseInv'
    BY <1>1, <1>2, <1>3, <2>1, Zenon DEF CauseInv
  <2> QED
    BY <1>2, <1>4, <2>1, <2>2, <1>15, MainEndFrame, Zenon
<1>11. CASE LoopEnds
  <2>1. /\ UNCHANGED <<stop, cause, startupFailed, runtimeFailed, terminal>> /\ mpc = "loop"
        /\ mpc' = "settle"
    BY <1>11, Zenon DEF LoopEnds
  <2>2. CauseInv'
    BY <1>1, <1>2, <1>3, <2>1, Zenon DEF CauseInv
  <2> QED
    BY <1>2, <1>4, <2>1, <2>2, <1>15, MainEndFrame, Zenon
<1>12. CASE Settle
  <2>1. /\ UNCHANGED <<stop, startupFailed, runtimeFailed, terminal>> /\ mpc = "settle"
        /\ mpc' = "raise" /\ (runtimeFailed => cause' # "NONE") /\ cause' \in {cause, "LOCAL"}
        /\ (cause' = "NONE" => cause = "NONE")
    BY <1>12 DEF Settle
  <2>2. cause' = "NONE" => runtimeFailed = FALSE
    BY <1>1, <2>1, Zenon DEF EndTypeOK
  <2>3. CauseInv'
    BY <1>1, <1>2, <1>3, <2>1, <2>2, Zenon DEF CauseInv
  <2> QED
    BY <1>2, <1>4, <2>1, <2>3, <1>15, MainEndFrame, Zenon
<1>13. CASE RaiseStop
  <2>1. /\ UNCHANGED <<cause, startupFailed, runtimeFailed, terminal>> /\ mpc = "raise"
        /\ mpc' = "join"
    BY <1>13, Zenon DEF RaiseStop
  <2>2. CauseInv'
    BY <1>1, <1>2, <1>3, <2>1, Zenon DEF CauseInv
  <2> QED
    BY <1>2, <1>4, <2>1, <2>2, <1>15, MainEndFrame
<1>14. CASE Finish
  <2>1. /\ UNCHANGED <<stop, cause, startupFailed, runtimeFailed>> /\ mpc = "join"
        /\ mpc' = "done"
    BY <1>14, Zenon DEF Finish
  <2>2. CauseInv'
    BY <1>1, <1>2, <1>3, <2>1 DEF CauseInv
  <2> QED
    BY <1>2, <1>4, <2>1, <2>2, <1>15, MainEndFrame, Zenon
<1> QED
  BY <1>5, <1>6, <1>7, <1>8, <1>9, <1>10, <1>11, <1>12, <1>13, <1>14, Zenon DEF Main

LEMMA EndNext ==
  ASSUME EndInv, [Next]_vars
  PROVE  EndInv'
<1>1. CASE Tick \/ Main
  BY <1>1, MainEnd
<1>2. ASSUME NEW s \in Streams, Producer(s) PROVE EndInv'
  BY <1>2, ConnectSucceedsEnd, ConnectFailsEnd, TransportFailsEnd, ObserveStopEnd, ReceiveFrameEnd,
     QueueFrameEnd
     DEF Producer
<1>3. ASSUME NEW s \in Streams, Writer(s) PROVE EndInv'
  BY <1>3, WriterEnd, Zenon
<1>4. CASE UNCHANGED vars
  BY <1>4 DEF vars, producer, writer, supervisor, EndInv, EndTypeOK, CauseInv, ThreadFailed, JournalInv
<1> QED
  BY <1>1, <1>2, <1>3, <1>4, Zenon DEF Next

(* Every producer's journal, and the cause of the run's end, stay as EndInv  *)
(* says (producer_loop, run).                                                *)
THEOREM EndInvariance == Spec => []EndInv
  BY EndInit, EndNext, PTL DEF Spec

(* producer_loop and diagnose_sealed_transport_journal: wherever a producer  *)
(* ends its journal seals and its diagnosis tells a clean stop, a            *)
(* supervisor's stop and a failure apart; in a run the supervisor failed, a  *)
(* journal that says CLIENT_STOP_OBSERVED means that a thread had failed     *)
(* first.                                                                    *)
THEOREM JournalsTellTheEnd == Spec => []SealedJournalTellsTheEnd
<1>1. ASSUME EndInv PROVE SealedJournalTellsTheEnd
  <2>1. EndTypeOK /\ CauseInv /\ \A s \in Streams : JournalInv(s)
    BY <1>1, Zenon DEF EndInv
  <2>2. ASSUME NEW s \in Streams, ppc[s] = "done"
        PROVE  /\ Seals(journal[s])
               /\ Classification(journal[s]) = "CLEAN_CLIENT_STOP" <=> pend[s] = "CLIENT_STOP"
               /\ Classification(journal[s]) = "SUPERVISOR_FAILURE_STOP" <=> pend[s] = "SUPERVISOR_STOP"
    <3>1. journal[s] \in Seq(EventNames) /\ Told(journal[s], pend[s])
      BY <2>1, <2>2 DEF EndTypeOK, JournalInv
    <3> QED
      BY <3>1, ToldClass, Zenon
  <2>3. ASSUME terminal = "FAILED", startupFailed \/ runtimeFailed,
               NEW s \in Streams, pend[s] = "CLIENT_STOP"
        PROVE  \E t \in Streams : pend[t] = "FAILED" \/ werr[t]
    <3>1. mpc = "done"
      BY <2>1, <2>3 DEF CauseInv
    <3>2. cause # "NONE"
      BY <2>1, <2>3, <3>1 DEF CauseInv
    <3>3. ThreadFailed
      BY <2>1, <2>3, <3>2 DEF CauseInv
    <3> QED
      BY <3>3 DEF ThreadFailed
  <2> QED
    BY <2>2, <2>3, Zenon DEF SealedJournalTellsTheEnd
<1> QED
  BY <1>1, EndInvariance, PTL
=============================================================================
