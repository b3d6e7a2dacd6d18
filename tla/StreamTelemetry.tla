-------------------------- MODULE StreamTelemetry --------------------------
(***************************************************************************)
(* The inductive invariants of StreamWriter, of the segments' files and of *)
(* the counters, and what every step does to the counters and to the       *)
(* records the sampler takes of them, one load after the other and without *)
(* a lock.  StreamWriterProofs has the steps of the files and the          *)
(* theorems.                                                               *)
(***************************************************************************)
EXTENDS StreamWriter, TLAPS

RawFile == [written : Nat, synced : Nat, torn : BOOLEAN]
LogFile == [lines : Seq(Nat), synced : Nat, torn : BOOLEAN]
Following ==
  [segment : Nat, before : Nat, bound : BOOLEAN, read : Nat, lines : Nat, records : Nat,
   poisoned : BOOLEAN]

StreamTypeOK ==
  /\ raw \in Seq(RawFile) /\ prog \in Seq(LogFile) /\ man \in LogFile
  /\ Len(raw) > 0 /\ Len(prog) = Len(raw)
  /\ acked \in Nat /\ up \in BOOLEAN
  /\ DOMAIN h = FieldSet /\ h["durable"] \in Nat
  /\ fol \in Following

LastOf(lines) == IF lines = <<>> THEN 0 ELSE lines[Len(lines)]

(* An ACK covers synced records, and each one more than those before it.     *)
GoodLines(lines, bound) ==
  /\ \A i \in 1..Len(lines) : 0 < lines[i] /\ lines[i] <= bound
  /\ \A i, j \in 1..Len(lines) : i < j => lines[i] < lines[j]

GoodSegment(r, p) ==
  /\ r.synced <= r.written /\ p.synced <= Len(p.lines)
  /\ GoodLines(p.lines, r.synced)

SegmentsInv == \A k \in 1..Seg : GoodSegment(raw[k], prog[k])

(* Records of the segments before segment k.                                 *)
Before(k) == IF k = 1 THEN 0 ELSE man.lines[k - 1]

(* A sealed segment is synced and its journal ends at its seal.              *)
ManifestInv ==
  /\ Len(man.lines) \in {Seg - 1, Seg} /\ man.synced <= Len(man.lines)
  /\ \A k \in 1..Len(man.lines) :
       /\ raw[k].synced = raw[k].written /\ LastOf(prog[k].lines) = raw[k].written
       /\ man.lines[k] = raw[k].written + Before(k)

Synced == raw[Seg].synced = raw[Seg].written
SealWritten == wpc \in {"sealed", "open"} \/ (wpc = "done" /\ via = "end")
SealSynced == wpc = "open" \/ (wpc = "done" /\ via = "end")

(* What the writer's place says of the files of the open segment.            *)
ControlInv ==
  /\ acked = LastOf(prog[Seg].lines)
  /\ wpc # "ackSync" => prog[Seg].synced = Len(prog[Seg].lines)
  /\ Len(man.lines) = IF SealWritten THEN Seg ELSE Seg - 1
  /\ man.synced = IF SealSynced THEN Seg ELSE Seg - 1
  /\ wpc \in {"append", "write"} => via # "group"
  /\ wpc \in {"count", "market"} /\ via = "group" => Synced
  /\ wpc \in {"last", "max", "ack", "line", "ackSync", "durable", "lastDurable", "seal",
              "sealing", "sealed", "open"} => Synced
  /\ wpc = "line" => acked # raw[Seg].written
  /\ wpc \in {"ackSync", "durable", "sealing", "sealed", "open"} => acked = raw[Seg].written

(* The frames the counter calls durable are in synced ACKs.                  *)
Acknowledged(p) == IF p.synced = 0 THEN 0 ELSE p.lines[p.synced]
DurableInv == h["durable"] <= Before(Seg) + Acknowledged(prog[Seg])

FollowerInv ==
  /\ ~fol.poisoned
  /\ fol.segment <= Len(man.lines) + 1
  /\ fol.segment > 0 => fol.before = Before(fol.segment)
  /\ fol.bound =>
       /\ fol.segment \in 1..Seg
       /\ fol.lines <= fol.read /\ fol.read <= Len(prog[fol.segment].lines)
       /\ fol.records = IF fol.lines = 0 THEN 0 ELSE prog[fol.segment].lines[fol.lines]
  /\ ~fol.bound => fol.read = 0 /\ fol.lines = 0 /\ fol.records = 0

StreamInv ==
  /\ StreamTypeOK /\ SegmentsInv /\ ManifestInv /\ DurableInv /\ FollowerInv
  /\ up => ControlInv
  /\ ~up => prog[Seg].synced = Len(prog[Seg].lines)

-----------------------------------------------------------------------------
(* Sequences and files.                                                      *)
LEMMA Update ==
  ASSUME NEW S, NEW s \in Seq(S), NEW i \in 1..Len(s), NEW x \in S
  PROVE  /\ [s EXCEPT ![i] = x] \in Seq(S)
         /\ Len([s EXCEPT ![i] = x]) = Len(s)
         /\ [s EXCEPT ![i] = x][i] = x
         /\ \A j \in 1..Len(s) : j # i => [s EXCEPT ![i] = x][j] = s[j]
  OBVIOUS

LEMMA Appended ==
  ASSUME NEW S, NEW s \in Seq(S), NEW x \in S
  PROVE  /\ Append(s, x) \in Seq(S)
         /\ Len(Append(s, x)) = Len(s) + 1
         /\ Append(s, x)[Len(s) + 1] = x
         /\ \A j \in 1..Len(s) : Append(s, x)[j] = s[j]
  OBVIOUS

LEMMA Previous ==
  \A n, m \in Nat : n > 0 /\ n # 1 /\ n <= m + 1 => n - 1 \in 1..m
  OBVIOUS

LEMMA FieldFacts == {"durable", "received", "written", "socket", "market", "segment", "queue",
                     "maxQueue", "lastSync", "maxSync", "lastDurable"} \subseteq FieldSet
<1> DEFINE F == Fields
<1>1. DOMAIN F = 1..11
  BY DEF Fields
<1>2. /\ F[1] = "lastDurable" /\ F[2] = "durable" /\ F[3] = "market" /\ F[4] = "written"
      /\ F[5] = "socket" /\ F[6] = "received" /\ F[7] = "segment" /\ F[8] = "queue"
      /\ F[9] = "maxQueue" /\ F[10] = "lastSync" /\ F[11] = "maxSync"
  BY DEF Fields
<1> HIDE DEF F
<1>3. FieldSet = {F[i] : i \in 1..11}
  BY <1>1 DEF FieldSet, F
<1>4. \A i \in {1, 2, 3, 4, 5, 6, 7, 8, 9, 10, 11} : F[i] \in FieldSet
  BY <1>3
<1> QED
  BY <1>2, <1>4

LEMMA LineNat ==
  ASSUME NEW L \in Seq(Nat), NEW i \in 1..Len(L)
  PROVE  L[i] \in Nat
  OBVIOUS

LEMMA LastCovered ==
  ASSUME NEW L \in Seq(Nat), NEW b \in Nat, GoodLines(L, b)
  PROVE  LastOf(L) \in Nat /\ LastOf(L) <= b
<1>1. CASE L = <<>>
  BY <1>1 DEF LastOf
<1>2. CASE L # <<>>
  <2>1. Len(L) \in 1..Len(L)
    BY <1>2
  <2>2. L[Len(L)] \in Nat /\ L[Len(L)] <= b
    BY <2>1, LineNat DEF GoodLines
  <2> QED
    BY <1>2, <2>2 DEF LastOf
<1> QED
  BY <1>1, <1>2

LEMMA Typed ==
  ASSUME StreamTypeOK, NEW k \in 1..Seg
  PROVE  /\ raw[k] \in RawFile /\ prog[k] \in LogFile
         /\ raw[k].written \in Nat /\ raw[k].synced \in Nat /\ raw[k].torn \in BOOLEAN
         /\ prog[k].lines \in Seq(Nat) /\ prog[k].synced \in Nat /\ prog[k].torn \in BOOLEAN
<1>1. raw[k] \in RawFile /\ prog[k] \in LogFile
  BY DEF StreamTypeOK, Seg
<1>2. raw[k].written \in Nat /\ raw[k].synced \in Nat /\ raw[k].torn \in BOOLEAN
  BY <1>1 DEF RawFile
<1>3. prog[k].lines \in Seq(Nat) /\ prog[k].synced \in Nat /\ prog[k].torn \in BOOLEAN
  BY <1>1 DEF LogFile
<1> QED
  BY <1>1, <1>2, <1>3

LEMMA SegTyped == StreamTypeOK => Seg \in Nat \ {0} /\ Seg \in 1..Seg
  BY DEF StreamTypeOK, Seg

LEMMA RawMade ==
  ASSUME NEW w \in Nat, NEW s \in Nat, NEW t \in BOOLEAN
  PROVE  [written |-> w, synced |-> s, torn |-> t] \in RawFile
  BY DEF RawFile

LEMMA LogMade ==
  ASSUME NEW l \in Seq(Nat), NEW s \in Nat, NEW t \in BOOLEAN
  PROVE  [lines |-> l, synced |-> s, torn |-> t] \in LogFile
  BY DEF LogFile

LEMMA RawChanged ==
  ASSUME NEW r \in RawFile, NEW w \in Nat, NEW s \in Nat, NEW t \in BOOLEAN
  PROVE  /\ [r EXCEPT !.written = w] \in RawFile /\ [r EXCEPT !.synced = s] \in RawFile
         /\ [r EXCEPT !.torn = t] \in RawFile
         /\ [r EXCEPT !.written = w, !.torn = t] \in RawFile
  BY Zenon DEF RawFile

LEMMA RawFields ==
  ASSUME NEW r \in RawFile, NEW w \in Nat, NEW s \in Nat, NEW t \in BOOLEAN
  PROVE  /\ [r EXCEPT !.torn = t] = [written |-> r.written, synced |-> r.synced, torn |-> t]
         /\ [r EXCEPT !.synced = s] = [written |-> r.written, synced |-> s, torn |-> r.torn]
         /\ [r EXCEPT !.written = w, !.torn = t]
              = [written |-> w, synced |-> r.synced, torn |-> t]
<1> DEFINE q == [r EXCEPT !.written = w, !.torn = t]
<1>1. /\ [r EXCEPT !.torn = t] = [written |-> r.written, synced |-> r.synced, torn |-> t]
      /\ [r EXCEPT !.synced = s] = [written |-> r.written, synced |-> s, torn |-> r.torn]
  BY DEF RawFile
<1>2. q \in RawFile
  BY Zenon DEF RawFile
<1>3. q.torn = t /\ q.synced = r.synced
  BY DEF RawFile
<1>4. q.written = w
  BY DEF RawFile
<1> HIDE DEF q
<1>5. q = [written |-> q.written, synced |-> q.synced, torn |-> q.torn]
  BY <1>2 DEF RawFile
<1>6. q = [written |-> w, synced |-> r.synced, torn |-> t]
  BY <1>3, <1>4, <1>5
<1> QED
  BY <1>1, <1>6 DEF q

LEMMA LogTorn ==
  ASSUME NEW p \in LogFile, NEW t
  PROVE  [p EXCEPT !.torn = t] = [lines |-> p.lines, synced |-> p.synced, torn |-> t]
<1>1. PICK a, b, c : p = [lines |-> a, synced |-> b, torn |-> c]
  BY DEF LogFile
<1> QED
  BY <1>1

LEMMA LogSynced ==
  ASSUME NEW p \in LogFile, NEW s
  PROVE  [p EXCEPT !.synced = s] = [lines |-> p.lines, synced |-> s, torn |-> p.torn]
<1>1. PICK a, b, c : p = [lines |-> a, synced |-> b, torn |-> c]
  BY Zenon DEF LogFile
<1> QED
  BY <1>1

LEMMA LogAppended ==
  ASSUME NEW p \in LogFile, NEW l \in Seq(Nat), NEW t \in BOOLEAN
  PROVE  [p EXCEPT !.torn = t, !.lines = l] = [lines |-> l, synced |-> p.synced, torn |-> t]
<1> DEFINE q == [p EXCEPT !.torn = t, !.lines = l]
<1>1. q \in LogFile
  BY Zenon DEF LogFile
<1>2. q.torn = t /\ q.synced = p.synced
  BY DEF LogFile
<1>3. q.lines = l
  BY DEF LogFile
<1> HIDE DEF q
<1>4. q = [lines |-> q.lines, synced |-> q.synced, torn |-> q.torn]
  BY <1>1 DEF LogFile
<1>5. q = [lines |-> l, synced |-> p.synced, torn |-> t]
  BY <1>2, <1>3, <1>4
<1> QED
  BY <1>5 DEF q

LEMMA AcknowledgedNat ==
  ASSUME NEW p \in LogFile, p.synced <= Len(p.lines)
  PROVE  Acknowledged(p) \in Nat
<1>1. p.lines \in Seq(Nat) /\ p.synced \in Nat
  BY DEF LogFile
<1>2. p.synced # 0 => p.synced \in 1..Len(p.lines)
  BY <1>1
<1> QED
  BY <1>1, <1>2 DEF Acknowledged

LEMMA LogChanged ==
  ASSUME NEW p \in LogFile, NEW l \in Seq(Nat), NEW s \in Nat, NEW t \in BOOLEAN
  PROVE  /\ [p EXCEPT !.torn = t] \in LogFile /\ [p EXCEPT !.synced = s] \in LogFile
         /\ [p EXCEPT !.torn = t, !.lines = l] \in LogFile
  BY Zenon DEF LogFile

LEMMA SealedIsBefore ==
  ASSUME StreamTypeOK
  PROVE  /\ Sealed = Before(Len(man.lines) + 1) /\ Sealed \in Nat
<1>1. man.lines \in Seq(Nat)
  BY DEF StreamTypeOK, LogFile
<1> QED
  BY <1>1 DEF Sealed, Before

-----------------------------------------------------------------------------
(* The counters and the sampler that loads them one by one.                  *)
Counters == {"lastDurable", "durable", "market", "written", "socket", "received", "segment",
             "queue", "maxQueue", "lastSync", "maxSync"}

One(b) == IF b THEN 1 ELSE 0

(* Records of the stream's segments.                                         *)
Total == Before(Seg) + raw[Seg].written

(* A frame counted and not yet queued, taken and not yet a record, a record  *)
(* and not yet counted.                                                      *)
Receiving == ppc \in {"enqueue", "peak", "send"}
Holding ==
  \/ wpc \in {"dequeue", "append", "write"}
  \/ via = "boundary" /\ wpc \in {"sync", "last", "max", "ack", "line", "ackSync", "durable",
                                   "lastDurable", "seal", "sealing", "sealed", "open"}
Uncounted == wpc = "count" \/ (wpc = "sync" /\ via = "group")

CountersTypeOK ==
  /\ now \in Nat /\ h \in [FieldSet -> Nat] /\ chan \in Seq(Nat) /\ wmono \in Nat
  /\ pframe \in [mono : Nat, queued : Nat]

(* Where every frame received is, and what the counters say of it; a frame   *)
(* the writer failed on is received and nowhere.                             *)
FlowInv ==
  /\ h["received"] >= Total + Len(chan) + One(Receiving) + One(Holding)
  /\ wpc # "failed" /\ via # "error" =>
       h["received"] = Total + Len(chan) + One(Receiving) + One(Holding)
  /\ h["written"] + One(Uncounted) = Total
  /\ h["durable"] <= h["written"] /\ h["written"] <= h["received"]
  /\ wpc \notin {"ackSync", "durable"} => h["durable"] = Before(Seg) + acked
  /\ h["queue"] = Len(chan) + One(ppc \in {"peak", "send"}) + One(wpc = "dequeue")
  /\ h["segment"] = Seg - 1

(* What a segment's end has behind it.                                       *)
PathInv ==
  /\ via = "error" => wpc = "done"
  /\ wpc \in {"seal", "sealing", "sealed"} => Finalizing
  /\ wpc = "open" => via = "boundary"
  /\ wpc = "done" => via \in {"end", "error"}
  /\ wpc = "max" => h["lastSync"] > 0
  /\ Finalizing /\ wpc \in {"ack", "line", "ackSync", "durable", "lastDurable", "seal", "sealing",
                            "sealed", "done"} => h["maxSync"] > 0
  /\ via = "end" => ppc = "done" /\ chan = <<>>

(* Receipt times rise along the way of a frame.                              *)
TimesInv ==
  /\ h["market"] <= wmono /\ wmono <= pframe.mono
  /\ pframe.mono = h["socket"] /\ h["socket"] <= now /\ h["lastDurable"] <= now
  /\ \A i \in 1..Len(chan) : wmono <= chan[i] /\ chan[i] <= pframe.mono
  /\ \A i, j \in 1..Len(chan) : i <= j => chan[i] <= chan[j]

CountersInv == CountersTypeOK /\ FlowInv /\ PathInv /\ TimesInv

(* What the record being taken will say of field i if nothing moves before   *)
(* it is loaded: a load leaves it alone.                                     *)
Seen(i) == IF i < spc THEN sample[Fields[i]] ELSE h[Fields[i]]

(* The fields that only rise, by their index.                                *)
RisingFields == {2, 3, 4, 5, 6, 7, 9, 11}

SampleInv ==
  /\ spc \in 1..12 /\ sample \in [FieldSet -> Nat]
  /\ Seen(2) <= Seen(4) /\ Seen(4) <= Seen(6) /\ Seen(3) <= Seen(5)
  /\ Seen(5) <= now /\ Seen(1) <= now
  /\ \A i \in RisingFields : Seen(i) <= h[Fields[i]]

Record == [of : [FieldSet -> Nat], mono : Nat, terminal : BOOLEAN]

RecordsInv ==
  /\ samples \in Seq(Record)
  /\ TelemetryIsCausal
  /\ samples # <<>> =>
       /\ samples[Len(samples)].mono <= now
       /\ \A i \in RisingFields : samples[Len(samples)].of[Fields[i]] <= Seen(i)
  /\ \A i \in 1..Len(samples) : samples[i].terminal => wpc = "done" /\ ppc = "done"

TelemetryInv ==
  IF reader = "sampler" THEN up /\ CountersInv /\ SampleInv /\ RecordsInv
                        ELSE samples = <<>>

(* What the counters do between two states, whoever moves.                   *)
Rises ==
  /\ now <= now'
  /\ \A f \in Counters \ {"lastDurable", "queue", "lastSync"} : h[f] <= h'[f]

LEMMA FieldNames ==
  /\ FieldSet = Counters /\ Len(Fields) = 11
  /\ Fields[1] = "lastDurable" /\ Fields[2] = "durable" /\ Fields[3] = "market"
  /\ Fields[4] = "written" /\ Fields[5] = "socket" /\ Fields[6] = "received"
  /\ Fields[7] = "segment" /\ Fields[8] = "queue" /\ Fields[9] = "maxQueue"
  /\ Fields[10] = "lastSync" /\ Fields[11] = "maxSync"
<1> DEFINE F == Fields
<1>1. DOMAIN F = 1..11 /\ Len(Fields) = 11
  BY DEF Fields
<1>2. /\ F[1] = "lastDurable" /\ F[2] = "durable" /\ F[3] = "market" /\ F[4] = "written"
      /\ F[5] = "socket" /\ F[6] = "received" /\ F[7] = "segment" /\ F[8] = "queue"
      /\ F[9] = "maxQueue" /\ F[10] = "lastSync" /\ F[11] = "maxSync"
  BY Zenon DEF Fields
<1>3. Counters \subseteq FieldSet
  BY FieldFacts DEF Counters
<1> HIDE DEF F
<1>4. 1..11 = {1, 2, 3, 4, 5, 6, 7, 8, 9, 10, 11}
  OBVIOUS
<1>5. \A i \in 1..11 : F[i] \in Counters
  BY <1>2, <1>4 DEF Counters
<1>6. FieldSet = {F[i] : i \in 1..11}
  BY <1>1 DEF FieldSet, F
<1>7. FieldSet \subseteq Counters
  BY <1>5, <1>6
<1> QED
  BY <1>1, <1>2, <1>3, <1>7 DEF F

LEMMA EachCounter ==
  /\ \A v : (\A f \in Counters : v[f] \in Nat) =>
       /\ v["lastDurable"] \in Nat /\ v["durable"] \in Nat /\ v["market"] \in Nat
       /\ v["written"] \in Nat /\ v["socket"] \in Nat /\ v["received"] \in Nat
       /\ v["segment"] \in Nat /\ v["queue"] \in Nat
  /\ "received" \in Counters \ {"socket"} /\ "queue" \in Counters \ {"socket"}
  /\ "written" \in Counters \ {"socket"} /\ "segment" \in Counters \ {"socket"}
  BY Zenon DEF Counters

(* One counter is set, and does not fall if it is one that rises.            *)
LEMMA CounterSet ==
  ASSUME CountersTypeOK, NEW f \in Counters, NEW v \in Nat, h' = [h EXCEPT ![f] = v], now' = now,
         f \in {"lastDurable", "queue", "lastSync"} \/ h[f] <= v
  PROVE  /\ h' \in [FieldSet -> Nat] /\ h'[f] = v /\ \A g \in Counters \ {f} : h'[g] = h[g]
         /\ Rises
<1>1. FieldSet = Counters
  BY FieldNames
<1>2. h \in [Counters -> Nat] /\ now \in Nat
  BY <1>1 DEF CountersTypeOK
<1>3. h' \in [Counters -> Nat] /\ h'[f] = v /\ \A g \in Counters \ {f} : h'[g] = h[g]
  BY <1>2
<1>4. \A g \in Counters : h[g] <= h[g]
  BY <1>2
<1>5. Rises
  BY <1>2, <1>3, <1>4 DEF Rises
<1> QED
  BY <1>1, <1>3, <1>5

LEMMA MaxOfTwo ==
  ASSUME NEW a \in Nat, NEW b \in Nat
  PROVE  Max({a, b}) \in Nat /\ Max({a, b}) >= a /\ Max({a, b}) >= b
<1>1. \E x \in {a, b} : \A y \in {a, b} : x >= y
  <2>1. CASE a >= b
    BY <2>1
  <2>2. CASE b >= a
    BY <2>2
  <2> QED
    BY <2>1, <2>2
<1>2. Max({a, b}) \in {a, b} /\ \A y \in {a, b} : Max({a, b}) >= y
  BY <1>1 DEF Max
<1> QED
  BY <1>2

LEMMA Numbers ==
  ASSUME StreamInv, CountersTypeOK
  PROVE  /\ \A f \in Counters : h[f] \in Nat
         /\ Seg \in Nat \ {0} /\ Before(Seg) \in Nat /\ raw[Seg].written \in Nat
         /\ Total \in Nat /\ acked \in Nat /\ Len(chan) \in Nat
         /\ pframe.mono \in Nat /\ pframe.queued \in Nat
<1>1. \A f \in Counters : h[f] \in Nat
  BY FieldNames DEF CountersTypeOK
<1>2. Seg \in Nat \ {0} /\ raw[Seg].written \in Nat /\ acked \in Nat
  BY SegTyped, Typed DEF StreamInv, StreamTypeOK
<1>3. Before(Seg) \in Nat
  <2>1. man.lines \in Seq(Nat) /\ Len(man.lines) \in {Seg - 1, Seg}
    BY DEF StreamInv, StreamTypeOK, ManifestInv, LogFile
  <2>2. Seg # 1 => Seg - 1 \in 1..Len(man.lines)
    BY <1>2, <2>1
  <2> QED
    BY <2>1, <2>2, LineNat DEF Before
<1>4. Len(chan) \in Nat /\ pframe.mono \in Nat /\ pframe.queued \in Nat
  BY DEF CountersTypeOK
<1> QED
  BY <1>1, <1>2, <1>3, <1>4 DEF Total

LEMMA SameTotal ==
  ASSUME raw' = raw, man' = man
  PROVE  Seg' = Seg /\ Before(Seg)' = Before(Seg) /\ Total' = Total
  BY DEF Seg, Before, Total

(* At every moment the counters alone are causal.                            *)
CausalNow ==
  /\ h["durable"] <= h["written"] /\ h["written"] <= h["received"]
  /\ h["market"] <= h["socket"] /\ h["socket"] <= now /\ h["lastDurable"] <= now

LEMMA CausalCounters == CountersInv => CausalNow
<1> SUFFICES ASSUME CountersInv PROVE CausalNow
  OBVIOUS
<1>1. h["market"] \in Nat /\ h["socket"] \in Nat /\ wmono \in Nat
  BY FieldNames DEF CountersInv, CountersTypeOK, Counters
<1> QED
  BY <1>1 DEF CountersInv, FlowInv, TimesInv, CausalNow

LEMMA CountersStay ==
  ASSUME CountersInv, h' = h, now' = now
  PROVE  Rises
<1>1. now \in Nat /\ \A f \in Counters : h[f] \in Nat
  BY FieldNames DEF CountersInv, CountersTypeOK
<1> QED
  BY <1>1 DEF Rises

(* One counter is set.                                                       *)
LEMMA CounterStep ==
  ASSUME CountersInv, NEW f \in Counters \ {"socket"}, NEW v \in Nat, h' = [h EXCEPT ![f] = v],
         f \in {"lastDurable", "queue", "lastSync"} \/ h[f] <= v,
         f = "market" => v = wmono, f = "lastDurable" => v = now,
         UNCHANGED <<now, chan, wmono>>,
         pframe' \in [mono : Nat, queued : Nat], pframe'.mono = pframe.mono, FlowInv', PathInv'
  PROVE  CountersInv' /\ Rises
<1>1. CountersTypeOK /\ TimesInv
  BY DEF CountersInv
<1>2. /\ h' \in [FieldSet -> Nat] /\ h'[f] = v /\ \A g \in Counters \ {f} : h'[g] = h[g]
      /\ Rises
  BY <1>1, CounterSet, Zenon
<1>3. CountersTypeOK'
  BY <1>1, <1>2 DEF CountersTypeOK
<1>4. /\ h'["market"] <= wmono /\ h'["socket"] = h["socket"] /\ h'["lastDurable"] <= now
  <2>1. wmono <= wmono /\ now <= now
    BY <1>1 DEF CountersTypeOK
  <2>2. h["market"] <= wmono /\ h["lastDurable"] <= now
    BY <1>1 DEF TimesInv
  <2> QED
    BY <1>2, <2>1, <2>2 DEF Counters
<1>5. TimesInv'
  BY <1>1, <1>4 DEF TimesInv
<1> QED
  BY <1>2, <1>3, <1>5 DEF CountersInv

-----------------------------------------------------------------------------
(* The producer and the clock.                                               *)
LEMMA ProducerCounts ==
  ASSUME StreamInv, CountersInv, Producer \/ Tick
  PROVE  CountersInv' /\ Rises
<1>1. /\ \A f \in Counters : h[f] \in Nat
      /\ Total \in Nat /\ Len(chan) \in Nat /\ pframe.mono \in Nat /\ pframe.queued \in Nat
  BY Numbers DEF CountersInv
<1>2. CountersTypeOK /\ FlowInv /\ PathInv /\ TimesInv
  BY DEF CountersInv
<1>3. /\ now \in Nat /\ h \in [FieldSet -> Nat] /\ chan \in Seq(Nat) /\ wmono \in Nat
      /\ pframe \in [mono : Nat, queued : Nat]
  BY <1>2 DEF CountersTypeOK
<1>4. Seg' = Seg /\ Before(Seg)' = Before(Seg) /\ Total' = Total
  <2>1. raw' = raw /\ man' = man
    BY DEF Producer, Tick, NoteSocket, CountReceipt, CountQueued, NotePeak, Send, Leave, pRest,
           files
  <2> QED
    BY <2>1, SameTotal
<1>5. UNCHANGED <<wpc, via, wmono, acked>>
  BY DEF Producer, Tick, NoteSocket, CountReceipt, CountQueued, NotePeak, Send, Leave, pRest, writer
<1>6. Finalizing' = Finalizing /\ Holding' = Holding /\ Uncounted' = Uncounted
  BY <1>5 DEF Finalizing, Holding, Uncounted
<1>7. CASE Tick
  <2>1. now' = now + 1 /\ UNCHANGED <<h, chan, ppc, pframe>>
    BY <1>7 DEF Tick, producer
  <2>2. CountersTypeOK'
    BY <1>3, <1>5, <2>1 DEF CountersTypeOK
  <2>3. FlowInv'
    BY <1>2, <1>4, <1>5, <1>6, <2>1 DEF FlowInv, Receiving
  <2>4. PathInv'
    BY <1>2, <1>5, <1>6, <2>1 DEF PathInv
  <2>5. TimesInv'
    <3>1. h["socket"] \in Nat /\ h["lastDurable"] \in Nat
      BY <1>1, EachCounter, Zenon
    <3>2. h["socket"] <= now' /\ h["lastDurable"] <= now'
      BY <1>2, <1>3, <2>1, <3>1 DEF TimesInv
    <3> QED
      BY <1>2, <1>5, <2>1, <3>2 DEF TimesInv
  <2>6. Rises
    BY <1>1, <1>3, <2>1 DEF Rises
  <2> QED
    BY <2>2, <2>3, <2>4, <2>5, <2>6 DEF CountersInv
<1>8. CASE NoteSocket
  <2>1. /\ ppc = "read" /\ ppc' = "count" /\ UNCHANGED <<chan, now>>
        /\ pframe' = [pframe EXCEPT !.mono = now] /\ h' = [h EXCEPT !["socket"] = now]
    BY <1>8 DEF NoteSocket, PStep, pRest
  <2>2. "socket" \in Counters /\ h["socket"] <= now
    BY <1>2 DEF TimesInv, Counters
  <2>3. /\ h' \in [FieldSet -> Nat] /\ h'["socket"] = now
        /\ \A g \in Counters \ {"socket"} : h'[g] = h[g]
        /\ Rises
    BY <1>2, <1>3, <2>1, <2>2, CounterSet, Zenon
  <2>4. pframe' \in [mono : Nat, queued : Nat] /\ pframe'.mono = now
    BY <1>3, <2>1, Zenon
  <2>5. CountersTypeOK'
    BY <1>3, <1>5, <2>1, <2>3, <2>4 DEF CountersTypeOK
  <2>6. FlowInv'
    BY <1>2, <1>4, <1>5, <1>6, <2>1, <2>3 DEF FlowInv, Receiving, Counters
  <2>7. PathInv'
    BY <1>2, <1>5, <1>6, <2>1, <2>3 DEF PathInv, Counters
  <2>8. TimesInv'
    <3>1. pframe.mono <= now
      BY <1>2 DEF TimesInv
    <3>2. h'["market"] <= wmono /\ wmono <= now /\ now <= now /\ h'["lastDurable"] <= now
      BY <1>1, <1>2, <1>3, <2>3, <3>1 DEF TimesInv, Counters
    <3>3. \A i \in 1..Len(chan) : wmono <= chan[i] /\ chan[i] <= now
      <4>1. \A i \in 1..Len(chan) : chan[i] \in Nat
        BY <1>3
      <4> QED
        BY <1>1, <1>2, <1>3, <3>1, <4>1 DEF TimesInv
    <3> QED
      BY <1>2, <1>5, <2>1, <2>3, <2>4, <3>2, <3>3 DEF TimesInv
  <2> QED
    BY <2>3, <2>5, <2>6, <2>7, <2>8 DEF CountersInv
<1>9. CASE CountReceipt
  <2> DEFINE v == h["received"] + 1
  <2>1. /\ ppc = "count" /\ ppc' = "enqueue" /\ UNCHANGED <<chan, now, pframe>>
        /\ h' = [h EXCEPT !["received"] = v]
    BY <1>9 DEF CountReceipt, PStep, pRest
  <2>2. v \in Nat /\ h["received"] <= v /\ "received" \in Counters \ {"socket"}
    <3>1. h["received"] \in Nat /\ "received" \in Counters \ {"socket"}
      BY <1>1, EachCounter, Zenon
    <3> QED
      BY <3>1
  <2> HIDE DEF v
  <2>3. h'["received"] = v /\ \A g \in Counters \ {"received"} : h'[g] = h[g]
    BY <1>2, <2>1, <2>2, CounterSet, Zenon
  <2>4. ~Receiving /\ Receiving'
    BY <2>1 DEF Receiving
  <2>5. FlowInv'
    <3>1. /\ Total \in Nat /\ Len(chan) \in Nat /\ h["received"] \in Nat /\ h["written"] \in Nat
          /\ One(Holding) \in Nat /\ One(Receiving) = 0 /\ One(Receiving') = 1
      BY <1>1, <2>4, EachCounter, Zenon DEF One
    <3>2. /\ h["received"] >= Total + Len(chan) + 0 + One(Holding) /\ h["written"] <= h["received"]
          /\ wpc # "failed" /\ via # "error" =>
               h["received"] = Total + Len(chan) + 0 + One(Holding)
      BY <1>2, <3>1 DEF FlowInv
    <3>3. /\ v >= Total + Len(chan) + 1 + One(Holding) /\ h["written"] <= v
          /\ wpc # "failed" /\ via # "error" => v = Total + Len(chan) + 1 + One(Holding)
      BY <3>1, <3>2 DEF v
    <3>4. /\ \A g \in {"written", "durable", "queue", "segment"} : h'[g] = h[g]
          /\ One(ppc' \in {"peak", "send"}) = One(ppc \in {"peak", "send"})
      BY <2>1, <2>3 DEF Counters, One
    <3> QED
      BY <1>2, <1>4, <1>5, <1>6, <2>1, <2>3, <3>1, <3>3, <3>4, Zenon DEF FlowInv
  <2>6. PathInv'
    BY <1>2, <1>5, <1>6, <2>1, <2>3 DEF PathInv, Counters
  <2> QED
    BY <1>3, <1>5, <2>1, <2>2, <2>5, <2>6, CounterStep, Zenon
<1>10. CASE CountQueued
  <2> DEFINE v == h["queue"] + 1
  <2>1. /\ ppc = "enqueue" /\ ppc' = "peak" /\ UNCHANGED <<chan, now>>
        /\ h' = [h EXCEPT !["queue"] = v] /\ pframe' = [pframe EXCEPT !.queued = v]
    BY <1>10 DEF CountQueued, PStep, pRest
  <2>2. v \in Nat /\ "queue" \in Counters \ {"socket"}
    <3>1. h["queue"] \in Nat /\ "queue" \in Counters \ {"socket"}
      BY <1>1, EachCounter, Zenon
    <3> QED
      BY <3>1
  <2> HIDE DEF v
  <2>3. h'["queue"] = v /\ \A g \in Counters \ {"queue"} : h'[g] = h[g]
    BY <1>2, <2>1, <2>2, CounterSet, Zenon
  <2>4. pframe' \in [mono : Nat, queued : Nat] /\ pframe'.mono = pframe.mono
    BY <1>3, <2>1, <2>2
  <2>5. Receiving /\ Receiving'
    BY <2>1 DEF Receiving
  <2>6. FlowInv'
    BY <1>1, <1>2, <1>4, <1>5, <1>6, <2>1, <2>3, <2>5 DEF FlowInv, Counters, One, v
  <2>7. PathInv'
    BY <1>2, <1>5, <1>6, <2>1, <2>3 DEF PathInv, Counters
  <2> QED
    BY <1>5, <2>1, <2>2, <2>4, <2>6, <2>7, CounterStep, Zenon
<1>11. CASE NotePeak
  <2> DEFINE v == Max({h["maxQueue"], pframe.queued})
  <2>1. /\ ppc = "peak" /\ ppc' = "send" /\ UNCHANGED <<chan, now, pframe>>
        /\ h' = [h EXCEPT !["maxQueue"] = v]
    BY <1>11 DEF NotePeak, PStep, pRest
  <2>2. v \in Nat /\ v >= h["maxQueue"]
    BY <1>1, MaxOfTwo, Zenon DEF Counters
  <2> HIDE DEF v
  <2>3. h["maxQueue"] <= v /\ "maxQueue" \in Counters \ {"socket"}
    BY <1>1, <2>2 DEF Counters
  <2>4. h'["maxQueue"] = v /\ \A g \in Counters \ {"maxQueue"} : h'[g] = h[g]
    BY <1>2, <2>1, <2>2, <2>3, CounterSet, Zenon
  <2>5. FlowInv'
    BY <1>2, <1>4, <1>5, <1>6, <2>1, <2>4 DEF FlowInv, Receiving, Counters
  <2>6. PathInv'
    BY <1>2, <1>5, <1>6, <2>1, <2>4 DEF PathInv, Counters
  <2> QED
    BY <1>3, <1>5, <2>1, <2>2, <2>3, <2>5, <2>6, CounterStep, Zenon
<1>12. CASE Send
  <2>1. /\ ppc = "send" /\ ppc' = "read" /\ UNCHANGED <<h, now, pframe>>
        /\ chan' = Append(chan, pframe.mono)
    BY <1>12 DEF Send, PStep, pRest
  <2>2. /\ chan' \in Seq(Nat) /\ Len(chan') = Len(chan) + 1
        /\ chan'[Len(chan) + 1] = pframe.mono /\ \A j \in 1..Len(chan) : chan'[j] = chan[j]
    BY <1>1, <1>3, <2>1, Appended
  <2>3. CountersTypeOK'
    BY <1>3, <1>5, <2>1, <2>2 DEF CountersTypeOK
  <2>4. FlowInv'
    BY <1>1, <1>2, <1>4, <1>5, <1>6, <2>1, <2>2 DEF FlowInv, Receiving, Counters, One
  <2>5. PathInv'
    BY <1>2, <1>5, <1>6, <2>1 DEF PathInv
  <2>6. TimesInv'
    <3>1. /\ wmono <= pframe.mono /\ pframe.mono <= pframe.mono
          /\ \A i \in 1..Len(chan) : wmono <= chan[i] /\ chan[i] <= pframe.mono
          /\ \A i, j \in 1..Len(chan) : i <= j => chan[i] <= chan[j]
      BY <1>1, <1>2 DEF TimesInv
    <3>2. \A i \in 1..Len(chan') : i = Len(chan) + 1 \/ i \in 1..Len(chan)
      BY <1>1, <2>2
    <3>3. \A i \in 1..Len(chan') : wmono <= chan'[i] /\ chan'[i] <= pframe.mono
      BY <2>2, <3>1, <3>2, Zenon
    <3>4. ASSUME NEW i \in 1..Len(chan'), NEW j \in 1..Len(chan'), i <= j
          PROVE  chan'[i] <= chan'[j]
      <4>1. CASE j = Len(chan) + 1
        BY <2>2, <3>3, <4>1
      <4>2. CASE j \in 1..Len(chan)
        <5>1. i \in 1..Len(chan)
          BY <1>1, <2>2, <3>4, <4>2
        <5> QED
          BY <2>2, <3>1, <3>4, <4>2, <5>1
      <4> QED
        BY <3>2, <4>1, <4>2
    <3> QED
      BY <1>2, <1>5, <2>1, <3>3, <3>4 DEF TimesInv
  <2>7. Rises
    BY <2>1, CountersStay
  <2> QED
    BY <2>3, <2>4, <2>5, <2>6, <2>7, Zenon DEF CountersInv
<1>13. CASE Leave
  <2>1. ppc = "read" /\ ppc' = "done" /\ UNCHANGED <<h, now, pframe, chan>>
    BY <1>13 DEF Leave, PStep, pRest
  <2>2. CountersTypeOK' /\ TimesInv'
    BY <1>2, <1>5, <2>1, Zenon DEF CountersTypeOK, TimesInv
  <2>3. FlowInv'
    BY <1>2, <1>4, <1>5, <1>6, <2>1 DEF FlowInv, Receiving
  <2>4. PathInv'
    BY <1>2, <1>5, <1>6, <2>1 DEF PathInv
  <2>5. Rises
    BY <2>1, CountersStay
  <2> QED
    BY <2>2, <2>3, <2>4, <2>5 DEF CountersInv
<1> QED
  BY <1>7, <1>8, <1>9, <1>10, <1>11, <1>12, <1>13 DEF Producer

-----------------------------------------------------------------------------
(* The writer between two accesses to the files.                             *)
LEMMA WriterCounts ==
  ASSUME StreamInv, CountersInv,
         Take \/ Dequeue \/ CountWritten \/ NoteMarket \/ NoteDurable \/ NoteSync \/ NoteMaxSync
  PROVE  CountersInv' /\ Rises
<1>1. /\ \A f \in Counters : h[f] \in Nat
      /\ Total \in Nat /\ Len(chan) \in Nat /\ pframe.mono \in Nat
  BY Numbers DEF CountersInv
<1>2. CountersTypeOK /\ FlowInv /\ PathInv /\ TimesInv
  BY DEF CountersInv
<1>3. now \in Nat /\ chan \in Seq(Nat) /\ wmono \in Nat
  BY <1>2, Zenon DEF CountersTypeOK
<1>4. UNCHANGED <<raw, man, acked, now, ppc, pframe>>
  BY DEF Take, Dequeue, CountWritten, NoteMarket, NoteDurable, NoteSync, NoteMaxSync, files, wRest,
         producer, keep
<1>5. Seg' = Seg /\ Before(Seg)' = Before(Seg) /\ Total' = Total /\ Receiving' = Receiving
  BY <1>4, SameTotal DEF Receiving
<1>0. pframe' \in [mono : Nat, queued : Nat] /\ pframe'.mono = pframe.mono
  BY <1>2, <1>4 DEF CountersTypeOK
<1>6. CASE Take
  <2>1. /\ wpc = "recv" /\ wpc' = "dequeue" /\ chan # <<>> /\ UNCHANGED <<h, via>>
        /\ wmono' = Head(chan) /\ chan' = Tail(chan)
    BY <1>6 DEF Take, WStep
  <2>2. /\ wmono' = chan[1] /\ wmono' \in Nat /\ chan' \in Seq(Nat) /\ Len(chan') = Len(chan) - 1
        /\ Len(chan) > 0 /\ \A i \in 1..Len(chan') : chan'[i] = chan[i + 1]
    BY <1>3, <2>1
  <2>3. CountersTypeOK'
    BY <1>2, <1>4, <2>1, <2>2, Zenon DEF CountersTypeOK
  <2>4. FlowInv'
    BY <1>1, <1>2, <1>4, <1>5, <2>1, <2>2 DEF FlowInv, Holding, Uncounted, One, Counters
  <2>5. PathInv'
    BY <1>2, <1>4, <2>1, Zenon DEF PathInv, Finalizing
  <2>6. TimesInv'
    <3>1. \A i \in 1..Len(chan') : i + 1 \in 1..Len(chan) /\ 1 <= i + 1
      BY <1>1, <2>2
    <3>2. 1 \in 1..Len(chan)
      BY <1>1, <2>2
    <3>3. /\ \A i \in 1..Len(chan) : wmono <= chan[i] /\ chan[i] <= pframe.mono
          /\ \A i, j \in 1..Len(chan) : i <= j => chan[i] <= chan[j]
      BY <1>2 DEF TimesInv
    <3>4. \A i \in 1..Len(chan') : wmono' <= chan'[i] /\ chan'[i] <= pframe.mono
      BY <2>2, <3>1, <3>2, <3>3, Zenon
    <3>5. \A i, j \in 1..Len(chan') : i <= j => chan'[i] <= chan'[j]
      <4>1. \A i, j \in 1..Len(chan') : i <= j => i + 1 <= j + 1
        BY <1>1, <2>2
      <4> QED
        BY <2>2, <3>1, <3>3, <4>1, Zenon
    <3>6. h["market"] <= wmono' /\ wmono' <= pframe.mono
      BY <1>1, <1>2, <1>3, <2>2, <3>2, <3>3 DEF TimesInv, Counters
    <3> QED
      BY <1>2, <1>4, <2>1, <3>4, <3>5, <3>6 DEF TimesInv
  <2>7. Rises
    BY <1>4, <2>1, CountersStay
  <2> QED
    BY <2>3, <2>4, <2>5, <2>6, <2>7 DEF CountersInv
<1>7. CASE Dequeue
  <2> DEFINE v == h["queue"] - 1
  <2>1. /\ wpc = "dequeue" /\ UNCHANGED <<chan, wmono>> /\ h' = [h EXCEPT !["queue"] = v]
        /\ \/ wpc' = "append" /\ via' = "none"
           \/ wpc' = "sync" /\ via' = "boundary"
           \/ wpc' = "failed" /\ via' = via
    BY <1>7 DEF Dequeue, WStep
  <2>2. h["queue"] \in Nat /\ h["queue"] > 0
    BY <1>1, <1>2, <2>1 DEF FlowInv, Counters, One
  <2>3. v \in Nat /\ "queue" \in Counters \ {"socket"}
    BY <2>2 DEF Counters
  <2> HIDE DEF v
  <2>4. h'["queue"] = v /\ \A g \in Counters \ {"queue"} : h'[g] = h[g]
    BY <1>2, <1>4, <2>1, <2>3, CounterSet, Zenon
  <2>5. /\ Holding /\ ~Uncounted /\ ~Uncounted' /\ via # "error"
        /\ Holding' \/ wpc' = "failed"
    BY <1>2, <2>1, Zenon DEF Holding, Uncounted, PathInv
  <2>6. FlowInv'
    <3>1. /\ h["received"] = Total + Len(chan) + One(Receiving) + 1
          /\ h["written"] = Total /\ h["durable"] <= h["written"] /\ h["written"] <= h["received"]
          /\ h["durable"] = Before(Seg) + acked /\ h["segment"] = Seg - 1
          /\ h["queue"] = Len(chan) + One(ppc \in {"peak", "send"}) + 1
      BY <1>1, <1>2, <2>1, <2>5 DEF FlowInv, One, Counters
    <3>2. /\ h'["received"] = h["received"] /\ h'["written"] = h["written"]
          /\ h'["durable"] = h["durable"] /\ h'["segment"] = h["segment"]
      BY <2>4 DEF Counters
    <3>3. wpc' \notin {"dequeue", "ackSync", "durable"}
      BY <2>1
    <3>4. /\ h'["received"] >= Total + Len(chan) + One(Receiving) + One(Holding')
          /\ wpc' # "failed" =>
               h'["received"] = Total + Len(chan) + One(Receiving) + One(Holding')
          /\ h'["written"] + One(Uncounted') = Total
      BY <1>1, <2>5, <3>1, <3>2 DEF One
    <3>5. h'["queue"] = Len(chan') + One(ppc' \in {"peak", "send"}) + One(wpc' = "dequeue")
      <4> DEFINE q == One(ppc \in {"peak", "send"})
      <4>1. q \in Nat /\ One(wpc' = "dequeue") = 0
        BY <3>3 DEF One
      <4>2. h["queue"] = Len(chan) + q + 1
        BY <3>1
      <4> HIDE DEF q
      <4>3. v = Len(chan) + q + 0
        BY <1>1, <2>2, <4>1, <4>2 DEF v
      <4> QED
        BY <1>4, <2>1, <2>4, <4>1, <4>3 DEF q
    <3> QED
      BY <1>4, <1>5, <2>1, <3>1, <3>2, <3>4, <3>5, Zenon DEF FlowInv
  <2>7. PathInv'
    BY <1>2, <1>4, <2>1, <2>4 DEF PathInv, Finalizing, Counters
  <2> QED
    BY <1>0, <1>4, <2>1, <2>3, <2>6, <2>7, CounterStep, Zenon
<1>8. CASE CountWritten
  <2> DEFINE v == h["written"] + 1
  <2>1. /\ wpc = "count" /\ wpc' = "market" /\ UNCHANGED <<chan, wmono, via>>
        /\ h' = [h EXCEPT !["written"] = v]
    BY <1>8 DEF CountWritten, WStep, keep
  <2>2. v \in Nat /\ h["written"] <= v /\ "written" \in Counters \ {"socket"}
    <3>1. h["written"] \in Nat /\ "written" \in Counters \ {"socket"}
      BY <1>1, EachCounter, Zenon
    <3> QED
      BY <3>1
  <2> HIDE DEF v
  <2>3. h'["written"] = v /\ \A g \in Counters \ {"written"} : h'[g] = h[g]
    BY <1>2, <1>4, <2>1, <2>2, CounterSet, Zenon
  <2>4. ~Holding /\ ~Holding' /\ Uncounted /\ ~Uncounted' /\ v = Total
    <3>1. ~Holding /\ ~Holding' /\ Uncounted /\ ~Uncounted'
      BY <2>1 DEF Holding, Uncounted
    <3> QED
      BY <1>1, <1>2, <3>1 DEF FlowInv, One, v
  <2>5. FlowInv'
    <3>1. One(Holding') = One(Holding) /\ One(wpc' = "dequeue") = One(wpc = "dequeue")
      BY <2>1, <2>4, Zenon DEF One
    <3>2. One(Uncounted') = 0 /\ v + 0 = Total
      BY <1>1, <2>2, <2>4 DEF One
    <3>3. h["durable"] <= v /\ v <= h["received"]
      <4>1. /\ h["durable"] \in Nat /\ h["written"] \in Nat /\ h["received"] \in Nat
            /\ h["durable"] <= h["written"]
            /\ h["received"] >= Total + Len(chan) + One(Receiving) + One(Holding)
        BY <1>1, <1>2, Zenon DEF FlowInv, Counters
      <4>2. One(Receiving) \in Nat /\ One(Holding) \in Nat /\ Total \in Nat /\ Len(chan) \in Nat
        BY <1>1 DEF One
      <4> QED
        BY <2>2, <2>4, <4>1, <4>2
    <3>4. \A g \in {"received", "durable", "queue", "segment"} : h'[g] = h[g]
      BY <2>3 DEF Counters
    <3> QED
      BY <1>2, <1>4, <1>5, <2>1, <2>3, <3>1, <3>2, <3>3, <3>4, Zenon DEF FlowInv
  <2>6. PathInv'
    BY <1>2, <1>4, <2>1, <2>3 DEF PathInv, Finalizing, Counters
  <2> QED
    BY <1>0, <1>4, <2>1, <2>2, <2>5, <2>6, CounterStep, Zenon
<1>9. CASE NoteMarket
  <2>1. /\ wpc = "market" /\ wpc' = (IF via = "group" THEN "ack" ELSE "recv")
        /\ UNCHANGED <<chan, wmono, via>> /\ h' = [h EXCEPT !["market"] = wmono]
    BY <1>9 DEF NoteMarket, WStep, keep
  <2>2. h["market"] <= wmono /\ "market" \in Counters \ {"socket"}
    BY <1>2 DEF TimesInv, Counters
  <2>3. h'["market"] = wmono /\ \A g \in Counters \ {"market"} : h'[g] = h[g]
    BY <1>2, <1>3, <1>4, <2>1, <2>2, CounterSet, Zenon
  <2>4. ~Holding /\ ~Holding' /\ ~Uncounted /\ ~Uncounted'
    BY <2>1, Zenon DEF Holding, Uncounted
  <2>5. FlowInv'
    BY <1>2, <1>4, <1>5, <2>1, <2>3, <2>4, Zenon DEF FlowInv, One, Counters
  <2>6. PathInv'
    BY <1>2, <1>4, <2>1, <2>3 DEF PathInv, Finalizing, Counters
  <2> QED
    BY <1>0, <1>3, <1>4, <2>1, <2>2, <2>5, <2>6, CounterStep, Zenon
<1>10. CASE NoteDurable
  <2>1. /\ wpc = "lastDurable" /\ wpc' = (IF Finalizing THEN "seal" ELSE "last")
        /\ UNCHANGED <<chan, wmono, via>> /\ h' = [h EXCEPT !["lastDurable"] = now]
    BY <1>10 DEF NoteDurable, WStep, keep
  <2>2. "lastDurable" \in Counters \ {"socket"}
    BY DEF Counters
  <2>3. h'["lastDurable"] = now /\ \A g \in Counters \ {"lastDurable"} : h'[g] = h[g]
    BY <1>2, <1>3, <1>4, <2>1, <2>2, CounterSet, Zenon
  <2>4. Holding' = Holding /\ ~Uncounted /\ ~Uncounted'
    BY <2>1, Zenon DEF Holding, Uncounted, Finalizing
  <2>5. FlowInv'
    BY <1>2, <1>4, <1>5, <2>1, <2>3, <2>4, Zenon DEF FlowInv, One, Counters
  <2>6. PathInv'
    BY <1>2, <1>4, <2>1, <2>3 DEF PathInv, Finalizing, Counters
  <2> QED
    BY <1>0, <1>3, <1>4, <2>1, <2>2, <2>5, <2>6, CounterStep, Zenon
<1>11. CASE NoteSync
  <2>1. PICK d \in {1, 2} : h' = [h EXCEPT !["lastSync"] = d]
    BY <1>11, Zenon DEF NoteSync
  <2>2. wpc = "last" /\ wpc' = "max" /\ UNCHANGED <<chan, wmono, via>>
    BY <1>11 DEF NoteSync, WStep, keep
  <2>3. d \in Nat /\ d > 0 /\ "lastSync" \in Counters \ {"socket"}
    BY DEF Counters
  <2>4. h'["lastSync"] = d /\ \A g \in Counters \ {"lastSync"} : h'[g] = h[g]
    BY <1>2, <1>4, <2>1, <2>3, CounterSet, Zenon
  <2>5. Holding' = Holding /\ ~Uncounted /\ ~Uncounted'
    BY <2>2 DEF Holding, Uncounted
  <2>6. FlowInv'
    BY <1>2, <1>4, <1>5, <2>2, <2>4, <2>5 DEF FlowInv, One, Counters
  <2>7. PathInv'
    BY <1>2, <1>4, <2>2, <2>3, <2>4 DEF PathInv, Finalizing, Counters
  <2> QED
    BY <1>0, <1>4, <2>1, <2>2, <2>3, <2>6, <2>7, CounterStep, Zenon
<1>12. CASE NoteMaxSync
  <2> DEFINE v == Max({h["maxSync"], h["lastSync"]})
  <2>1. /\ wpc = "max" /\ wpc' = (IF Finalizing THEN "ack" ELSE "recv")
        /\ UNCHANGED <<chan, wmono, via>> /\ h' = [h EXCEPT !["maxSync"] = v]
    BY <1>12 DEF NoteMaxSync, WStep, keep
  <2>2. h["maxSync"] \in Nat /\ h["lastSync"] \in Nat /\ h["lastSync"] > 0
    BY <1>1, <1>2, <2>1 DEF PathInv, Counters
  <2>3. v \in Nat /\ v >= h["maxSync"] /\ v >= h["lastSync"]
    BY <2>2, MaxOfTwo
  <2> HIDE DEF v
  <2>4. h["maxSync"] <= v /\ v > 0 /\ "maxSync" \in Counters \ {"socket"}
    BY <2>2, <2>3 DEF Counters
  <2>5. h'["maxSync"] = v /\ \A g \in Counters \ {"maxSync"} : h'[g] = h[g]
    BY <1>2, <1>4, <2>1, <2>3, <2>4, CounterSet, Zenon
  <2>6. Holding' = Holding /\ ~Uncounted /\ ~Uncounted'
    BY <2>1, Zenon DEF Holding, Uncounted, Finalizing
  <2>7. FlowInv'
    BY <1>2, <1>4, <1>5, <2>1, <2>5, <2>6, Zenon DEF FlowInv, One, Counters
  <2>8. PathInv'
    BY <1>2, <1>4, <2>1, <2>4, <2>5 DEF PathInv, Finalizing
  <2> QED
    BY <1>0, <1>4, <2>1, <2>3, <2>4, <2>7, <2>8, CounterStep, Zenon
<1> QED
  BY <1>6, <1>7, <1>8, <1>9, <1>10, <1>11, <1>12

(* What a segment's records come to when the durable counter is set and when *)
(* the next segment opens.                                                   *)
LEMMA CountDurableCounts ==
  ASSUME StreamInv, CountersInv, up, CountDurable
  PROVE  CountersInv' /\ Rises
<1>1. /\ \A f \in Counters : h[f] \in Nat
      /\ Seg \in Nat \ {0} /\ Total \in Nat /\ Len(chan) \in Nat /\ Before(Seg) \in Nat
      /\ raw[Seg].written \in Nat
  BY Numbers DEF CountersInv
<1>2. CountersTypeOK /\ FlowInv /\ PathInv /\ TimesInv
  BY DEF CountersInv
<1>3. now \in Nat /\ h \in [FieldSet -> Nat]
  BY <1>2 DEF CountersTypeOK
<1>4. /\ wpc = "durable" /\ wpc' = "lastDurable"
      /\ UNCHANGED <<raw, man, acked, now, ppc, pframe, chan, wmono, via>>
      /\ h' = [h EXCEPT !["durable"] = Sealed + raw[Seg].written]
  BY Zenon DEF CountDurable, WStep, files, wRest, producer, keep
<1>5. /\ Seg' = Seg /\ Before(Seg)' = Before(Seg) /\ Total' = Total /\ Receiving' = Receiving
  BY <1>4, SameTotal DEF Receiving
<1>6. Sealed = Before(Seg) /\ acked = raw[Seg].written
  <2>1. ControlInv /\ StreamTypeOK
    BY Zenon DEF StreamInv
  <2>2. Len(man.lines) = Seg - 1 /\ acked = raw[Seg].written
    BY <1>4, <2>1, Zenon DEF ControlInv, SealWritten
  <2>3. Len(man.lines) + 1 = Seg
    BY <1>1, <2>2
  <2> QED
    BY <2>1, <2>2, <2>3, SealedIsBefore
<1>7. Sealed + raw[Seg].written = Total
  BY <1>6, Zenon DEF Total
<1>8. h["written"] = Total /\ h["durable"] <= Total /\ "durable" \in Counters \ {"socket"}
  BY <1>1, <1>2, <1>4 DEF FlowInv, Uncounted, One, Counters
<1>9. h' = [h EXCEPT !["durable"] = Total]
  BY <1>4, <1>7, Zenon
<1>10. h'["durable"] = Total /\ \A g \in Counters \ {"durable"} : h'[g] = h[g]
  BY <1>1, <1>2, <1>4, <1>8, <1>9, CounterSet, Zenon
<1>11. Holding' = Holding /\ ~Uncounted /\ ~Uncounted'
  BY <1>4 DEF Holding, Uncounted
<1>12. Total <= Total /\ Total = Before(Seg) + acked
  BY <1>1, <1>6 DEF Total
<1>13. FlowInv'
  BY <1>2, <1>4, <1>5, <1>8, <1>10, <1>11, <1>12 DEF FlowInv, One, Counters
<1>14. PathInv'
  BY <1>2, <1>4, <1>10 DEF PathInv, Finalizing, Counters
<1>15. pframe' \in [mono : Nat, queued : Nat] /\ pframe'.mono = pframe.mono
  BY <1>2, <1>4 DEF CountersTypeOK
<1> QED
  BY <1>1, <1>4, <1>8, <1>9, <1>13, <1>14, <1>15, CounterStep, Zenon

LEMMA OpenSegmentCounts ==
  ASSUME StreamInv, CountersInv, up, OpenSegment
  PROVE  CountersInv' /\ Rises
<1>1. /\ \A f \in Counters : h[f] \in Nat
      /\ Seg \in Nat \ {0} /\ Total \in Nat /\ Len(chan) \in Nat /\ Before(Seg) \in Nat
      /\ raw[Seg].written \in Nat
  BY Numbers, Zenon DEF CountersInv
<1>2. CountersTypeOK /\ FlowInv /\ PathInv /\ TimesInv /\ StreamTypeOK /\ ControlInv /\ ManifestInv
  BY DEF CountersInv, StreamInv
<1>3. now \in Nat /\ h \in [FieldSet -> Nat]
  BY <1>2 DEF CountersTypeOK
<1>4. /\ wpc = "open" /\ wpc' = "append" /\ via' = "none" /\ acked' = 0
      /\ UNCHANGED <<man, now, ppc, pframe, chan, wmono>>
      /\ raw' = Append(raw, EmptyRaw) /\ h' = [h EXCEPT !["segment"] = h["segment"] + 1]
  BY DEF OpenSegment, WStep, wRest, producer
<1>5. Seg' = Seg + 1 /\ raw'[Seg + 1].written = 0
  <2>1. EmptyRaw \in RawFile /\ EmptyRaw.written = 0
    BY RawMade, Zenon DEF EmptyRaw
  <2>2. raw \in Seq(RawFile) /\ Len(raw) = Seg
    BY <1>2 DEF StreamTypeOK, Seg
  <2>3. Len(raw') = Len(raw) + 1 /\ raw'[Len(raw) + 1] = EmptyRaw
    BY <1>4, <2>1, <2>2, Appended
  <2> QED
    BY <2>1, <2>2, <2>3 DEF Seg
<1>6. /\ man.lines[Seg] = raw[Seg].written + Before(Seg) /\ acked = raw[Seg].written
      /\ via = "boundary"
  <2>1. Len(man.lines) = Seg /\ acked = raw[Seg].written /\ Seg \in 1..Seg
    BY <1>1, <1>2, <1>4 DEF ControlInv, SealWritten
  <2> QED
    BY <1>2, <1>4, <2>1 DEF ManifestInv, PathInv
<1>7. Before(Seg)' = Total /\ Total' = Total
  <2>1. Seg + 1 # 1 /\ (Seg + 1) - 1 = Seg
    BY <1>1
  <2>2. Before(Seg)' = man.lines[Seg]
    BY <1>4, <1>5, <2>1, Zenon DEF Before
  <2>3. raw[Seg].written + Before(Seg) = Before(Seg) + raw[Seg].written
    BY <1>1, <1>6
  <2>4. Before(Seg)' = Total
    BY <1>6, <2>2, <2>3, Zenon DEF Total
  <2>5. Total' = Before(Seg)' + 0
    BY <1>5, Zenon DEF Total
  <2> QED
    BY <1>1, <2>4, <2>5
<1>8. /\ h["segment"] + 1 \in Nat /\ h["segment"] <= h["segment"] + 1
      /\ "segment" \in Counters \ {"socket"}
  <2>1. h["segment"] \in Nat /\ "segment" \in Counters \ {"socket"}
    BY <1>1, EachCounter, Zenon
  <2> QED
    BY <2>1
<1>9. h'["segment"] = h["segment"] + 1 /\ \A g \in Counters \ {"segment"} : h'[g] = h[g]
  BY <1>2, <1>4, <1>8, CounterSet, Zenon
<1>10. h["durable"] = Total
  BY <1>1, <1>2, <1>4, <1>6 DEF FlowInv, Total
<1>11. Holding /\ Holding' /\ ~Uncounted /\ ~Uncounted' /\ Receiving' = Receiving
  BY <1>4, <1>6 DEF Holding, Uncounted, Receiving
<1>12. FlowInv'
  <2>1. /\ One(Holding') = One(Holding) /\ One(Uncounted') = One(Uncounted)
        /\ One(wpc' = "dequeue") = One(wpc = "dequeue") /\ wpc # "failed" /\ via # "error"
    BY <1>4, <1>6, <1>11, Zenon DEF One
  <2>2. /\ \A g \in {"received", "written", "durable", "queue"} : h'[g] = h[g]
        /\ h["segment"] + 1 = (Seg + 1) - 1 /\ Total = Total + 0
    <3>1. h["segment"] = Seg - 1
      BY <1>2, Zenon DEF FlowInv
    <3>2. h["segment"] + 1 = (Seg + 1) - 1 /\ Total = Total + 0
      BY <1>1, <3>1
    <3> QED
      BY <1>9, <3>2, Zenon DEF Counters
  <2> QED
    BY <1>2, <1>4, <1>5, <1>7, <1>9, <1>10, <1>11, <2>1, <2>2, Zenon DEF FlowInv
<1>13. PathInv'
  BY <1>4, <1>6 DEF PathInv, Finalizing
<1>14. pframe' \in [mono : Nat, queued : Nat] /\ pframe'.mono = pframe.mono
  BY <1>2, <1>4 DEF CountersTypeOK
<1> QED
  BY <1>4, <1>8, <1>12, <1>13, <1>14, CounterStep, Zenon

(* Steps on the files leave the counters alone; one of them makes a record   *)
(* of the frame in hand.                                                     *)
LEMMA RecordsWritten ==
  ASSUME StreamTypeOK, BeginRecord \/ EndRecord \/ Sync \/ DropWriter
  PROVE  /\ Seg' = Seg
         /\ raw'[Seg].written = raw[Seg].written + One(wpc = "write")
<1>1. /\ raw \in Seq(RawFile) /\ Seg = Len(raw) /\ Seg \in 1..Len(raw)
      /\ raw[Seg] \in RawFile /\ raw[Seg].written \in Nat
  BY SegTyped, Typed, Zenon DEF StreamTypeOK, Seg
<1>2. \A r \in RawFile : raw' = [raw EXCEPT ![Seg] = r] => Seg' = Seg /\ raw'[Seg] = r
  BY <1>1, Update DEF Seg
<1>3. CASE BeginRecord
  <2> DEFINE q == [raw[Seg] EXCEPT !.torn = TRUE]
  <2>1. raw' = [raw EXCEPT ![Seg] = q] /\ wpc # "write"
    BY <1>3 DEF BeginRecord, WStep
  <2>2. q \in RawFile /\ q.written = raw[Seg].written
    BY <1>1, Zenon DEF RawFile
  <2> HIDE DEF q
  <2>3. Seg' = Seg /\ raw'[Seg] = q
    BY <1>2, <2>1, <2>2, Zenon
  <2> QED
    BY <1>1, <2>1, <2>2, <2>3 DEF One
<1>4. CASE EndRecord
  <2> DEFINE w == raw[Seg].written + 1
             q == [raw[Seg] EXCEPT !.written = w, !.torn = FALSE]
  <2>1. raw' = [raw EXCEPT ![Seg] = q] /\ wpc = "write"
    <3>1. Seg \in DOMAIN raw
      BY <1>1
    <3>2. raw' = [raw EXCEPT ![Seg] = q]
      BY <1>4, <3>1, Zenon DEF EndRecord
    <3> QED
      BY <1>4, <3>2, Zenon DEF EndRecord, WStep
  <2>2. w \in Nat /\ FALSE \in BOOLEAN
    BY <1>1
  <2>3. q \in RawFile /\ q.written = w
    BY <1>1, <2>2, Zenon DEF RawFile
  <2> HIDE DEF q
  <2>4. Seg' = Seg /\ raw'[Seg] = q
    BY <1>2, <2>1, <2>3, Zenon
  <2> QED
    BY <1>1, <2>1, <2>3, <2>4 DEF One
<1>5. CASE Sync \/ DropWriter
  <2> DEFINE q == [raw[Seg] EXCEPT !.synced = raw[Seg].written]
  <2>1. raw' = [raw EXCEPT ![Seg] = q] /\ wpc # "write"
    BY <1>5 DEF Sync, DropWriter, WStep
  <2>2. q \in RawFile /\ q.written = raw[Seg].written
    BY <1>1 DEF RawFile
  <2> HIDE DEF q
  <2>3. Seg' = Seg /\ raw'[Seg] = q
    BY <1>2, <2>1, <2>2, Zenon
  <2> QED
    BY <1>1, <2>1, <2>2, <2>3 DEF One
<1> QED
  BY <1>3, <1>4, <1>5, Zenon

LEMMA FileTotals ==
  ASSUME StreamInv, CountersInv, up,
         \/ BeginRecord \/ EndRecord \/ Idle \/ Drained \/ Sync \/ BeginAck \/ EndAck \/ SyncAck
         \/ BeginSeal \/ EndSeal \/ SyncSeal \/ DropWriter
  PROVE  Seg' = Seg /\ Before(Seg)' = Before(Seg) /\ Total' = Total + One(wpc = "write")
<1>1. /\ Seg \in Nat \ {0} /\ Total \in Nat /\ Before(Seg) \in Nat /\ raw[Seg].written \in Nat
  BY Numbers DEF CountersInv
<1>2. StreamTypeOK /\ ControlInv
  BY DEF StreamInv
<1>3. CASE BeginRecord \/ EndRecord \/ Sync \/ DropWriter
  <2>1. man' = man
    BY <1>3 DEF BeginRecord, EndRecord, Sync, DropWriter
  <2>2. Seg' = Seg /\ raw'[Seg].written = raw[Seg].written + One(wpc = "write")
    BY <1>2, <1>3, RecordsWritten, Zenon
  <2>3. Before(Seg)' = Before(Seg)
    BY <2>1, <2>2, Zenon DEF Before
  <2>4. Total' = Before(Seg) + raw'[Seg].written
    BY <2>2, <2>3 DEF Total
  <2>5. One(wpc = "write") \in Nat
    BY DEF One
  <2> QED
    BY <1>1, <2>2, <2>3, <2>4, <2>5 DEF Total
<1>4. CASE Idle \/ Drained \/ BeginAck \/ EndAck \/ SyncAck
  <2>1. raw' = raw /\ man' = man /\ wpc # "write"
    BY <1>4 DEF Idle, Drained, BeginAck, EndAck, SyncAck, WStep, files
  <2> QED
    BY <1>1, <2>1, SameTotal DEF One
<1>5. CASE BeginSeal \/ EndSeal \/ SyncSeal
  <2>1. raw' = raw /\ wpc \in {"seal", "sealing", "sealed"}
    BY <1>5 DEF BeginSeal, EndSeal, SyncSeal, WStep
  <2>2. Seg' = Seg
    BY <2>1 DEF Seg
  <2>3. man \in LogFile /\ man.lines \in Seq(Nat) /\ Sealed \in Nat
    BY <1>2, SealedIsBefore DEF StreamTypeOK, LogFile
  <2>4. Seg # 1 => man'.lines[Seg - 1] = man.lines[Seg - 1]
    <3>1. CASE man'.lines = man.lines
      BY <3>1
    <3>2. CASE BeginSeal \/ SyncSeal
      <4>1. man'.lines = man.lines
        BY <2>3, <3>2 DEF BeginSeal, SyncSeal, LogFile
      <4> QED
        BY <4>1
    <3>3. CASE EndSeal
      <4> DEFINE L == Append(man.lines, Sealed + raw[Seg].written)
      <4>1. man' = [man EXCEPT !.torn = FALSE, !.lines = L] /\ wpc = "sealing"
        BY <3>3 DEF EndSeal, WStep
      <4>2. Len(man.lines) = Seg - 1
        BY <1>2, <4>1, Zenon DEF ControlInv, SealWritten
      <4>3. Sealed + raw[Seg].written \in Nat
        BY <1>1, <2>3
      <4>4. L \in Seq(Nat) /\ \A j \in 1..(Seg - 1) : L[j] = man.lines[j]
        BY <2>3, <4>2, <4>3, Appended
      <4> HIDE DEF L
      <4>5. man'.lines = L
        <5>1. [man EXCEPT !.torn = FALSE, !.lines = L]
                = [lines |-> L, synced |-> man.synced, torn |-> FALSE]
          BY <2>3, <4>4, LogAppended, Zenon
        <5> QED
          BY <4>1, <5>1, Zenon
      <4>6. Seg # 1 => Seg - 1 \in 1..(Seg - 1)
        BY <1>1
      <4> QED
        BY <4>4, <4>5, <4>6
    <3> QED
      BY <1>5, <3>2, <3>3, Zenon
  <2>5. Before(Seg)' = Before(Seg)
    BY <2>2, <2>4, Zenon DEF Before
  <2>6. Total' = Total
    BY <2>1, <2>2, <2>5, Zenon DEF Total
  <2> QED
    BY <1>1, <2>1, <2>2, <2>5, <2>6 DEF One
<1> QED
  BY <1>3, <1>4, <1>5

LEMMA FramesAddUp ==
  \A r, t, c, p, x, y, m \in Nat :
    r >= t + c + p + x /\ y + m <= x => r >= (t + m) + c + p + y
  OBVIOUS

LEMMA FileCounts ==
  ASSUME StreamInv, CountersInv, up,
         \/ BeginRecord \/ EndRecord \/ Idle \/ Drained \/ Sync \/ BeginAck \/ EndAck \/ SyncAck
         \/ BeginSeal \/ EndSeal \/ SyncSeal \/ DropWriter
  PROVE  CountersInv' /\ Rises
<1>1. /\ \A f \in Counters : h[f] \in Nat
      /\ Seg \in Nat \ {0} /\ Total \in Nat /\ Len(chan) \in Nat /\ Before(Seg) \in Nat
      /\ raw[Seg].written \in Nat
  BY Numbers DEF CountersInv
<1>2. CountersTypeOK /\ FlowInv /\ PathInv /\ TimesInv
  BY Zenon DEF CountersInv
<1>3. UNCHANGED <<now, h, ppc, pframe, chan, wmono>>
  BY Zenon DEF BeginRecord, EndRecord, Idle, Drained, Sync, BeginAck, EndAck, SyncAck, BeginSeal,
         EndSeal, SyncSeal, DropWriter, wRest, producer, keep
<1>4. Seg' = Seg /\ Before(Seg)' = Before(Seg) /\ Total' = Total + One(wpc = "write")
  BY FileTotals
<1>5. CountersTypeOK' /\ TimesInv'
  BY <1>2, <1>3, Zenon DEF CountersTypeOK, TimesInv
<1>6. Rises
  BY <1>1, <1>2, <1>3 DEF Rises, CountersTypeOK
<1>7. acked' = IF wpc = "line" THEN raw[Seg].written ELSE acked
  BY Zenon DEF BeginRecord, EndRecord, Idle, Drained, Sync, BeginAck, EndAck, SyncAck, BeginSeal,
         EndSeal, SyncSeal, DropWriter, keep, WStep
<1>8. \/ wpc = "append" /\ wpc' = "write" /\ via' = via
      \/ wpc = "write" /\ wpc' = "sync" /\ via' = "group"
      \/ wpc = "write" /\ wpc' = "count" /\ via' = via
      \/ wpc = "recv" /\ wpc' = "sync" /\ via' = "idle"
      \/ wpc = "recv" /\ wpc' = "sync" /\ via' = "end" /\ ppc = "done" /\ chan = <<>>
      \/ wpc = "recv" /\ wpc' = "failed" /\ via' = via
      \/ wpc = "sync" /\ wpc' = "count" /\ via = "group" /\ via' = via
      \/ wpc = "sync" /\ wpc' = "ack" /\ via = "idle" /\ via' = via
      \/ wpc = "sync" /\ wpc' = "last" /\ via \notin {"group", "idle"} /\ via' = via
      \/ wpc = "ack" /\ wpc' = "seal" /\ Finalizing /\ via' = via
      \/ wpc = "ack" /\ wpc' \in {"last", "line"} /\ via' = via
      \/ wpc = "line" /\ wpc' = "ackSync" /\ via' = via
      \/ wpc = "ackSync" /\ wpc' = "durable" /\ via' = via
      \/ wpc = "seal" /\ wpc' \in {"sealing", "failed"} /\ via' = via
      \/ wpc = "sealing" /\ wpc' = "sealed" /\ via' = via
      \/ wpc = "sealed" /\ wpc' = "done" /\ via = "end" /\ via' = via
      \/ wpc = "sealed" /\ wpc' = "open" /\ via # "end" /\ via' = via
      \/ wpc = "failed" /\ wpc' = "done" /\ via' = "error"
  <2> USE DEF WStep, keep
  <2>1. CASE BeginRecord \/ EndRecord
    BY <2>1, Zenon DEF BeginRecord, EndRecord
  <2>2. CASE Idle \/ Drained
    BY <2>2, Zenon DEF Idle, Drained
  <2>3. CASE Sync \/ DropWriter
    BY <2>3, Zenon DEF Sync, DropWriter
  <2>4. CASE BeginAck \/ EndAck \/ SyncAck
    BY <2>4 DEF BeginAck, EndAck, SyncAck
  <2>5. CASE BeginSeal \/ EndSeal \/ SyncSeal
    BY <2>5, Zenon DEF BeginSeal, EndSeal, SyncSeal
  <2> QED
    BY <2>1, <2>2, <2>3, <2>4, <2>5, Zenon
<1>9. PathInv'
  BY <1>2, <1>3, <1>8, Zenon DEF PathInv, Finalizing
<1>10. FlowInv'
  <2>1. /\ Receiving' = Receiving
    BY <1>3, Zenon DEF Receiving
  <2> DEFINE held == One(Holding)
             heldThen == One(Holding')
             more == One(wpc = "write")
             open == One(Uncounted)
             openThen == One(Uncounted')
             coming == One(Receiving)
  <2>2. wpc' # "failed" /\ via' # "error" => wpc # "failed" /\ via # "error"
    BY <1>2, <1>8, Zenon DEF PathInv
  <2>3. wpc' # "failed" /\ via' # "error" => heldThen + more = held
    BY <1>2, <1>8 DEF Holding, One, PathInv, Finalizing
  <2>4. heldThen + more <= held
    BY <1>2, <1>8 DEF Holding, One, PathInv, Finalizing
  <2>5. openThen = open + more
    BY <1>8 DEF Uncounted, One
  <2>6. /\ held \in Nat /\ heldThen \in Nat /\ open \in Nat /\ openThen \in Nat /\ more \in Nat
        /\ coming \in Nat
    BY DEF One
  <2>7. h["received"] \in Nat /\ h["written"] \in Nat
    BY <1>1, Zenon DEF Counters
  <2>8. /\ h["received"] >= Total + Len(chan) + coming + held
        /\ wpc # "failed" /\ via # "error" => h["received"] = Total + Len(chan) + coming + held
        /\ h["written"] + open = Total
    BY <1>2 DEF FlowInv
  <2>14. Total' = Total + more
    BY <1>4
  <2> HIDE DEF held, heldThen, more, open, openThen, coming
  <2>9. /\ h["received"] >= (Total + more) + Len(chan) + coming + heldThen
        /\ h["written"] + openThen = Total + more
    <3>1. h["received"] >= (Total + more) + Len(chan) + coming + heldThen
      BY <1>1, <2>4, <2>6, <2>7, <2>8, FramesAddUp, Zenon
    <3>2. h["written"] + openThen = Total + more
      <4>1. Total \in Nat /\ h["written"] + open = Total
        BY <1>1, <2>8, Zenon
      <4> QED
        BY <2>5, <2>6, <2>7, <4>1
    <3> QED
      BY <3>1, <3>2
  <2>10. wpc' # "failed" /\ via' # "error" =>
           h["received"] = (Total + more) + Len(chan) + coming + heldThen
    <3> SUFFICES ASSUME wpc' # "failed" /\ via' # "error"
                 PROVE  h["received"] = (Total + more) + Len(chan) + coming + heldThen
      OBVIOUS
    <3>1. h["received"] = Total + Len(chan) + coming + held
      BY <2>2, <2>8, Zenon
    <3>2. heldThen + more = held
      BY <2>3, Zenon
    <3>3. Total + Len(chan) + coming + (heldThen + more)
            = (Total + more) + Len(chan) + coming + heldThen
      <4>1. Total \in Nat /\ Len(chan) \in Nat
        BY <1>1, Zenon
      <4> QED
        BY <2>6, <4>1
    <3> QED
      BY <3>1, <3>2, <3>3, Zenon
  <2>11. wpc' \notin {"ackSync", "durable"} => h'["durable"] = Before(Seg)' + acked'
    <3>1. wpc' \notin {"ackSync", "durable"} => wpc \notin {"line", "ackSync", "durable"}
      BY <1>8
    <3> QED
      BY <1>2, <1>3, <1>4, <1>7, <3>1 DEF FlowInv
  <2>12. One(wpc' = "dequeue") = One(wpc = "dequeue")
    BY <1>8 DEF One
  <2>13. /\ h'["durable"] <= h'["written"] /\ h'["written"] <= h'["received"]
         /\ h'["segment"] = Seg' - 1
         /\ h'["queue"] = Len(chan') + One(ppc' \in {"peak", "send"}) + One(wpc' = "dequeue")
    BY <1>2, <1>3, <1>4, <2>12 DEF FlowInv
  <2> QED
    BY <1>3, <2>1, <2>9, <2>10, <2>11, <2>13, <2>14, Zenon DEF FlowInv, heldThen, openThen, coming
<1> QED
  BY <1>5, <1>6, <1>9, <1>10, Zenon DEF CountersInv

-----------------------------------------------------------------------------
(* The record being taken, and the records taken, while the others move.     *)
LEMMA FieldIndex ==
  \A i \in 1..11 : Fields[i] \in FieldSet /\ \A j \in 1..11 : Fields[i] = Fields[j] => i = j
<1>1. 1..11 = {1, 2, 3, 4, 5, 6, 7, 8, 9, 10, 11}
  OBVIOUS
<1> QED
  BY <1>1, FieldNames DEF Counters

LEMMA SeenTyped ==
  ASSUME CountersInv, SampleInv
  PROVE  \A i \in 1..11 : Seen(i) \in Nat /\ h[Fields[i]] \in Nat
  BY FieldIndex, Zenon DEF CountersInv, CountersTypeOK, SampleInv, Seen

LEMMA BesideSampler ==
  ASSUME TelemetryInv, reader = "sampler", CountersInv', CausalNow', Rises, up',
         UNCHANGED <<reader, spc, sample, samples>>,
         wpc = "done" => UNCHANGED <<wpc, via, man>>, ppc = "done" => ppc' = "done"
  PROVE  TelemetryInv'
<1>1. CountersInv /\ SampleInv /\ RecordsInv
  BY DEF TelemetryInv
<1>2. /\ h'["durable"] <= h'["written"] /\ h'["written"] <= h'["received"]
      /\ h'["market"] <= h'["socket"] /\ h'["socket"] <= now' /\ h'["lastDurable"] <= now'
  BY DEF CausalNow
<1>3. \A i \in 1..11 : Seen(i) \in Nat /\ h[Fields[i]] \in Nat /\ h'[Fields[i]] \in Nat
  BY <1>1, SeenTyped, FieldIndex, Zenon DEF CountersInv, CountersTypeOK
<1>4. now \in Nat /\ now' \in Nat /\ now <= now'
  BY <1>1 DEF CountersInv, CountersTypeOK, Rises
<1>5. \A i \in RisingFields : h[Fields[i]] <= h'[Fields[i]]
  BY FieldNames DEF Rises, RisingFields, Counters
<1>6. /\ \A i \in 1..11 : Seen(i)' = IF i < spc THEN Seen(i) ELSE h'[Fields[i]]
      /\ \A i \in 1..11 : ~(i < spc) => Seen(i) = h[Fields[i]]
  BY DEF Seen
<1>7. RisingFields \subseteq 1..11
  BY DEF RisingFields
<1>8. \A i \in RisingFields : Seen(i) <= Seen(i)'
  <2>1. \A i \in 1..11 : Seen(i) <= Seen(i)
    BY <1>3
  <2> QED
    BY <1>5, <1>6, <1>7, <2>1, Zenon
<1>9. SampleInv'
  <2>1. /\ spc \in 1..12 /\ sample \in [FieldSet -> Nat]
        /\ Seen(2) <= Seen(4) /\ Seen(4) <= Seen(6) /\ Seen(3) <= Seen(5)
        /\ Seen(5) <= now /\ Seen(1) <= now
        /\ \A i \in RisingFields : Seen(i) <= h[Fields[i]]
    BY <1>1, Zenon DEF SampleInv
  <2>2. Seen(2)' <= Seen(4)' /\ Seen(4)' <= Seen(6)' /\ Seen(3)' <= Seen(5)'
    <3>1. /\ Seen(4) <= Seen(4)' /\ Seen(5) <= Seen(5)' /\ Seen(6) <= Seen(6)'
      BY <1>8, Zenon DEF RisingFields
    <3>2. /\ h'[Fields[2]] <= h'[Fields[4]] /\ h'[Fields[4]] <= h'[Fields[6]]
          /\ h'[Fields[3]] <= h'[Fields[5]]
      BY <1>2, FieldNames, Zenon
    <3>3. \A i \in {2, 3, 4, 5, 6} :
            /\ Seen(i) \in Nat /\ Seen(i)' \in Nat
            /\ Seen(i)' = IF i < spc THEN Seen(i) ELSE h'[Fields[i]]
      BY <1>3, <1>6
    <3>4. Seen(2)' <= Seen(4)'
      BY <2>1, <3>1, <3>2, <3>3
    <3>5. Seen(4)' <= Seen(6)'
      BY <2>1, <3>1, <3>2, <3>3
    <3>6. Seen(3)' <= Seen(5)'
      BY <2>1, <3>1, <3>2, <3>3
    <3> QED
      BY <3>4, <3>5, <3>6, Zenon
  <2>3. Seen(5)' <= now' /\ Seen(1)' <= now'
    <3>1. h'[Fields[5]] <= now' /\ h'[Fields[1]] <= now'
      BY <1>2, FieldNames, Zenon
    <3>2. \A i \in {1, 5} :
            Seen(i) \in Nat /\ Seen(i)' = IF i < spc THEN Seen(i) ELSE h'[Fields[i]]
      BY <1>3, <1>6
    <3> QED
      BY <1>4, <2>1, <3>1, <3>2
  <2>4. \A i \in RisingFields : Seen(i)' <= h'[Fields[i]]
    BY <1>3, <1>5, <1>6, <1>7, <2>1
  <2> QED
    BY <2>1, <2>2, <2>3, <2>4, Zenon DEF SampleInv
<1>10. RecordsInv'
  <2>1. /\ samples \in Seq(Record) /\ TelemetryIsCausal
        /\ samples # <<>> =>
             /\ samples[Len(samples)].mono <= now
             /\ \A i \in RisingFields : samples[Len(samples)].of[Fields[i]] <= Seen(i)
        /\ \A i \in 1..Len(samples) : samples[i].terminal => wpc = "done" /\ ppc = "done"
    BY <1>1, Zenon DEF RecordsInv
  <2>2. TelemetryIsCausal'
    <3> SUFFICES ASSUME NEW i \in DOMAIN samples
                 PROVE  /\ Causal(samples[i])
                        /\ i > 1 => Lineage(samples[i - 1], samples[i])
                        /\ samples[i].terminal /\ via' # "error" => TerminalAgrees(samples[i])'
      BY Zenon DEF TelemetryIsCausal
    <3>1. /\ Causal(samples[i])
          /\ i > 1 => Lineage(samples[i - 1], samples[i])
          /\ samples[i].terminal /\ via # "error" => TerminalAgrees(samples[i])
      BY <2>1, Zenon DEF TelemetryIsCausal
    <3>2. samples[i].terminal => man' = man /\ via' = via
      <4>1. i \in 1..Len(samples)
        BY <2>1
      <4> QED
        BY <2>1, <4>1, Zenon
    <3>3. man' = man /\ TerminalAgrees(samples[i]) => TerminalAgrees(samples[i])'
      BY Zenon DEF TerminalAgrees, Sealed
    <3> QED
      BY <3>1, <3>2, <3>3, Zenon
  <2>3. ASSUME samples # <<>>
        PROVE  /\ samples[Len(samples)].mono <= now'
               /\ \A i \in RisingFields : samples[Len(samples)].of[Fields[i]] <= Seen(i)'
    <3>1. samples[Len(samples)] \in Record
      BY <2>1, <2>3
    <3>2. /\ samples[Len(samples)].mono \in Nat
          /\ \A i \in 1..11 : samples[Len(samples)].of[Fields[i]] \in Nat
      BY <3>1, FieldIndex, Zenon DEF Record
    <3> DEFINE r == samples[Len(samples)]
    <3>3. /\ r.mono <= now /\ \A i \in RisingFields : r.of[Fields[i]] <= Seen(i)
      BY <2>1, <2>3
    <3>4. r.mono \in Nat /\ \A i \in 1..11 : r.of[Fields[i]] \in Nat
      BY <3>2
    <3> HIDE DEF r
    <3>5. r.mono <= now'
      BY <1>4, <3>3, <3>4
    <3>6. \A i \in 1..11 : Seen(i)' \in Nat
      BY <1>3, <1>6, Zenon
    <3>7. ASSUME NEW i \in RisingFields PROVE r.of[Fields[i]] <= Seen(i)'
      <4>1. i \in 1..11 /\ r.of[Fields[i]] <= Seen(i) /\ Seen(i) <= Seen(i)'
        BY <1>7, <1>8, <3>3, Zenon
      <4>2. r.of[Fields[i]] \in Nat /\ Seen(i) \in Nat /\ Seen(i)' \in Nat
        BY <1>3, <3>4, <3>6, <4>1, Zenon
      <4> QED
        BY <4>1, <4>2
    <3> QED
      BY <3>5, <3>7, Zenon DEF r
  <2> QED
    BY <2>1, <2>2, <2>3, Zenon DEF RecordsInv
<1> QED
  BY <1>9, <1>10 DEF TelemetryInv

-----------------------------------------------------------------------------
(* The sampler.                                                              *)
LEMMA SameCounters ==
  ASSUME CountersInv,
         UNCHANGED <<now, h, ppc, pframe, chan, wpc, via, wmono, acked, raw, man>>
  PROVE  CountersInv'
<1>1. Total' = Total /\ Seg' = Seg /\ Before(Seg)' = Before(Seg)
  BY SameTotal, Zenon
<1>2. /\ Receiving' = Receiving /\ Holding' = Holding /\ Uncounted' = Uncounted
      /\ Finalizing' = Finalizing
  BY Zenon DEF Receiving, Holding, Uncounted, Finalizing
<1>3. FlowInv'
  BY <1>1, <1>2, Zenon DEF CountersInv, FlowInv
<1>4. CountersTypeOK' /\ PathInv' /\ TimesInv'
  BY <1>2, Zenon DEF CountersInv, CountersTypeOK, PathInv, TimesInv
<1> QED
  BY <1>3, <1>4 DEF CountersInv

(* No field is loaded yet.                                                   *)
LEMMA FreshSample ==
  ASSUME CountersInv, spc = 1, sample \in [FieldSet -> Nat]
  PROVE  SampleInv
<1>1. \A i \in 1..11 : Seen(i) = h[Fields[i]] /\ Fields[i] \in FieldSet
  BY FieldIndex DEF Seen
<1>2. \A i \in {1, 2, 3, 4, 5, 6} : Seen(i) = h[Fields[i]]
  BY <1>1
<1>3. CausalNow
  BY CausalCounters
<1>4. h \in [FieldSet -> Nat]
  BY DEF CountersInv, CountersTypeOK
<1>5. \A i \in RisingFields : Seen(i) <= h[Fields[i]]
  <2>1. RisingFields \subseteq 1..11
    BY DEF RisingFields
  <2> QED
    BY <1>1, <1>4, <2>1
<1> QED
  BY <1>2, <1>3, <1>5, FieldNames DEF CausalNow, SampleInv

LEMMA LoadFieldInv == TelemetryInv /\ LoadField => TelemetryInv'
<1> SUFFICES ASSUME TelemetryInv, LoadField PROVE TelemetryInv'
  BY Zenon
<1>1. /\ reader = "sampler" /\ spc <= 11 /\ spc' = spc + 1
      /\ sample' = [sample EXCEPT ![Fields[spc]] = h[Fields[spc]]]
      /\ UNCHANGED <<samples, now, h, ppc, pframe, chan, wpc, via, wmono, acked, raw, prog, man, up,
                     reader>>
  BY FieldNames, Zenon DEF LoadField, sRest, producer, writer, files
<1>2. up /\ CountersInv /\ SampleInv /\ RecordsInv
  BY <1>1, Zenon DEF TelemetryInv
<1>3. CountersInv'
  BY <1>1, <1>2, SameCounters, Zenon
<1>4. spc \in 1..11 /\ spc' \in 1..12
  BY <1>1, <1>2 DEF SampleInv
<1>5. sample \in [FieldSet -> Nat] /\ h \in [FieldSet -> Nat]
  BY <1>2, Zenon DEF SampleInv, CountersInv, CountersTypeOK
<1>6. sample' \in [FieldSet -> Nat]
  BY <1>1, <1>4, <1>5, FieldIndex, Zenon
<1>7. ASSUME NEW i \in 1..11 PROVE Seen(i)' = Seen(i)
  <2>1. CASE i < spc
    <3>1. Fields[i] # Fields[spc] /\ i < spc'
      BY <1>1, <1>4, <2>1, FieldIndex
    <3>2. sample'[Fields[i]] = sample[Fields[i]]
      BY <1>1, <1>4, <1>5, <3>1, FieldIndex, Zenon
    <3> QED
      BY <2>1, <3>1, <3>2, Zenon DEF Seen
  <2>2. CASE i = spc
    <3>1. sample'[Fields[i]] = h[Fields[i]]
      BY <1>1, <1>5, <2>2, FieldIndex, Zenon
    <3>2. i < spc' /\ ~(i < spc)
      BY <1>1, <1>4, <2>2
    <3> QED
      BY <3>1, <3>2, Zenon DEF Seen
  <2>3. CASE i > spc
    <3>1. ~(i < spc') /\ ~(i < spc)
      BY <1>1, <1>4, <2>3
    <3> QED
      BY <1>1, <3>1, Zenon DEF Seen
  <2> QED
    BY <1>4, <2>1, <2>2, <2>3
<1>8. RisingFields \subseteq 1..11
  BY DEF RisingFields
<1>9. SampleInv'
  <2>1. \A i \in {1, 2, 3, 4, 5, 6} : Seen(i)' = Seen(i)
    BY <1>7
  <2>2. \A i \in RisingFields : Seen(i)' = Seen(i)
    BY <1>7, <1>8, Zenon
  <2> QED
    BY <1>1, <1>2, <1>4, <1>6, <2>1, <2>2, Zenon DEF SampleInv
<1>10. RecordsInv'
  <2>1. \A i \in RisingFields : Seen(i)' = Seen(i)
    BY <1>7, <1>8, Zenon
  <2>2. TelemetryIsCausal'
    BY <1>1, <1>2, Zenon DEF RecordsInv, TelemetryIsCausal, TerminalAgrees, Sealed, Causal, Lineage
  <2> QED
    BY <1>1, <1>2, <2>1, <2>2, Zenon DEF RecordsInv
<1> QED
  BY <1>1, <1>2, <1>3, <1>9, <1>10 DEF TelemetryInv

(* A record is added.                                                        *)
LEMMA Recorded ==
  ASSUME RecordsInv, NEW r \in Record, samples' = Append(samples, r), UNCHANGED <<via, man>>,
         Causal(r), samples # <<>> => Lineage(samples[Len(samples)], r),
         r.terminal /\ via # "error" => TerminalAgrees(r)
  PROVE  /\ samples' \in Seq(Record) /\ samples' # <<>> /\ samples'[Len(samples')] = r
         /\ \A i \in 1..Len(samples') :
              samples'[i] = r \/ (i \in 1..Len(samples) /\ samples'[i] = samples[i])
         /\ TelemetryIsCausal'
<1>1. samples \in Seq(Record) /\ TelemetryIsCausal
  BY DEF RecordsInv
<1>2. /\ samples' \in Seq(Record) /\ Len(samples') = Len(samples) + 1
      /\ samples'[Len(samples) + 1] = r /\ \A j \in 1..Len(samples) : samples'[j] = samples[j]
  BY <1>1, Appended
<1>3. \A i \in 1..Len(samples') : i = Len(samples) + 1 \/ i \in 1..Len(samples)
  BY <1>1, <1>2
<1>4. TelemetryIsCausal'
  <2> SUFFICES ASSUME NEW i \in 1..Len(samples')
               PROVE  /\ Causal(samples'[i])
                      /\ i > 1 => Lineage(samples'[i - 1], samples'[i])
                      /\ samples'[i].terminal /\ via # "error" => TerminalAgrees(samples'[i])
    <3>1. DOMAIN samples' = 1..Len(samples') /\ via' = via /\ man' = man
      BY <1>2
    <3> QED
      BY <3>1, Zenon DEF TelemetryIsCausal, Causal, Lineage, TerminalAgrees, Sealed
  <2>1. CASE i = Len(samples) + 1
    <3>1. samples'[i] = r
      BY <1>2, <2>1, Zenon
    <3>2. i > 1 => samples # <<>> /\ i - 1 = Len(samples) /\ i - 1 \in 1..Len(samples)
      BY <1>1, <2>1
    <3>3. i > 1 => Lineage(samples'[i - 1], samples'[i])
      BY <1>2, <3>1, <3>2, Zenon
    <3> QED
      BY <3>1, <3>3, Zenon
  <2>2. CASE i \in 1..Len(samples)
    <3>1. samples'[i] = samples[i] /\ i \in DOMAIN samples
      BY <1>1, <1>2, <2>2
    <3>2. i > 1 => i - 1 \in 1..Len(samples)
      BY <1>1, <2>2
    <3>3. i > 1 => samples'[i - 1] = samples[i - 1]
      BY <1>2, <3>2, Zenon
    <3>4. /\ Causal(samples[i]) /\ (i > 1 => Lineage(samples[i - 1], samples[i]))
          /\ samples[i].terminal /\ via # "error" => TerminalAgrees(samples[i])
      BY <1>1, <3>1 DEF TelemetryIsCausal
    <3> QED
      BY <3>1, <3>3, <3>4, Zenon
  <2> QED
    BY <1>3, <2>1, <2>2
<1> QED
  BY <1>1, <1>2, <1>3, <1>4

(* The record taken now follows the one before it.                           *)
LEMMA RecordFollows ==
  ASSUME CountersInv, RecordsInv, NEW r \in Record, r.mono = now, samples # <<>>,
         \A i \in 1..11 : r.of[Fields[i]] = Seen(i)
  PROVE  Lineage(samples[Len(samples)], r)
<1>1. ASSUME NEW f \in FieldSet \ {"lastDurable", "queue", "lastSync"}
      PROVE  \E i \in RisingFields : f = Fields[i]
  BY <1>1, FieldNames, Zenon DEF Counters, RisingFields
<1>2. RisingFields \subseteq 1..11
  BY DEF RisingFields
<1>3. /\ samples[Len(samples)].mono <= now
      /\ \A i \in RisingFields : samples[Len(samples)].of[Fields[i]] <= Seen(i)
  BY DEF RecordsInv
<1>4. \A f \in FieldSet \ {"lastDurable", "queue", "lastSync"} :
        samples[Len(samples)].of[f] <= r.of[f]
  <2> TAKE f \in FieldSet \ {"lastDurable", "queue", "lastSync"}
  <2>1. PICK i \in RisingFields : f = Fields[i]
    BY <1>1, Zenon
  <2>2. r.of[Fields[i]] = Seen(i) /\ samples[Len(samples)].of[Fields[i]] <= Seen(i)
    BY <1>2, <1>3, Zenon
  <2> QED
    BY <2>1, <2>2, Zenon
<1> QED
  BY <1>3, <1>4, Zenon DEF Lineage

LEMMA FinishSampleInv == TelemetryInv /\ FinishSample => TelemetryInv'
<1> SUFFICES ASSUME TelemetryInv, FinishSample PROVE TelemetryInv'
  BY Zenon
<1> DEFINE r == [of |-> sample, mono |-> now, terminal |-> FALSE]
<1>1. /\ reader = "sampler" /\ spc > 11 /\ spc' = 1 /\ sample' = NoSample
      /\ samples' = Append(samples, r)
      /\ UNCHANGED <<now, h, ppc, pframe, chan, wpc, via, wmono, acked, raw, prog, man, up, reader>>
  BY FieldNames, Zenon DEF FinishSample, sRest, producer, writer, files
<1>2. up /\ CountersInv /\ SampleInv /\ RecordsInv
  BY <1>1, Zenon DEF TelemetryInv
<1>3. CountersInv'
  BY <1>1, <1>2, SameCounters, Zenon
<1>4. /\ sample \in [FieldSet -> Nat] /\ h \in [FieldSet -> Nat] /\ now \in Nat /\ spc = 12
  BY <1>1, <1>2 DEF SampleInv, CountersInv, CountersTypeOK
<1>5. r \in Record /\ r.mono = now /\ r.of = sample /\ ~r.terminal
  BY <1>4 DEF Record
<1> HIDE DEF r
<1>6. \A i \in 1..11 : r.of[Fields[i]] = Seen(i) /\ Seen(i)' = h[Fields[i]]
  <2>1. \A i \in 1..11 : i < spc /\ ~(i < spc')
    BY <1>1, <1>4
  <2> QED
    BY <1>1, <1>5, <2>1, Zenon DEF Seen
<1>7. Causal(r)
  <2>1. \A i \in {1, 2, 3, 4, 5, 6} : r.of[Fields[i]] = Seen(i)
    BY <1>6
  <2> QED
    BY <1>2, <1>5, <2>1, FieldNames, Zenon DEF Causal, SampleInv
<1>8. samples # <<>> => Lineage(samples[Len(samples)], r)
  BY <1>2, <1>5, <1>6, RecordFollows, Zenon
<1>9. /\ samples' \in Seq(Record) /\ samples' # <<>> /\ samples'[Len(samples')] = r
      /\ \A i \in 1..Len(samples') :
           samples'[i] = r \/ (i \in 1..Len(samples) /\ samples'[i] = samples[i])
      /\ TelemetryIsCausal'
  BY <1>1, <1>2, <1>5, <1>7, <1>8, Recorded, Zenon
<1>10. RecordsInv'
  <2>1. \A i \in RisingFields : r.of[Fields[i]] <= Seen(i)'
    <3>1. RisingFields \subseteq 1..11
      BY DEF RisingFields
    <3> QED
      BY <1>2, <1>6, <3>1, Zenon DEF SampleInv
  <2>2. r.mono <= now'
    BY <1>1, <1>4, <1>5
  <2>3. \A i \in 1..Len(samples') : samples'[i].terminal => wpc = "done" /\ ppc = "done"
    BY <1>2, <1>5, <1>9 DEF RecordsInv
  <2> QED
    BY <1>1, <1>9, <2>1, <2>2, <2>3, Zenon DEF RecordsInv
<1>11. SampleInv'
  <2>1. sample' \in [FieldSet -> Nat]
    BY <1>1, Zenon DEF NoSample
  <2>2. \A i \in {1, 2, 3, 4, 5, 6} : Seen(i)' = h[Fields[i]]
    BY <1>6
  <2>3. \A i \in RisingFields : Seen(i)' <= h[Fields[i]]
    <3>1. RisingFields \subseteq 1..11
      BY DEF RisingFields
    <3> QED
      BY <1>4, <1>6, <3>1, FieldIndex
  <2>4. CausalNow
    BY <1>2, CausalCounters, Zenon
  <2> QED
    BY <1>1, <2>1, <2>2, <2>3, <2>4, FieldNames DEF CausalNow, SampleInv
<1> QED
  BY <1>1, <1>2, <1>3, <1>10, <1>11, Zenon DEF TelemetryInv

LEMMA TerminalSampleInv == StreamInv /\ TelemetryInv /\ TerminalSample => TelemetryInv'
<1> SUFFICES ASSUME StreamInv, TelemetryInv, TerminalSample PROVE TelemetryInv'
  BY Zenon
<1> DEFINE r == [of |-> h, mono |-> now, terminal |-> TRUE]
<1>1. /\ reader = "sampler" /\ spc = 1 /\ wpc = "done" /\ ppc = "done"
      /\ samples' = Append(samples, r)
      /\ UNCHANGED <<spc, sample, now, h, ppc, pframe, chan, wpc, via, wmono, acked, raw, prog, man,
                     up, reader>>
  BY Zenon DEF TerminalSample, sRest, producer, writer, files
<1>2. up /\ CountersInv /\ SampleInv /\ RecordsInv
  BY <1>1, Zenon DEF TelemetryInv
<1>3. CountersInv'
  BY <1>1, <1>2, SameCounters, Zenon
<1>4. h \in [FieldSet -> Nat] /\ now \in Nat
  BY <1>2, Zenon DEF CountersInv, CountersTypeOK
<1>5. r \in Record /\ r.mono = now /\ r.of = h /\ r.terminal
  BY <1>4, Zenon DEF Record
<1> HIDE DEF r
<1>6. \A i \in 1..11 : r.of[Fields[i]] = Seen(i) /\ Seen(i)' = Seen(i) /\ Seen(i) \in Nat
  <2>1. \A i \in 1..11 : ~(i < spc)
    BY <1>1
  <2>2. \A i \in 1..11 : Seen(i) \in Nat
    BY <1>2, SeenTyped
  <2> QED
    BY <1>1, <1>5, <2>1, <2>2, Zenon DEF Seen
<1>7. Causal(r)
  BY <1>2, <1>5, CausalCounters DEF Causal, CausalNow
<1>8. samples # <<>> => Lineage(samples[Len(samples)], r)
  BY <1>2, <1>5, <1>6, RecordFollows, Zenon
<1>9. ASSUME via # "error" PROVE TerminalAgrees(r)
  <2>1. via = "end" /\ chan = <<>> /\ h["maxSync"] > 0
    BY <1>1, <1>2, <1>9 DEF CountersInv, PathInv, Finalizing
  <2>2. StreamTypeOK /\ ControlInv /\ ManifestInv
    BY <1>2, Zenon DEF StreamInv
  <2>3. /\ Seg \in Nat \ {0} /\ Total \in Nat /\ Before(Seg) \in Nat /\ raw[Seg].written \in Nat
        /\ \A f \in Counters : h[f] \in Nat
    BY <1>2, Numbers, Zenon DEF CountersInv
  <2>4. Len(man.lines) = Seg /\ acked = LastOf(prog[Seg].lines)
    BY <1>1, <2>1, <2>2, Zenon DEF ControlInv, SealWritten
  <2>5. /\ LastOf(prog[Seg].lines) = raw[Seg].written
        /\ man.lines[Seg] = raw[Seg].written + Before(Seg)
    BY <2>2, <2>3, <2>4 DEF ManifestInv
  <2>6. Sealed = Total
    <3>1. man.lines # <<>>
      BY <2>3, <2>4
    <3> QED
      BY <2>3, <2>4, <2>5, <3>1 DEF Sealed, Total
  <2>7. Len(chan) = 0
    BY <2>1, Zenon
  <2>8. ~Holding /\ ~Receiving /\ ~Uncounted
    BY <1>1 DEF Holding, Receiving, Uncounted
  <2>9. FlowInv
    BY <1>2, Zenon DEF CountersInv
  <2>10. /\ h["received"] = Total + Len(chan) + One(Receiving) + One(Holding)
         /\ h["written"] + One(Uncounted) = Total
         /\ h["durable"] = Before(Seg) + acked /\ h["segment"] = Seg - 1
         /\ h["queue"] = Len(chan) + One(ppc \in {"peak", "send"}) + One(wpc = "dequeue")
    BY <1>1, <1>9, <2>9, Zenon DEF FlowInv
  <2>11. h["received"] = Total /\ h["written"] = Total /\ h["queue"] = 0
    BY <1>1, <2>3, <2>7, <2>8, <2>10 DEF One, Counters
  <2>12. h["durable"] = Total
    BY <2>3, <2>4, <2>5, <2>10, Zenon DEF Total
  <2> QED
    BY <1>5, <2>1, <2>4, <2>6, <2>10, <2>11, <2>12 DEF TerminalAgrees
<1>10. /\ samples' \in Seq(Record) /\ samples' # <<>> /\ samples'[Len(samples')] = r
       /\ TelemetryIsCausal'
  BY <1>1, <1>2, <1>5, <1>7, <1>8, <1>9, Recorded, Zenon
<1>11. RisingFields \subseteq 1..11
  BY DEF RisingFields
<1>12. RecordsInv'
  <2>1. \A i \in RisingFields : r.of[Fields[i]] <= Seen(i)'
    BY <1>6, <1>11
  <2>2. r.mono <= now'
    BY <1>1, <1>4, <1>5
  <2> QED
    BY <1>1, <1>10, <2>1, <2>2, Zenon DEF RecordsInv
<1>13. SampleInv'
  <2>1. \A i \in {1, 2, 3, 4, 5, 6} : Seen(i)' = Seen(i)
    BY <1>6
  <2>2. \A i \in RisingFields : Seen(i)' = Seen(i)
    BY <1>6, <1>11, Zenon
  <2> QED
    BY <1>1, <1>2, <2>1, <2>2, Zenon DEF SampleInv
<1> QED
  BY <1>1, <1>2, <1>3, <1>12, <1>13 DEF TelemetryInv

-----------------------------------------------------------------------------
LEMMA TelemetryInit == Init => TelemetryInv
<1> SUFFICES ASSUME Init PROVE TelemetryInv
  BY Zenon
<1>1. /\ now = 1 /\ up /\ h = NoSample /\ ppc = "read" /\ pframe = [mono |-> 0, queued |-> 0]
      /\ chan = <<>> /\ wpc = "recv" /\ via = "none" /\ wmono = 0 /\ acked = 0
      /\ raw = <<EmptyRaw>> /\ spc = 1 /\ sample = NoSample /\ samples = <<>>
  BY Zenon DEF Init
<1>2. \A f \in Counters : h[f] = 0
  BY <1>1, FieldNames, Zenon DEF NoSample
<1>3. Seg = 1 /\ Total = 0 /\ Before(Seg) = 0
  BY <1>1 DEF Seg, Total, Before, EmptyRaw
<1>4. CountersTypeOK
  BY <1>1 DEF CountersTypeOK, NoSample
<1>5. FlowInv
  <2>1. ~Receiving /\ ~Holding /\ ~Uncounted
    BY <1>1, Zenon DEF Receiving, Holding, Uncounted
  <2> QED
    BY <1>1, <1>2, <1>3, <2>1 DEF FlowInv, One, Counters
<1>6. PathInv
  BY <1>1, Zenon DEF PathInv, Finalizing
<1>7. TimesInv
  BY <1>1, <1>2 DEF TimesInv, Counters
<1>8. CountersInv
  BY <1>4, <1>5, <1>6, <1>7, Zenon DEF CountersInv
<1>9. SampleInv
  BY <1>1, <1>8, FreshSample, Zenon DEF NoSample
<1>10. RecordsInv
  BY <1>1 DEF RecordsInv, TelemetryIsCausal
<1> QED
  BY <1>1, <1>8, <1>9, <1>10, Zenon DEF TelemetryInv

LEMMA CountersNext ==
  ASSUME StreamInv, TelemetryInv, reader = "sampler", Tick \/ Producer \/ Writer
  PROVE  /\ CountersInv' /\ Rises /\ up' /\ UNCHANGED <<reader, spc, sample, samples>>
         /\ wpc = "done" => UNCHANGED <<wpc, via, man>>
         /\ ppc = "done" => ppc' = "done"
<1>1. up /\ CountersInv
  BY DEF TelemetryInv
<1>2. CASE Tick \/ Producer
  <2>1. CountersInv' /\ Rises
    BY <1>1, <1>2, ProducerCounts, Zenon
  <2>2. UNCHANGED <<up, reader, spc, sample, samples, wpc, via, man>>
    BY <1>2 DEF Tick, Producer, NoteSocket, CountReceipt, CountQueued, NotePeak, Send, Leave, pRest,
                writer, files, readers
  <2>3. ppc = "done" => ppc' = "done"
    BY <1>2, Zenon DEF Tick, Producer, NoteSocket, CountReceipt, CountQueued, NotePeak, Send, Leave,
                PStep, producer
  <2> QED
    BY <1>1, <2>1, <2>2, <2>3
<1>3. CASE Writer
  <2>1. CountersInv' /\ Rises
    BY <1>1, <1>3, WriterCounts, FileCounts, CountDurableCounts, OpenSegmentCounts, Zenon DEF Writer
  <2>2. UNCHANGED <<now, producer, up, readers>> /\ wpc # "done"
    <3>1. CASE Take \/ Dequeue \/ BeginRecord \/ EndRecord \/ CountWritten \/ NoteMarket \/ Idle
      BY <3>1, Zenon DEF Take, Dequeue, BeginRecord, EndRecord, CountWritten, NoteMarket, Idle,
                  wRest, WStep
    <3>2. CASE Drained \/ Sync \/ BeginAck \/ EndAck \/ SyncAck \/ CountDurable \/ NoteDurable
      BY <3>2 DEF Drained, Sync, BeginAck, EndAck, SyncAck, CountDurable, NoteDurable, wRest, WStep
    <3>3. CASE \/ NoteSync \/ NoteMaxSync \/ BeginSeal \/ EndSeal \/ SyncSeal \/ OpenSegment
               \/ DropWriter
      BY <3>3 DEF NoteSync, NoteMaxSync, BeginSeal, EndSeal, SyncSeal, OpenSegment, DropWriter,
                  wRest, WStep
    <3> QED
      BY <1>3, <3>1, <3>2, <3>3, Zenon DEF Writer
  <2> QED
    BY <1>1, <2>1, <2>2 DEF producer, readers
<1> QED
  BY <1>2, <1>3

LEMMA TelemetryNext ==
  StreamInv /\ TelemetryInv /\ (CountersInv => CausalNow)' /\ [Next]_vars => TelemetryInv'
<1> SUFFICES ASSUME StreamInv, TelemetryInv, CountersInv' => CausalNow', [Next]_vars
             PROVE  TelemetryInv'
  OBVIOUS
<1>1. CASE reader # "sampler"
  <2>1. reader' = reader /\ samples' = samples
    <3>1. CASE Tick \/ Producer
      BY <3>1, Zenon DEF Tick, Producer, NoteSocket, CountReceipt, CountQueued, NotePeak, Send,
                  Leave, pRest, readers
    <3>2. CASE Writer
      BY <3>2, Zenon DEF Writer, Take, Dequeue, BeginRecord, EndRecord, CountWritten, NoteMarket,
                  Idle,
                  Drained, Sync, BeginAck, EndAck, SyncAck, CountDurable, NoteDurable, NoteSync,
                  NoteMaxSync, BeginSeal, EndSeal, SyncSeal, OpenSegment, DropWriter, wRest, readers
    <3>3. CASE Crash
      BY <3>3, Zenon DEF Crash
    <3>4. CASE LoadField \/ FinishSample \/ TerminalSample
      BY <1>1, <3>4, Zenon DEF LoadField, FinishSample, TerminalSample
    <3>5. CASE Follower
      BY <3>5, Zenon DEF Follower, Polled, OpenStream, Bind, ReadTail, VerifyLine, Advance, fRest
    <3>6. CASE UNCHANGED vars
      BY <3>6 DEF vars, readers
    <3> QED
      BY <3>1, <3>2, <3>3, <3>4, <3>5, <3>6, Zenon DEF Next
  <2> QED
    BY <1>1, <2>1, Zenon DEF TelemetryInv
<1>2. CASE reader = "sampler"
  <2>1. CASE Tick \/ Producer \/ Writer
    BY <1>2, <2>1, CountersNext, BesideSampler, Zenon
  <2>2. CASE LoadField \/ FinishSample \/ TerminalSample
    BY <2>2, LoadFieldInv, FinishSampleInv, TerminalSampleInv, Zenon
  <2>3. CASE Crash
    BY <1>2, <2>3, Zenon DEF Crash
  <2>4. CASE Follower \/ UNCHANGED vars
    <3>1. UNCHANGED <<now, h, ppc, pframe, chan, wpc, via, wmono, acked, raw, man, up, reader, spc,
                      sample, samples>>
      BY <2>4 DEF Follower, Polled, OpenStream, Bind, ReadTail, VerifyLine, Advance, fRest, vars,
                  producer, writer, files, readers
    <3>2. up /\ CountersInv
      BY <1>2, Zenon DEF TelemetryInv
    <3>3. CountersInv'
      BY <3>1, <3>2, SameCounters, Zenon
    <3>4. Rises
      <4>1. now \in Nat /\ \A f \in Counters : h[f] \in Nat
        BY <3>2, FieldNames DEF CountersInv, CountersTypeOK
      <4> QED
        BY <3>1, <4>1 DEF Rises
    <3> QED
      BY <1>2, <3>1, <3>2, <3>3, <3>4, BesideSampler, Zenon
  <2> QED
    BY <2>1, <2>2, <2>3, <2>4, Zenon DEF Next
<1> QED
  BY <1>1, <1>2
=============================================================================
