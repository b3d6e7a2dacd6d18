--------------------------- MODULE OverlapEvidence ---------------------------
(***************************************************************************)
(* The evidence that makes a planned rotation a handover                   *)
(* (rust/lob-replay/src/generation_handover.rs and the window functions of *)
(* observations.rs): a successor B is captured beside a predecessor A, and *)
(* once A is terminal and B's root segments are sealed, the overlap of A's *)
(* terminal segments with B's roots is derived, stored, and later          *)
(* recomputed from the two terminal generations.                           *)
(*                                                                         *)
(* Time is counted in ticks.  The venue sends depth update t and trade t   *)
(* in tick t; a socket that is late receives them with the next tick's,    *)
(* as one depth event and as one frame per trade.  A payload the venue     *)
(* sent differently to one socket is marked.  A book is its last update    *)
(* and the marked updates in it; its fingerprint forgets which ones.       *)
(***************************************************************************)
EXTENDS Integers, Sequences, FiniteSets, SequencesExt

CONSTANTS
  Rotation,      \* ticks from one planned slot to the next
  Segment,       \* ticks of a raw segment, and of the overlap
  Successor,     \* ticks the successor is captured
  MaxSkew,       \* a capture starts at most this long after its slot
  MaxStartup,    \* and needs at most this long to connect
  MaxStale,      \* a snapshot is at most this many updates old
  Freshness,     \* the startup grace and the deadline of market messages, in ticks
  MaxTrouble,    \* late deliveries and faults in a behaviour
  Index,         \* generation indices of the successor; the predecessor has 0
  None

Generation == {"A", "B"}
Stream == {"depth", "trade"}
Socket == Generation \X Stream
Fault == {"lost", "altered", "shutdown"}

VARIABLES
  now,           \* the current tick
  origin,        \* the tick in which each capture started
  snapshot,      \* the last update in B's snapshot
  index,         \* B's generation index, once it is read
  sent,          \* the last update and trade each socket has been sent
  frames,        \* what each socket has received
  late,          \* the late deliveries, as sockets
  faults,        \* lost, altered and control frames, and damaged files
  damaged,       \* segments, as socket and index, and files damaged after they were written
  pc,            \* the step of prove_raw_generation_handover
  read,          \* what its steps have read
  proof,         \* handover.json
  verdict        \* what its recomputation said
evidenceVars == <<now, origin, snapshot, sent, frames, late, faults,
                  damaged, pc, index, read, proof, verdict>>
venue == <<now, origin, snapshot, sent, frames, late>>

-----------------------------------------------------------------------------
(* The two captures.                                                        *)

HandoverSealGuard == Max({1, Min({Segment \div 10, 30})})
MaximumGenerationUnguarded == Rotation + Segment
MaximumGeneration == Rotation + Segment - HandoverSealGuard

Slot(g) == IF g = "A" THEN 1 ELSE 1 + Rotation
Duration(g) == IF g = "A" THEN MaximumGeneration ELSE Successor
Ended(g) == now >= origin[g] + Duration(g)

(* Writers seal a segment when a frame of the next one arrives, and the     *)
(* last when the capture ends.                                              *)
SegmentOf(frame) == frame.at \div Segment
Sealed(k) ==
  IF frames[k] = <<>> THEN 0
  ELSE SegmentOf(Last(frames[k])) + (IF Ended(k[1]) THEN 1 ELSE 0)
Entry(k, i) ==
  LET inside == {j \in DOMAIN frames[k] : SegmentOf(frames[k][j]) = i}
  IN [socket |-> k, segment |-> i, first |-> Min(inside), last |-> Max(inside)]
Manifest(k) == [i \in 1..Sealed(k) |-> Entry(k, i - 1)]
Records(e) == SubSeq(frames[e.socket], e.first, e.last)

EvidenceInit ==
  /\ now = 0
  /\ \E skew \in [Generation -> 0..MaxSkew] : origin = [g \in Generation |-> Slot(g) + skew[g]]
  /\ \E connect \in 0..MaxStartup, stale \in 0..MaxStale :
       /\ sent = [k \in Socket |-> origin[k[1]] - 1 + (IF k[1] = "B" THEN connect ELSE 0)]
       /\ snapshot = origin["B"] + connect - stale
  /\ frames = [k \in Socket |-> <<>>]
  /\ late = <<>> /\ faults = 0 /\ damaged = {}
  /\ pc = "waiting" /\ index = None /\ read = None /\ proof = None /\ verdict = None

(* What reaches a socket in tick t, in its capture's clock.        *)
Frame(k, t, n, first, final, kind, mark) ==
  [frame |-> Len(frames[k]) + n, at |-> t - origin[k[1]], kind |-> kind,
   first |-> first, final |-> final, mark |-> mark]
Sends(k, t, fault) ==
  LET mark == fault = "altered"
      batch == IF k[2] = "depth" THEN <<Frame(k, t, 1, sent[k] + 1, t, "data", mark)>>
               ELSE [i \in 1..(t - sent[k]) |->
                       Frame(k, t, i, sent[k] + i, sent[k] + i, "data", mark)]
  IN CASE fault = "lost" -> <<>>
       [] fault = "shutdown" -> Append(batch, Frame(k, t, Len(batch) + 1, 0, 0, "control", FALSE))
       [] OTHER -> batch

Receiving(k, t) == sent[k] < t /\ t < origin[k[1]] + Duration(k[1])

(* Lateness and faults are explored where the evidence is drawn from: A's   *)
(* terminal segments, B's roots, and the frames that seal them.             *)
Watched(k, t) ==
  IF k[1] = "A" THEN t >= origin["A"] + Rotation - 1 ELSE t <= origin["B"] + Segment

Tick ==
  LET t == now + 1 IN
  /\ t <= Slot("B") + MaxSkew + Successor
  /\ now' = t
  /\ \E lagging \in SUBSET {k \in Socket : Receiving(k, t) /\ Watched(k, t) /\ sent[k] = t - 1},
        fault \in {None} \cup (IF Len(late) + faults < MaxTrouble
                               THEN {k \in Socket : Receiving(k, t) /\ Watched(k, t)} \X Fault
                               ELSE {}) :
       LET to == {k \in Socket : Receiving(k, t)} \ lagging
           how(k) == IF fault # None /\ fault[1] = k THEN fault[2] ELSE None
       IN /\ fault # None => fault[1] \in to
          /\ late' = late \o SetToSeq(lagging)
          /\ faults' = faults + (IF fault = None THEN 0 ELSE 1)
          /\ Len(late') + faults' <= MaxTrouble
          /\ frames' = [k \in Socket |-> IF k \in to THEN frames[k] \o Sends(k, t, how(k))
                                         ELSE frames[k]]
          /\ sent' = [k \in Socket |-> IF k \in to THEN t ELSE sent[k]]
  /\ UNCHANGED <<origin, snapshot, damaged, pc, index, read, proof, verdict>>

StartFiles == {<<<<"B", "startup">>, 0>>, <<<<"B", "snapshot">>, 0>>}

(* A sealed segment, or B's startup or snapshot file, no longer holds what  *)
(* its digests say.                                                         *)
Damage ==
  /\ Ended("A") /\ verdict = None
  /\ Len(late) + faults < MaxTrouble
  /\ faults' = faults + 1
  /\ \E what \in StartFiles \cup UNION {{<<k, i - 1>> : i \in 1..Sealed(k)} : k \in Socket} :
       damaged' = damaged \cup {what}
  /\ UNCHANGED <<venue, pc, index, read, proof, verdict>>

-----------------------------------------------------------------------------
(* The windows (observations.rs).  None stands for Err.                     *)

Market(records) == SelectSeq(records, LAMBDA r : r.kind = "data")

State(book) == <<book.last, book.marks>>
StateFingerprint(book) == <<book.last, Cardinality(book.marks)>>
ApplyDepth(book, e) ==
  [last |-> e.final, marks |-> book.marks \cup (IF e.mark THEN e.first..e.final ELSE {})]

(* Events the snapshot already covers are skipped until the first one that  *)
(* applies; from then on each must bridge the book's next number.  The      *)
(* window is walked to its end whatever has been found in it.               *)
DrainedNever(applied, events) == TRUE
Drained(applied, events) == applied = events
Window(events, from) ==
  LET n == Len(events)
      old == Cardinality({i \in 1..n : \A j \in 1..i : events[j].final <= from})
      at[i \in old..n] == IF i = old THEN [last |-> from, marks |-> {}]
                          ELSE ApplyDepth(at[i - 1], events[i])
      bridges(i) == events[i].first <= at[i - 1].last + 1 /\ events[i].final >= at[i - 1].last + 1
      good == Cardinality({i \in (old + 1)..n : \A j \in (old + 1)..i : bridges(j)})
  IN [old |-> old, drained |-> Drained(old + good, n),
      books |-> [i \in 1..good |-> at[old + i]]]

(* The walk over both windows by final sequence: where they meet with equal *)
(* fingerprints and B's next event continues, the pair is a candidate.      *)
Meets(a, b, next, i, j) ==
  /\ StateFingerprint(a[i]) = StateFingerprint(b[j])
  /\ j \in DOMAIN next
  /\ next[j].first <= b[j].last + 1 /\ next[j].final >= b[j].last + 1
RECURSIVE Candidates(_, _, _, _, _)
Candidates(a, b, next, i, j) ==
  IF i > Len(a) \/ j > Len(b) THEN <<>>
  ELSE CASE a[i].last < b[j].last -> Candidates(a, b, next, i + 1, j)
         [] a[i].last > b[j].last -> Candidates(a, b, next, i, j + 1)
         [] OTHER -> (IF Meets(a, b, next, i, j) THEN <<<<i, j>>>> ELSE <<>>)
                       \o Candidates(a, b, next, i + 1, j + 1)

ReplayThrough(books, i) == State(books[i])
Newest(candidates, a, b) ==
  LET same == {c \in DOMAIN candidates :
                 ReplayThrough(a, candidates[c][1]) = ReplayThrough(b, candidates[c][2])}
  IN IF same = {} THEN None ELSE candidates[Max(same)]

LatestConvergence(recordsA, recordsB) ==
  LET eventsA == Market(recordsA)
      eventsB == Market(recordsB)
      a == Window(eventsA, snapshot)
      b == Window(eventsB, snapshot)
      next == SubSeq(eventsB, b.old + 2, Len(eventsB))
      meet == Newest(Candidates(a.books, b.books, next, 1, 1), a.books, b.books)
  IN IF ~a.drained \/ ~b.drained \/ meet = None THEN None
     ELSE [state |-> State(a.books[meet[1]]), predecessor |-> eventsA[a.old + meet[1]],
           successor |-> eventsB[b.old + meet[2]], continuation |-> next[meet[2]]]

TradeWindow(records) ==
  LET trades == Market(records)
  IN IF \A i \in 1..(Len(trades) - 1) : trades[i].final < trades[i + 1].final
     THEN trades ELSE None

-----------------------------------------------------------------------------
(* The evidence (generation_handover.rs).                                   *)

(* verify_segmented_generation, where it looks at the messages: the depth   *)
(* events bridge the generation's own snapshot and then each other (A's was *)
(* taken when it started, outside this module's window), and the market     *)
(* messages of a stream start, follow each other and end within the         *)
(* freshness deadline.  (Its other rules are in module GenerationArtifact.) *)
SnapshotOf(g) == IF g = "A" THEN origin["A"] - 1 ELSE snapshot
DepthContinuous(g) ==
  LET events == Market(frames[<<g, "depth">>])
      window == Window(events, SnapshotOf(g))
  IN window.books # <<>> /\ window.old + Len(window.books) = Len(events)
MarketFresh(k) ==
  LET events == Market(frames[k])
  IN /\ events # <<>> /\ events[1].at <= Freshness
     /\ \A i \in 1..(Len(events) - 1) : events[i + 1].at - events[i].at <= Freshness
     /\ Duration(k[1]) - Last(events).at <= Freshness
GenerationVerifies(g) ==
  /\ Ended(g) /\ \A d \in damaged : d[1][1] # g
  /\ DepthContinuous(g) /\ \A s \in Stream : MarketFresh(<<g, s>>)

(* startup.json, the snapshot record and its HTTP metadata were written      *)
(* whole before they were announced: their digest, identity and binding     *)
(* checks fail when one of them was damaged since.                          *)
SuccessorVerifies == StartFiles \cap damaged = {}

VerifiedSegment(e) ==
  IF e \in Range(Manifest(e.socket)) /\ <<e.socket, e.segment>> \notin damaged
  THEN e ELSE None
PublicationMatches(e, publication) == e.segment = 0 /\ e = publication
PublishedRoot(publication) ==
  LET entries == Manifest(<<"B", "depth">>)
  IN IF entries # <<>> /\ PublicationMatches(entries[1], publication) THEN VerifiedSegment(entries[1]) ELSE None
TerminalSegment(s) == Last(Manifest(<<"A", s>>))

CoversTerminal(a, b) == Last(b).final >= Last(a).final

DeriveDepth(entryA, entryB) ==
  LET meet == LatestConvergence(Records(entryA), Records(entryB))
  IN IF meet = None THEN None
     ELSE [predecessor |-> entryA, successor |-> entryB, convergence |-> meet]

DeriveTrade(entryA, entryB) ==
  LET a == TradeWindow(Records(entryA))
      b == TradeWindow(Records(entryB))
      lower == Max({a[1].final, b[1].final})
      upper == Min({Last(a).final, Last(b).final})
      common(w) == SelectSeq(w, LAMBDA x : x.final \in lower..upper)
      content(w) == [i \in DOMAIN common(w) |-> <<common(w)[i].final, common(w)[i].mark>>]
  IN IF a \in {None, <<>>} \/ b \in {None, <<>>} THEN None
     ELSE IF ~CoversTerminal(a, b) \/ Len(common(a)) < 2 \/ content(a) # content(b) THEN None
     ELSE [predecessor |-> entryA, successor |-> entryB, lower |-> lower, upper |-> upper,
           events |-> Len(common(a)), last |-> <<Last(common(a)), Last(common(b))>>]

TradeOverlapRoot(entryA) ==
  LET entries == Manifest(<<"B", "trade">>)
  IN IF entries = <<>> \/ entries[1].segment # 0 \/ VerifiedSegment(entries[1]) = None
     THEN None
     ELSE DeriveTrade(entryA, entries[1])

(* prove_raw_generation_handover, run by a thread of the campaign once A is *)
(* terminal and B has published its snapshot and both roots.  Each step     *)
(* reads files that B's capture is still extending.                         *)
ProofStep(from, to, ok, result) ==
  /\ pc = from
  /\ pc' = (IF ok THEN to ELSE "failed")
  /\ read' = (IF ok THEN result ELSE None)
  /\ UNCHANGED <<venue, faults, damaged, verdict>>

VerifyPredecessor ==
  /\ Ended("A") /\ \A s \in Stream : Sealed(<<"B", s>>) > 0
  /\ ProofStep("waiting", "successor", GenerationVerifies("A"),
               [publication |-> Entry(<<"B", "depth">>, 0)])
  /\ UNCHANGED <<index, proof>>

VerifySuccessor ==
  /\ index' \in Index
  /\ ProofStep("successor", "roots", SuccessorVerifies /\ index' > 0, read)
  /\ UNCHANGED proof

ReadRoots ==
  LET depth == PublishedRoot(read.publication)
      trade == TradeOverlapRoot(TerminalSegment("trade"))
  IN /\ pc = "roots"
     /\ ProofStep("roots", "evidence", depth # None /\ trade # None,
                  [depth |-> depth, trade |-> trade])
     /\ UNCHANGED <<index, proof>>

StoreEvidence ==
  LET depth == DeriveDepth(TerminalSegment("depth"), read.depth)
  IN /\ pc = "evidence"
     /\ ProofStep("evidence", "stored", depth # None, None)
     /\ proof' = (IF depth = None THEN None
                  ELSE [index |-> index, depth |-> depth, trade |-> read.trade])
     /\ UNCHANGED index

ValidProof(p) == p.index = 1 /\ p.trade.events >= 2 /\ p.trade.lower <= p.trade.upper

NewestEntry(reference) == Last(Manifest(reference.socket))
EntryForReference(reference) ==
  LET entries == Manifest(reference.socket)
  IN IF reference \in Range(entries) THEN reference ELSE None

(* verify_terminal_raw_generation_handover, after B has ended: nothing of   *)
(* the stored proof but its references is used.                             *)
Recomputed(p) ==
  LET depth == EntryForReference(p.depth.successor)
      trade == EntryForReference(p.trade.successor)
  IN IF depth = None \/ trade = None THEN None
     ELSE IF VerifiedSegment(depth) = None \/ VerifiedSegment(trade) = None THEN None
     ELSE [index |-> index, depth |-> DeriveDepth(TerminalSegment("depth"), depth),
           trade |-> DeriveTrade(TerminalSegment("trade"), trade)]

VerifyTerminal ==
  /\ proof # None /\ verdict = None /\ Ended("B")
  /\ verdict' = (/\ ValidProof(proof)
                 /\ GenerationVerifies("A") /\ GenerationVerifies("B")
                 /\ SuccessorVerifies /\ index = 1
                 /\ Recomputed(proof) = proof)
  /\ UNCHANGED <<venue, faults, damaged, pc, index, read, proof>>

EvidenceNext ==
  \/ Tick \/ Damage
  \/ VerifyPredecessor \/ VerifySuccessor \/ ReadRoots \/ StoreEvidence
  \/ VerifyTerminal

EvidenceSpec == EvidenceInit /\ [][EvidenceNext]_evidenceVars

-----------------------------------------------------------------------------
(* The boundary is the last update with which events of both windows end,   *)
(* leaving the same book, and which an event of B's root continues.         *)
LatestBoundary ==
  proof # None =>
    LET c == proof.depth.convergence
        a == Market(Records(proof.depth.predecessor))
        b == Market(Records(proof.depth.successor))
        altered(w, x) == UNION {w[i].first..w[i].final :
                                  i \in {i \in DOMAIN w : w[i].mark /\ snapshot < w[i].final
                                                          /\ w[i].final <= x}}
        ends(w) == {w[i].final : i \in DOMAIN w}
    IN c.predecessor.final =
         Max({x \in ends(a) \cap ends(b) : /\ snapshot < x
                                           /\ altered(a, x) = altered(b, x)
                                           /\ \E y \in ends(b) : y > x})

(* A stored proof covers the handover: from B's snapshot on, A's depth      *)
(* events up to the boundary and B's from the continuation to the end of    *)
(* its root follow each other without a hole and carry the same book at the *)
(* boundary, and every trade A recorded from the first common one on is in  *)
(* B's root with the same content, and none of B's in between is missing    *)
(* from A.  The boundary is the latest possible.                            *)
ProofCovers ==
  proof # None =>
    LET d == proof.depth
        joined == SelectSeq(Market(Records(d.predecessor)), LAMBDA e :
                              snapshot < e.final /\ e.final <= d.convergence.predecessor.final)
                  \o SelectSeq(Market(Records(d.successor)), LAMBDA e :
                                 e.frame >= d.convergence.continuation.frame)
        altered(e) == {x \in (snapshot + 1)..d.convergence.predecessor.final :
                         \E r \in Range(Records(e)) : r.mark /\ x \in r.first..r.final}
        trades(e) == {<<r.final, r.mark>> : r \in Range(Market(Records(e)))}
        t == proof.trade
    IN /\ LatestBoundary
       /\ joined[1].first <= snapshot + 1
       /\ \A i \in 1..(Len(joined) - 1) : joined[i + 1].first <= joined[i].final + 1
                                          /\ joined[i + 1].final > joined[i].final
       /\ altered(d.predecessor) = altered(d.successor)
       /\ {x \in trades(t.predecessor) : x[1] >= t.lower}
            = {x \in trades(t.successor) : x[1] >= t.lower
                 /\ x[1] <= Max({y[1] : y \in trades(t.predecessor)})}

(* A proof taken while B was still being captured is reproduced exactly by  *)
(* the recomputation from the terminal generations, whatever B wrote since: *)
(* it is refused only when a file was damaged, when B is not the next       *)
(* generation, or when B did not verify as a generation, because a depth    *)
(* update is missing after its snapshot or a stream fell silent.            *)
ProofReproduced ==
  verdict # None =>
    LET held == UNION {e.first..e.final : e \in Range(Market(frames[<<"B", "depth">>]))}
    IN verdict <=> /\ index = 1 /\ damaged = {}
                   /\ (snapshot + 1)..Max(held) \subseteq held
                   /\ \A s \in Stream : MarketFresh(<<"B", s>>)

(* A planned handover is provable: the seal guard absorbs what A starts     *)
(* later than B, and one late delivery, so that the proof fails only after  *)
(* a fault, when B's snapshot does not fall inside A's terminal segment, or *)
(* when fewer than two trades of that segment are left for B.               *)
PlannedHandoverProves ==
  pc = "failed" =>
    LET terminal == Records(TerminalSegment("depth"))
        skew == (origin["A"] - Slot("A")) - (origin["B"] - Slot("B"))
    IN \/ faults > 0
       \/ skew + Len(late) > HandoverSealGuard
       \/ snapshot + 1 < terminal[1].first
       \/ snapshot + Len(late) >= Last(terminal).final
       \/ Last(frames[<<"A", "trade">>]).final < frames[<<"B", "trade">>][1].first + 1
=============================================================================
