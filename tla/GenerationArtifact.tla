------------------------- MODULE GenerationArtifact -------------------------
(* verify_segmented_generation (generation_artifact.rs): the offline check   *)
(* of one generation, on what its manifest declares of a stream and what its *)
(* files hold.  A stream is a record                                         *)
(*   received, written, durable, shutdowns, market  (declared)               *)
(*   journal   the transport journal                                         *)
(*   raw       the records of all segments, [mono, kind]                     *)
(*   entries   the sealed segments, <<first, last>> record numbers           *)
(*   acks      the record numbers the progress journals acknowledge.         *)
(* Digests, identities and payload fields are taken as the capture wrote     *)
(* them; the market-freshness gate is left out: the capture does not enforce *)
(* it, so a COMPLETE generation may fail it.                                 *)
EXTENDS Integers, Sequences, FiniteSets, TransportJournal

Records(g, kind) == {i \in DOMAIN g.raw : g.raw[i].kind = kind}

\* The receipt time of the last market record; 0 when there is none.
LastMarket(g) ==
  LET m == Records(g, "market")
  IN IF m = {} THEN 0 ELSE g.raw[CHOOSE i \in m : \A j \in m : j <= i].mono

\* scan_segment_manifest and verify_segment_manifest_files: the entries form a
\* chain without a gap, from the first record, over records that are there.
ChainedSegments(g) ==
  /\ g.entries # <<>>
  /\ \A i \in DOMAIN g.entries :
       /\ g.entries[i][1] = (IF i = 1 THEN 1 ELSE g.entries[i - 1][2] + 1)
       /\ g.entries[i][1] <= g.entries[i][2]
       /\ g.entries[i][2] <= Len(g.raw)

\* The per-segment loop: the progress journal ends at the seal, every record
\* belongs to its segment's time window, receipt times never go back, and each
\* serverShutdown record has an acknowledgement of its own.
SegmentRecordsValid(g, segmentTicks) ==
  \A i \in DOMAIN g.entries :
    /\ g.entries[i][2] \in g.acks
    /\ \A r \in g.entries[i][1]..g.entries[i][2] :
         /\ g.raw[r].mono \div segmentTicks = i - 1
         /\ r > 1 => g.raw[r - 1].mono <= g.raw[r].mono
         /\ g.raw[r].kind = "shutdown" => r \in g.acks

\* The terminal comparison of the records with what the manifest declares.
TerminalLineage(g) ==
  /\ g.entries[Len(g.entries)][2] = g.received /\ Len(g.raw) = g.received
  /\ LastMarket(g) = g.market
  /\ Cardinality(Records(g, "shutdown")) = g.shutdowns
  /\ Records(g, "market") # {}

\* validate_stream, without its freshness gate.
ValidateStream(g, segmentTicks) ==
  /\ g.received > 0 /\ g.received = g.written /\ g.written = g.durable
  /\ Seals(g.journal) /\ Classification(g.journal) = "CLEAN_CLIENT_STOP"
  /\ ChainedSegments(g)
  /\ SegmentRecordsValid(g, segmentTicks)
  /\ TerminalLineage(g)
=============================================================================
