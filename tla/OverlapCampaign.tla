-------------------------- MODULE OverlapCampaign --------------------------
(***************************************************************************)
(* The live overlap campaign (rust/lob-replay/src/bin/                     *)
(* live_overlap_campaign.rs): two captures A and B run side by side, the   *)
(* campaign freezes their durable prefixes until both streams converge,    *)
(* commits one boundary per stream (splice.rs, boundary.rs), transfers the *)
(* ownership (module LiveRotation) and publishes B's durable continuation  *)
(* to the canonical outputs (canonical_output.rs).                         *)
(*                                                                         *)
(* A raw log is its frames; a frame is the range of sequence numbers it    *)
(* carries, or Control for a serverShutdown message.  What a capture has   *)
(* durably acknowledged is a prefix, counted in frames.  The digest of a   *)
(* book or trade is its last sequence number: both sides are rebuilt from  *)
(* B's snapshot.  Deadlines may expire in any pass of their loop, and the  *)
(* progress watchdog may stop any pass.  An append that fails, or during   *)
(* which the process stops, leaves the record absent, torn or complete.    *)
(***************************************************************************)
EXTENDS LiveRotation, SequencesExt

CONSTANTS
  EpochFor,   \* the connection epoch of each source's streams
  Contents,   \* what the venue may have sent: frames per source and stream, B's snapshot
  Control     \* a serverShutdown frame

Source == {"A", "B"}

VARIABLES
  pc,         \* the campaign's next step, and the stream it is for
  clock,      \* deadlines passed: none, the qualification's, the campaign's
  content,    \* what the sources receive in this behaviour
  ack,        \* durably acknowledged frames, per source and stream
  child,      \* the capture processes: RUNNING, COMPLETE or FAILED
  pair,       \* the frozen prefixes of the attempt that converged
  boundary,   \* the boundaries derived from it
  journal,    \* the boundary journals: their records and a torn tail
  output,     \* the canonical outputs: their records and a torn tail
  cursor,     \* frames of the owner already offered to the output
  target,     \* the acknowledgement a delta reads up to
  before,     \* frames of B received before the activation
  post        \* streams with a publication received after it
campaignVars == <<pc, clock, content, ack, child, pair, boundary, journal, output,
                  cursor, target, before, post>>
overlapVars == <<rotationVars, campaignVars>>

-----------------------------------------------------------------------------
(* materialize_depth_observations: leading frames that B's snapshot already *)
(* covers are skipped, every later one must bridge the book's next number.  *)
(* None stands for Err.                                                     *)
Bridges(f, last) == f.first <= last + 1 /\ f.final >= last + 1
MaterializeDepth(frames) ==
  LET n == Len(frames)
      old == Cardinality({i \in 1..n : \A j \in 1..i :
                            frames[j] # Control /\ frames[j].final <= content.snapshot})
  IN IF /\ old < n
        /\ \A i \in (old + 1)..n : frames[i] # Control
             /\ Bridges(frames[i], IF i = old + 1 THEN content.snapshot ELSE frames[i - 1].final)
     THEN [i \in 1..(n - old) |-> [first |-> frames[old + i].first,
                                   final |-> frames[old + i].final, frame |-> old + i]]
     ELSE None

(* materialize_trade_observations: ids must increase.                       *)
MaterializeTrade(frames) ==
  IF /\ frames # <<>> /\ \A i \in 1..Len(frames) : frames[i] # Control
     /\ \A i \in 2..Len(frames) : frames[i].final > frames[i - 1].final
  THEN [i \in 1..Len(frames) |->
         [first |-> frames[i].first, final |-> frames[i].final, frame |-> i]]
  ELSE None

Materialize(k, frames) ==
  IF k = "DEPTH" THEN MaterializeDepth(frames) ELSE MaterializeTrade(frames)

(* freeze_durable_raw_prefix: exactly the acknowledged frames.              *)
\* Mutant: the whole raw file is frozen, acknowledged or not.
FrozenUnacknowledged(s, k, n) == content.frames[s][k]
Frozen(s, k, n) == SubSeq(content.frames[s][k], 1, n)

(* freeze_pair: it succeeds once every stream has an acknowledgement and    *)
(* its prefix can be materialized.                                          *)
FreezePair ==
  {p \in {[acks |-> ack,
           seen |-> [s \in Source |-> [k \in Kind |-> Materialize(k, Frozen(s, k, ack[s][k]))]]]} :
     \A s \in Source, k \in Kind : p.seen[s][k] # None}

-----------------------------------------------------------------------------
(* derive_handover_boundary: the last frame of B that ends where one of A   *)
(* ends and that B itself continues.                                        *)
ContinuesBoundary(k, a, b, next) ==
  IF k = "DEPTH" THEN next.first <= b.final + 1 /\ next.final >= b.final + 1
  ELSE /\ a.first = b.final /\ b.first = b.final
       /\ next.first = b.final + 1 /\ next.final = b.final + 1

Splices(k, as, bs) ==
  {w \in (1..Len(as)) \X (1..(Len(bs) - 1)) :
     /\ as[w[1]].final = bs[w[2]].final
     /\ ContinuesBoundary(k, as[w[1]], bs[w[2]], bs[w[2] + 1])}

(* HandoverBoundaryV1::validate                                             *)
ValidBoundary(b) ==
  /\ b.pred # b.succ
  /\ b.firstFrame > b.succFrame
  /\ b.durable["A"] >= b.predFrame /\ b.durable["B"] >= b.firstFrame

DeriveBoundary(k, p) ==
  LET as == p.seen["A"][k] bs == p.seen["B"][k] ws == Splices(k, as, bs) IN
  {b \in {[pred |-> EpochFor["A"][k], succ |-> EpochFor["B"][k], seq |-> as[w[1]].final,
           predFrame |-> as[w[1]].frame, succFrame |-> bs[w[2]].frame,
           firstFrame |-> bs[w[2] + 1].frame,
           durable |-> [s \in Source |-> p.acks[s][k]]] :
          w \in {w \in ws : \A v \in ws : v[2] <= w[2]}} : ValidBoundary(b)}

Converges(p) == \A k \in Kind : DeriveBoundary(k, p) # {}

Proof(k) == [pred |-> boundary[k].pred, succ |-> boundary[k].succ, seq |-> boundary[k].seq]
PredecessorBoundary(k) ==
  CHOOSE o \in ToSet(pair.seen["A"][k]) : o.frame = boundary[k].predFrame

-----------------------------------------------------------------------------
(* The journals and outputs: append_and_sync and append_record.             *)
NoFile == [records |-> <<>>, torn |-> FALSE]
Appended(f, r) == [f EXCEPT !.records = Append(@, r)]
(* What a failed append, or a stop during it, may leave.                    *)
Damaged(f, r) == {f, [f EXCEPT !.torn = TRUE], Appended(f, r)}

(* scan_boundary_journal: one proposal, then its commit.                    *)
ValidJournalRecord(rs, i) ==
  \/ i = 1 /\ rs[1].action = "PROPOSED" /\ ValidBoundary(rs[1].boundary)
  \/ i = 2 /\ rs[2].action = "COMMITTED"
CleanJournal(f) == ~f.torn /\ \A i \in 1..Len(f.records) : ValidJournalRecord(f.records, i)
(* load_committed_boundary_proof                                            *)
CommittedProof(k) ==
  /\ CleanJournal(journal[k]) /\ Len(journal[k].records) = 2
  /\ journal[k].records[1].boundary = boundary[k]

(* validate_scanned_record of the canonical output: record r after one that *)
(* left this owner.                                                         *)
ContinuesOutput(k, last, o) ==
  IF k = "DEPTH" THEN o.first <= last + 1 /\ o.final >= last + 1
  ELSE o.first = last + 1 /\ o.final = last + 1
ValidRecord(k, owner, r) ==
  \/ r.action = "INITIALIZED" /\ owner = None
  \/ /\ r.action = "OBSERVATION" /\ owner # None
     /\ ContinuesOutput(k, owner.last, r.observation)
     /\ r.observation.epoch = owner.epoch
     /\ r.owner = [owner EXCEPT !.last = r.observation.final]
  \/ /\ r.action = "OWNERSHIP_CHANGED" /\ owner # None
     /\ r.owner.epoch # owner.epoch /\ r.owner.token = owner.token + 1
     /\ r.owner.last = owner.last

(* scan_canonical_output: the records up to the first it refuses.           *)
ValidThrough(k, n) ==
  LET rs == output[k].records IN
    \A i \in 1..n : ValidRecord(k, IF i = 1 THEN None ELSE rs[i - 1].owner, rs[i])
ScanOutput(k) ==
  LET rs == output[k].records IN
    SubSeq(rs, 1, CHOOSE n \in 0..Len(rs) :
                    ValidThrough(k, n) /\ (n = Len(rs) \/ ~ValidThrough(k, n + 1)))
CleanOutput(k) == ScanOutput(k) = output[k].records /\ ~output[k].torn
OwnershipChanges(k) ==
  Cardinality({i \in 1..Len(ScanOutput(k)) : ScanOutput(k)[i].action = "OWNERSHIP_CHANGED"})
Published(k) == SelectSeq(ScanOutput(k), LAMBDA r : r.action = "OBSERVATION")

(* The writer's owner: the last record it appended.                         *)
OutputOwner(k) == output[k].records[Len(output[k].records)].owner

(* publish: the fence of the output, then its continuity.                   *)
Publishable(k, epoch, o) ==
  epoch = OutputOwner(k).epoch /\ ContinuesOutput(k, OutputOwner(k).last, o)
ObservationRecord(k, epoch, o) ==
  [action |-> "OBSERVATION", owner |-> [OutputOwner(k) EXCEPT !.last = o.final],
   observation |-> [first |-> o.first, final |-> o.final, frame |-> o.frame, epoch |-> epoch]]

(* change_owner                                                             *)
MayChangeOwner(k) ==
  /\ boundary[k].succ # OutputOwner(k).epoch
  /\ boundary[k].seq = OutputOwner(k).last
ChangeRecord(k) ==
  [action |-> "OWNERSHIP_CHANGED",
   owner |-> [epoch |-> boundary[k].succ, token |-> 2, last |-> boundary[k].seq]]

-----------------------------------------------------------------------------
At(step) == pc[1] = step
Goto(step, k) == pc' = <<step, k>>

(* Err ends the campaign, and dropping the guards kills the captures.       *)
Ends ==
  /\ Goto("ENDED", "DEPTH")
  /\ child' = [s \in Source |-> IF child[s] = "RUNNING" THEN "FAILED" ELSE child[s]]

Alive == \A s \in Source : child[s] = "RUNNING"

(* One append of the campaign to file[k]: it continues, or ends there.      *)
AppendsTo(f, k, r, step, next) ==
  \/ f' = [f EXCEPT ![k] = Appended(@, r)] /\ Goto(step, next) /\ UNCHANGED child
  \/ (\E d \in Damaged(f[k], r) : f' = [f EXCEPT ![k] = d]) /\ Ends

-----------------------------------------------------------------------------
(* The captures and the clock.  What they do is only looked at in these     *)
(* steps, so they move there: a change during another step is one just      *)
(* before the next look.                                                    *)
Watched == pc[1] \in {"QUALIFY", "CHECK", "TAIL", "DELTA", "FINISH"}
Advance(s, k) ==
  /\ Watched
  /\ child[s] = "RUNNING"
  /\ ack' = [ack EXCEPT ![s][k] = @ + 1]
  /\ ack'[s][k] <= Len(content.frames[s][k])
  /\ UNCHANGED <<rotationVars, pc, clock, content, child, pair, boundary, journal, output,
                 cursor, target, before, post>>
ChildStops(s) ==
  /\ Watched
  /\ child[s] = "RUNNING"
  /\ child' \in {[child EXCEPT ![s] = "COMPLETE"], [child EXCEPT ![s] = "FAILED"]}
  /\ UNCHANGED <<rotationVars, pc, clock, content, ack, pair, boundary, journal, output,
                 cursor, target, before, post>>
DeadlinePasses ==
  /\ Watched /\ clock < 2
  /\ clock' = clock + 1
  /\ UNCHANGED <<rotationVars, pc, content, ack, child, pair, boundary, journal, output,
                 cursor, target, before, post>>

-----------------------------------------------------------------------------
(* One pass of the qualification loop.                                      *)
\* Mutant: the loop only ever waits for convergence.
QualifyForever ==
  /\ At("QUALIFY")
  /\ Goto("PROPOSE", "DEPTH") /\ UNCHANGED child
  /\ \E p \in FreezePair :
       /\ pair' = p
       /\ \E d \in DeriveBoundary("DEPTH", p), t \in DeriveBoundary("TRADE", p) :
            boundary' = [DEPTH |-> d, TRADE |-> t]
  /\ UNCHANGED <<rotationVars, clock, content, ack, journal, output, cursor, target, before, post>>
Qualify ==
  /\ At("QUALIFY")
  /\ \/ ~Alive /\ Ends /\ UNCHANGED <<pair, boundary>>
     \/ /\ Goto("PROPOSE", "DEPTH") /\ UNCHANGED child
        /\ Alive
        /\ \E p \in FreezePair :
             /\ pair' = p
             /\ \E d \in DeriveBoundary("DEPTH", p), t \in DeriveBoundary("TRADE", p) :
                  boundary' = [DEPTH |-> d, TRADE |-> t]
     \/ /\ Ends /\ UNCHANGED <<pair, boundary>>
        /\ Alive /\ clock > 0 /\ ~\E p \in FreezePair : Converges(p)
  /\ UNCHANGED <<rotationVars, clock, content, ack, journal, output, cursor, target, before, post>>

(* observe_capture_progress finds a stream without progress for too long.   *)
WatchdogStops ==
  /\ At("QUALIFY") \/ At("TAIL")
  /\ Ends
  /\ UNCHANGED <<rotationVars, clock, content, ack, pair, boundary, journal, output, cursor,
                 target, before, post>>

(* commit_boundary for one stream and then the other: propose, commit,      *)
(* read back.                                                               *)
Propose ==
  /\ At("PROPOSE")
  /\ AppendsTo(journal, pc[2], [action |-> "PROPOSED", boundary |-> boundary[pc[2]]],
               "COMMIT", pc[2])
  /\ UNCHANGED <<rotationVars, clock, content, ack, pair, boundary, output, cursor, target,
                 before, post>>
Commit ==
  /\ At("COMMIT")
  /\ IF pc[2] = "DEPTH"
     THEN AppendsTo(journal, "DEPTH", [action |-> "COMMITTED"], "PROPOSE", "TRADE")
     ELSE AppendsTo(journal, "TRADE", [action |-> "COMMITTED"], "CREATE", "DEPTH")
  /\ UNCHANGED <<rotationVars, clock, content, ack, pair, boundary, output, cursor, target,
                 before, post>>

(* CanonicalOutputWriter::create, one number before A's boundary frame, and *)
(* the publication of that frame.                                           *)
InitialRecord(e, last) ==
  [action |-> "INITIALIZED", owner |-> [epoch |-> e, token |-> 1, last |-> last]]
Create ==
  /\ At("CREATE")
  /\ LET k == pc[2] IN
       AppendsTo(output, k, InitialRecord(boundary[k].pred, PredecessorBoundary(k).first - 1),
                 "BOUNDARY", k)
  /\ UNCHANGED <<rotationVars, clock, content, ack, pair, boundary, journal, cursor, target,
                 before, post>>
PublishBoundary ==
  /\ At("BOUNDARY")
  /\ LET k == pc[2] o == PredecessorBoundary(k) r == ObservationRecord(k, boundary[k].pred, o) IN
       /\ Publishable(k, boundary[k].pred, o)
       /\ IF k = "DEPTH" THEN AppendsTo(output, k, r, "CREATE", "TRADE")
          ELSE AppendsTo(output, k, r, "LEDGER", "DEPTH")
  /\ UNCHANGED <<rotationVars, clock, content, ack, pair, boundary, journal, cursor, target,
                 before, post>>

(* live_handover: the controller as its calls leave it, A active and B      *)
(* converged at the boundary.                                               *)
LiveHandover ==
  LET book(e) == [epoch |-> e, state |-> "ACTIVE", id |-> boundary["DEPTH"].seq,
                  digest |-> boundary["DEPTH"].seq]
  IN /\ publication' = "HANDOVER"
     /\ active' = book(boundary["DEPTH"].pred)
     /\ candidate' = [book(boundary["DEPTH"].succ) EXCEPT !.state = "LIVE"]
     /\ draining' = None /\ failures' = {}
     /\ usedEpochs' = {boundary["DEPTH"].pred, boundary["DEPTH"].succ}

(* The ledger of the initial owner A, the pointer and the coordinator.      *)
InitialOwner ==
  [epoch |-> [k \in Kind |-> boundary[k].pred], token |-> 1,
   last |-> [k \in Kind |-> boundary[k].seq]]
CreateLedger ==
  LET r == [action |-> "INITIALIZED", owner |-> InitialOwner] IN
  /\ At("LEDGER")
  /\ \/ /\ ledger' = <<r>> /\ synced' = 1 /\ torn' = FALSE
        /\ writer' = [owner |-> InitialOwner, pending |-> None, poisoned |-> FALSE]
        /\ pointer' = [owner |-> InitialOwner, state |-> "LIVE"]
        /\ LiveHandover
        /\ coupled' = TRUE
        /\ lineage' = [k \in Kind |->
             [n \in 1..boundary[k].seq |-> [epoch |-> boundary[k].pred, token |-> 1]]]
        /\ Goto("ACTIVATE", "DEPTH") /\ UNCHANGED child
     \/ /\ \E n \in {0, 1} : ledger' = SubSeq(<<r>>, 1, n) /\ torn' \in {FALSE, n = 0}
        /\ Ends
        /\ UNCHANGED <<handoverVars, synced, writer, pointer, coupled, lineage>>
  /\ UNCHANGED <<rotation, clock, content, ack, pair, boundary, journal, output, cursor,
                 target, before, post>>

(* activate_committed with the proofs read back from the journals.          *)
ActivateCommitted ==
  /\ At("ACTIVATE")
  /\ \/ /\ \A k \in Kind : CommittedProof(k)
        /\ Prepare([k \in Kind |-> Proof(k)])
        /\ IF rotation' = None THEN Ends ELSE UNCHANGED <<pc, child>>
     \/ Activate /\ IF rotation' = None THEN Ends ELSE UNCHANGED <<pc, child>>
     \/ /\ Rescan
        /\ IF pointer'.state = "LIVE" THEN Goto("CHANGE", "DEPTH") /\ UNCHANGED child ELSE Ends
     \/ RescanFails /\ Ends
  /\ UNCHANGED <<clock, content, ack, pair, boundary, journal, output, cursor, target,
                 before, post>>

ChangeOwner ==
  /\ At("CHANGE")
  /\ LET k == pc[2] IN
       IF MayChangeOwner(k)
       THEN IF k = "DEPTH" THEN AppendsTo(output, k, ChangeRecord(k), "CHANGE", "TRADE")
            ELSE AppendsTo(output, k, ChangeRecord(k), "CHECK", "DEPTH")
       ELSE Ends /\ UNCHANGED output
  /\ UNCHANGED <<rotationVars, clock, content, ack, pair, boundary, journal, cursor, target,
                 before, post>>

(* Both captures must be alive at the activation; what B received later     *)
(* counts as its continuation.  The probe of the fenced predecessor is a    *)
(* rejection, and no step.                                                  *)
CheckActivation ==
  /\ At("CHECK")
  /\ \/ /\ Alive /\ Goto("PREFIX", "DEPTH") /\ UNCHANGED child
        /\ cursor' = [k \in Kind |-> 0]
        /\ before' \in {n \in [Kind -> 0..MaxSequence] :
             \A k \in Kind : n[k] \in {ack["B"][k], Len(content.frames["B"][k])}}
     \/ ~Alive /\ Ends /\ UNCHANGED <<cursor, before>>
  /\ UNCHANGED <<rotationVars, clock, content, ack, pair, boundary, journal, output, target, post>>

-----------------------------------------------------------------------------
(* accept_observation, then publish.                                        *)
Publishes(k, o, step, next) ==
  LET e == EpochFor["B"][k] IN
  /\ AcceptObservation(k, e, 2, o.first, o.final)
  /\ IF Continuity(k, o.first, o.final) /\ Publishable(k, e, o)
     THEN AppendsTo(output, k, ObservationRecord(k, e, o), step, next)
     ELSE Ends /\ UNCHANGED output

(* The frozen prefix of B past the boundary, then the cursor it leaves.     *)
\* Mutant: what the frozen prefix holds past the boundary is not published.
PrefixSelectsNothing(k, o) == FALSE
PrefixSelects(k, o) == o.frame >= boundary[k].firstFrame /\ o.final > pointer.owner.last[k]

PublishPrefix ==
  LET k == pc[2] obs == pair.seen["B"][k] IN
  /\ At("PREFIX")
  /\ IF cursor[k] < Len(obs)
     THEN /\ cursor' = [cursor EXCEPT ![k] = @ + 1]
          /\ IF PrefixSelects(k, obs[cursor[k] + 1])
             THEN Publishes(k, obs[cursor[k] + 1], "PREFIX", k)
             ELSE UNCHANGED <<rotationVars, output, pc, child>>
     ELSE /\ cursor' = [cursor EXCEPT ![k] = pair.acks["B"][k]]
          /\ IF k = "DEPTH" THEN Goto("PREFIX", "TRADE") ELSE Goto("TAIL", "DEPTH")
          /\ UNCHANGED <<rotationVars, output, child>>
  /\ UNCHANGED <<clock, content, ack, pair, boundary, journal, target, before, post>>

(* One pass of the tail loop, up to the first acknowledgement it reads.     *)
TailPass ==
  /\ At("TAIL")
  /\ \/ clock < 2 /\ ~Alive /\ Ends /\ UNCHANGED target
     \/ /\ clock < 2 /\ Alive
        /\ target' = ack["B"]["DEPTH"] /\ Goto("DELTA", "DEPTH") /\ UNCHANGED child
     \/ clock = 2 /\ Goto("FINISH", "DEPTH") /\ UNCHANGED <<target, child>>
  /\ UNCHANGED <<rotationVars, clock, content, ack, pair, boundary, journal, output, cursor,
                 before, post>>

(* ChildGuard::finish of A and of B.                                        *)
FinishChildren ==
  /\ At("FINISH") /\ \A s \in Source : child[s] # "RUNNING"
  /\ IF \A s \in Source : child[s] = "COMPLETE"
     THEN target' = ack["B"]["DEPTH"] /\ Goto("LAST", "DEPTH") /\ UNCHANGED child
     ELSE Ends /\ UNCHANGED target
  /\ UNCHANGED <<rotationVars, clock, content, ack, pair, boundary, journal, output, cursor,
                 before, post>>

(* publish_successor_delta, a record at a time: a serverShutdown is skipped *)
(* by the depth cursor and refused as a trade.                              *)
NextRecord(k) == content.frames["B"][k][cursor[k] + 1]
DeltaRecord ==
  LET k == pc[2] f == NextRecord(k) IN
  /\ pc[1] \in {"DELTA", "LAST"} /\ cursor[k] < target
  /\ cursor' = [cursor EXCEPT ![k] = @ + 1]
  /\ IF f = Control
     THEN /\ IF k = "DEPTH" THEN UNCHANGED <<pc, child>> ELSE Ends
          /\ UNCHANGED <<rotationVars, output, post>>
     ELSE /\ Publishes(k, [first |-> f.first, final |-> f.final, frame |-> cursor[k] + 1],
                       pc[1], k)
          /\ post' = IF At("ENDED")' \/ cursor[k] + 1 <= before[k] THEN post ELSE post \union {k}
  /\ UNCHANGED <<clock, content, ack, pair, boundary, journal, target, before>>

(* The end of one stream's delta.                                           *)
DeltaEnds ==
  /\ pc[1] \in {"DELTA", "LAST"} /\ cursor[pc[2]] = target
  /\ IF pc[2] = "DEPTH" THEN target' = ack["B"]["TRADE"] /\ Goto(pc[1], "TRADE")
     ELSE target' = 0 /\ Goto(IF At("DELTA") THEN "TAIL" ELSE "FINAL", "DEPTH")
  /\ UNCHANGED <<rotationVars, clock, content, ack, child, pair, boundary, journal, output,
                 cursor, before, post>>

(* The checks that the report rests on.                                     *)
FinalRecovery ==
  \A k \in Kind : /\ CleanOutput(k) /\ OwnershipChanges(k) = 1
                  /\ OutputOwner(k).last = pointer.owner.last[k]
Report ==
  /\ At("FINAL")
  /\ IF post = Kind /\ FinalRecovery THEN Goto("DONE", "DEPTH") /\ UNCHANGED child ELSE Ends
  /\ UNCHANGED <<rotationVars, clock, content, ack, pair, boundary, journal, output, cursor,
                 target, before, post>>

-----------------------------------------------------------------------------
(* The library's recovery of an output once the campaign has ended: its     *)
(* readable prefix, a writer that continues it, and the raw position of its *)
(* last observation in the stream of its owner.                             *)
OwnerSource(k) == CHOOSE s \in Source : EpochFor[s][k] = OutputOwner(k).epoch
RecoverPrefix(k) == [records |-> ScanOutput(k), torn |-> FALSE]
DurableCursor(k) ==
  LET o == Published(k)[Len(Published(k))].observation IN
    {n \in {o.frame} : o.epoch = OutputOwner(k).epoch /\ n <= ack[OwnerSource(k)][k]}

Resume(k) ==
  /\ At("ENDED") /\ Published(k) # <<>>
  /\ output' = [output EXCEPT ![k] = RecoverPrefix(k)]
  /\ \E n \in DurableCursor(k) : cursor' = [cursor EXCEPT ![k] = n]
  /\ target' = ack[OwnerSource(k)][k]
  /\ Goto("RESUMED", k)
  /\ UNCHANGED <<rotationVars, clock, content, ack, child, pair, boundary, journal, before, post>>

ResumedRecord ==
  LET k == pc[2] f == content.frames[OwnerSource(k)][k][cursor[k] + 1]
      o == [first |-> f.first, final |-> f.final, frame |-> cursor[k] + 1]
  IN
  /\ At("RESUMED") /\ cursor[k] < target
  /\ cursor' = [cursor EXCEPT ![k] = @ + 1]
  /\ IF f = Control
     THEN UNCHANGED output /\ IF k = "DEPTH" THEN UNCHANGED pc ELSE Goto("REFUSED", k)
     ELSE IF Publishable(k, OutputOwner(k).epoch, o)
     THEN /\ output' = [output EXCEPT ![k] = Appended(@, ObservationRecord(k, OutputOwner(k).epoch, o))]
          /\ UNCHANGED pc
     ELSE UNCHANGED output /\ Goto("REFUSED", k)
  /\ UNCHANGED <<rotationVars, clock, content, ack, child, pair, boundary, journal, target,
                 before, post>>

-----------------------------------------------------------------------------
(* select_canonical_observations: what the offline splicer selects from the *)
(* same prefixes, or None.                                                  *)
ConsecutiveFrames(os) == os # <<>> /\ \A i \in 2..Len(os) : os[i].frame = os[i - 1].frame + 1
ProvesConvergence(k, b, as, bs) ==
  \E a \in ToSet(as), c, next \in ToSet(bs) :
    /\ a.frame = b.predFrame /\ c.frame = b.succFrame /\ next.frame = b.firstFrame
    /\ a.final = b.seq /\ c.final = b.seq
    /\ ContinuesBoundary(k, a, c, next)
SelectNext(k, s, o) ==
  IF s = None THEN None
  ELSE IF s # <<>> /\ o.final = s[Len(s)].final THEN s
  ELSE IF s # <<>> /\ ~ContinuesOutput(k, s[Len(s)].final, o) THEN None
  ELSE Append(s, o)
SelectCanonical(k, b, as, bs) ==
  FoldLeft(LAMBDA s, o : SelectNext(k, s, o),
           IF /\ ConsecutiveFrames(as) /\ ConsecutiveFrames(bs)
              /\ ProvesConvergence(k, b, as, bs) THEN <<>> ELSE None,
           SelectSeq(as, LAMBDA o : o.frame <= b.predFrame)
           \o SelectSeq(bs, LAMBDA o : o.frame >= b.firstFrame))

-----------------------------------------------------------------------------
OverlapInit ==
  /\ publication = "UNAVAILABLE" /\ active = Connecting(EpochFor["A"]["DEPTH"])
  /\ candidate = None /\ draining = None
  /\ usedEpochs = {EpochFor["A"]["DEPTH"]} /\ failures = {}
  /\ ledger = <<>> /\ synced = 0 /\ torn = FALSE
  /\ writer = None /\ pointer = None /\ coupled = FALSE /\ rotation = None
  /\ lineage = [k \in Kind |-> <<>>]
  /\ pc = <<"QUALIFY", "DEPTH">> /\ clock = 0
  /\ content \in Contents
  /\ ack = [s \in Source |-> [k \in Kind |-> 0]]
  /\ child = [s \in Source |-> "RUNNING"]
  /\ pair = None /\ boundary = [k \in Kind |-> None]
  /\ journal = [k \in Kind |-> NoFile] /\ output = [k \in Kind |-> NoFile]
  /\ cursor = [k \in Kind |-> 0] /\ target = 0
  /\ before = [k \in Kind |-> 0] /\ post = {}

Campaign ==
  \/ Qualify \/ Propose \/ Commit \/ Create \/ PublishBoundary \/ CreateLedger
  \/ ActivateCommitted \/ ChangeOwner \/ CheckActivation \/ PublishPrefix
  \/ TailPass \/ FinishChildren \/ DeltaRecord \/ DeltaEnds \/ Report
OverlapNext ==
  \/ Campaign
  \/ \E s \in Source : ChildStops(s) \/ \E k \in Kind : Advance(s, k)
  \/ DeadlinePasses \/ WatchdogStops
  \/ \E k \in Kind : Resume(k)
  \/ ResumedRecord

OverlapSpec ==
  /\ OverlapInit /\ [][OverlapNext]_overlapVars
  /\ WF_overlapVars(Campaign) /\ WF_overlapVars(DeadlinePasses)
  /\ \A s \in Source : WF_overlapVars(ChildStops(s))

-----------------------------------------------------------------------------
Observations(k) == [i \in 1..Len(Published(k)) |-> Published(k)[i].observation]

(* The authority of B's records: both boundaries committed in their         *)
(* journals and the activation in the synced part of the ledger.            *)
AuthorityPrecedesOutput ==
  (\E k \in Kind, i \in 1..Len(output["DEPTH"].records) + Len(output["TRADE"].records) :
     i <= Len(output[k].records) /\ output[k].records[i].owner.token = 2) =>
  /\ \A k \in Kind : Len(journal[k].records) = 2
  /\ synced > 0 /\ OwnerAfter(ledger, synced).token = 2
  /\ OwnerAfter(ledger, synced).epoch = [k \in Kind |-> EpochFor["B"][k]]

(* Whatever interrupts it, the readable output of a stream is exact: its    *)
(* recovery scan refuses nothing, only acknowledged frames are in it, none  *)
(* is skipped or repeated between two observations, and A's last frame and  *)
(* B's first are those of the boundary.  The same holds of what a recovered *)
(* writer appends (resume, durable_cursor_at_observation).  Nothing of B is *)
(* readable in an output before the authority for it is durable.            *)
OutputExact ==
  /\ AuthorityPrecedesOutput
  /\ \A k \in Kind :
       /\ ScanOutput(k) = output[k].records
       /\ \A o \in ToSet(Observations(k)), s \in Source :
            EpochFor[s][k] = o.epoch => o.frame <= ack[s][k]
       /\ LET os == Observations(k) IN \A i \in 1..(Len(os) - 1) :
            LET o == os[i] p == os[i + 1] IN
              IF o.epoch = p.epoch
              THEN /\ p.frame > o.frame
                   /\ \E s \in Source : EpochFor[s][k] = o.epoch
                        /\ \A n \in (o.frame + 1)..(p.frame - 1) : content.frames[s][k][n] = Control
              ELSE o.frame = boundary[k].predFrame /\ p.frame = boundary[k].firstFrame

(* The live campaign publishes what the offline splicer (splice_epochs.rs)  *)
(* selects from the same prefixes, from A's boundary frame on: the selector *)
(* refuses such a boundary only when A's own trade ids skip before it.  A   *)
(* campaign that reports success has published everything B has durably     *)
(* acknowledged, to the last frame.                                         *)
SelectionAgrees ==
  /\ At("DONE") => \A k \in Kind :
       LET os == Observations(k) IN
         \A n \in (os[Len(os)].frame + 1)..ack["B"][k] : content.frames["B"][k][n] = Control
  /\ pc[1] \in {"TAIL", "DELTA", "FINISH", "LAST", "FINAL", "DONE"} =>
       \A k \in Kind :
         LET as == pair.seen["A"][k] bs == pair.seen["B"][k]
             selected == SelectCanonical(k, boundary[k], as, bs)
             skips == \E i \in 2..Len(as) : as[i].frame <= boundary[k].predFrame
                                            /\ as[i].first > as[i - 1].final + 1
             published == SelectSeq(Observations(k), LAMBDA o :
                            o.epoch = EpochFor["A"][k] \/ o.frame <= pair.acks["B"][k])
             tail == [i \in 1..Len(published) |->
                        [first |-> published[i].first, final |-> published[i].final,
                         frame |-> published[i].frame]]
         IN /\ (selected = None) <=> skips
            /\ selected # None => IsSuffix(tail, selected)

(* Every campaign ends, whatever the captures and the files do: it reports  *)
(* or returns an error, also when the streams never converge.               *)
CampaignEnds == <>(pc[1] \in {"DONE", "ENDED", "RESUMED", "REFUSED"})
=============================================================================
