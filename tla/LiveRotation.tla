---------------------------- MODULE LiveRotation ----------------------------
(***************************************************************************)
(* The transfer of publishing authority from one generation to the next:   *)
(* LiveRotationCoordinator (rust/lob-replay/src/live_rotation.rs) over the  *)
(* ownership ledger and the canonical source pointer (ownership.rs) and    *)
(* the handover controller (module Handover).                              *)
(*                                                                         *)
(* activate_committed holds &mut self, so no other call interleaves with   *)
(* it, but the process may stop and its I/O may fail between its steps.    *)
(* A record whose write or sync failed may be absent, torn or complete in  *)
(* the file.  What is readable after a restart is durable from then on.    *)
(* Generation ids, which only have to differ, boundary ids and the counter *)
(* of fenced rejections are left out: a call that only counts a rejection  *)
(* is not a step.                                                          *)
(***************************************************************************)
EXTENDS Handover, Sequences

CONSTANTS TradeEpoch, MaxSequence

ASSUME RotationAssumption == MaxSequence \in Nat /\ UpdateId \subseteq 0..MaxSequence

Kind == {"DEPTH", "TRADE"}
Pair(d, t) == [k \in Kind |-> IF k = "DEPTH" THEN d ELSE t]
Sequence == 0..MaxSequence

(* SourcePointerSnapshotV1, OwnershipActivationV1, and the                  *)
(* HandoverBoundaryV1 of the two committed proofs.                          *)
EpochPair == {Pair(d, t) : d \in Epoch, t \in TradeEpoch}
Owner == [epoch : EpochPair, token : Nat \ {0}, last : [Kind -> Sequence]]
Activation ==
  [pred : EpochPair, succ : EpochPair, seq : [Kind -> Sequence], token : Nat \ {0}]
Boundary(epochs) ==
  {b \in [pred : epochs, succ : epochs, seq : Sequence] : b.pred # b.succ}
Proofs == {Pair(d, t) : d \in Boundary(Epoch), t \in Boundary(TradeEpoch)}

Pointer == [owner : Owner, state : {"LIVE", "GAP"}]
Writer == [owner : Owner, pending : Activation \union {None}, poisoned : BOOLEAN]
Rotation == [phase : {"PREPARED", "ACTIVATED"}, proofs : Proofs]
ASSUME NoneAssumption ==
  None \notin Activation \union Proofs \union Pointer \union Writer \union Rotation

VARIABLES
  ledger,     \* the records readable in the ownership ledger's file
  synced,     \* how many of them are known durable
  torn,       \* the file ends in a partial record
  writer,     \* the OwnershipLedgerWriter of this process, if it has one
  pointer,    \* the CanonicalSourcePointer, once recovered
  coupled,    \* the coordinator exists
  rotation,   \* the activate_committed in progress: its phase and proofs
  lineage     \* what was published: per stream, the writer of each number
rotationVars ==
  <<handoverVars, ledger, synced, torn, writer, pointer, coupled, rotation, lineage>>
durable == <<ledger, synced, torn>>

-----------------------------------------------------------------------------
(* derive_ownership_activation: the proofs continue the owner.              *)
Derive(owner, proofs) ==
  [pred |-> [k \in Kind |-> proofs[k].pred], succ |-> [k \in Kind |-> proofs[k].succ],
   seq |-> [k \in Kind |-> proofs[k].seq], token |-> owner.token + 1]
Continues(owner, proofs) ==
  \A k \in Kind : proofs[k].pred = owner.epoch[k] /\ proofs[k].seq = owner.last[k]

SuccessorSnapshot(a) == [epoch |-> a.succ, token |-> a.token, last |-> a.seq]

(* validate_activation_predecessor                                          *)
ExtendsOwner(owner, a) == a.pred = owner.epoch /\ a.token = owner.token + 1

(* scan_ownership_ledger.  The loop accepts the first record only when it   *)
(* initializes, a PREPARED one when none is pending and it extends the      *)
(* owner so far, and an ACTIVATED one when one is pending; the owner after  *)
(* n records is the initial one or the successor last activated.            *)
Settled(l, n) == IF l[n].action = "PREPARED" THEN n - 1 ELSE n
OwnerAfter(l, n) ==
  LET i == Settled(l, n) IN
    IF l[i].action = "INITIALIZED" THEN l[i].owner ELSE SuccessorSnapshot(l[i - 1].activation)
Accepts(l, n) ==
  IF n = 1 THEN l[n].action = "INITIALIZED"
  ELSE \/ /\ l[n].action = "PREPARED" /\ l[n - 1].action # "PREPARED"
          /\ ExtendsOwner(OwnerAfter(l, n - 1), l[n].activation)
       \/ l[n].action = "ACTIVATED" /\ l[n - 1].action = "PREPARED"

CleanEof == ~torn /\ \A n \in 1..Len(ledger) : Accepts(ledger, n)
ActiveOwner == OwnerAfter(ledger, Len(ledger))
PendingActivation ==
  IF ledger[Len(ledger)].action = "PREPARED" THEN ledger[Len(ledger)].activation ELSE None
LastActivation ==
  LET i == Settled(ledger, Len(ledger)) IN
    IF ledger[i].action = "INITIALIZED" THEN None ELSE ledger[i - 1].activation

(* recover refuses an unclean ledger, and wants the proofs of the last      *)
(* activation exactly when there is one.                                    *)
Proves(activation, proofs) ==
  IF activation = None THEN proofs = None
  ELSE /\ proofs # None
       /\ \A k \in Kind : /\ activation.pred[k] = proofs[k].pred
                          /\ activation.succ[k] = proofs[k].succ
                          /\ activation.seq[k] = proofs[k].seq
Recoverable(proofs) ==
  /\ CleanEof /\ ledger # <<>>
  /\ Proves(LastActivation, proofs)
Recovered == [owner |-> ActiveOwner, state |-> "LIVE"]

-----------------------------------------------------------------------------
(* append_and_sync: the record is durable, or the writer is poisoned and    *)
(* the record is absent, torn or complete.                                  *)
\* Mutant: the record is acknowledged without the sync.
AppendUnsynced(r) ==
  /\ ~writer.poisoned
  /\ ledger' = Append(ledger, r)
  /\ UNCHANGED <<synced, torn>>
Appends(r) ==
  /\ ~writer.poisoned
  /\ ledger' = Append(ledger, r)
  /\ synced' = Len(ledger')
  /\ UNCHANGED torn
AppendFails(r) ==
  /\ ~writer.poisoned
  /\ \/ UNCHANGED ledger /\ torn' \in BOOLEAN
     \/ ledger' = Append(ledger, r) /\ UNCHANGED torn
  /\ UNCHANGED synced
  /\ writer' = [writer EXCEPT !.poisoned = TRUE]

(* activate_committed up to the PREPARED record.                            *)
\* Mutant: the proofs need not continue the canonical pointer.
MayActivateAnywhere(proofs) ==
  /\ CandidateConverged
  /\ proofs["DEPTH"].pred = active.epoch /\ proofs["DEPTH"].succ = candidate.epoch
  /\ proofs["DEPTH"].seq = active.id /\ proofs["DEPTH"].seq = candidate.id
  /\ \A k \in Kind : proofs[k].pred = pointer.owner.epoch[k]
MayActivate(proofs) ==
  /\ CandidateConverged
  /\ proofs["DEPTH"].pred = active.epoch /\ proofs["DEPTH"].succ = candidate.epoch
  /\ proofs["DEPTH"].seq = active.id /\ proofs["DEPTH"].seq = candidate.id
  /\ Continues(pointer.owner, proofs)

Prepare(proofs) ==
  LET a == Derive(pointer.owner, proofs)
      r == [action |-> "PREPARED", activation |-> a]
  IN /\ coupled /\ rotation = None /\ writer # None
     /\ MayActivate(proofs)
     /\ writer.pending = None /\ ExtendsOwner(writer.owner, a)
     /\ \/ /\ Appends(r)
           /\ writer' = [writer EXCEPT !.pending = a]
           /\ rotation' = [phase |-> "PREPARED", proofs |-> proofs]
        \/ AppendFails(r) /\ UNCHANGED rotation
     /\ UNCHANGED <<handoverVars, pointer, coupled, lineage>>

(* ledger.activate; the pointer stops publishing once it has returned.      *)
Activate ==
  /\ rotation # None /\ rotation.phase = "PREPARED"
  /\ LET r == [action |-> "ACTIVATED"] IN
       \/ /\ Appends(r)
          /\ writer' = [writer EXCEPT !.owner = SuccessorSnapshot(writer.pending),
                                      !.pending = None]
          /\ rotation' = [rotation EXCEPT !.phase = "ACTIVATED"]
          /\ pointer' = [pointer EXCEPT !.state = "GAP"]
       \/ AppendFails(r) /\ rotation' = None /\ UNCHANGED pointer
  /\ UNCHANGED <<handoverVars, coupled, lineage>>

(* The rescan, the switch of the pointer and the promotion; the rescan may  *)
(* fail, and then the pointer stays in its gap.                             *)
ExpectedSuccessor ==
  /\ Recoverable(rotation.proofs)
  /\ ActiveOwner.epoch = [k \in Kind |-> rotation.proofs[k].succ]
  /\ ActiveOwner.token = pointer.owner.token + 1

\* Mutant: the controller is not promoted.
SwitchUnpromoted ==
  /\ pointer' = Recovered
  /\ UNCHANGED handoverVars
Switch ==
  IF publication = "HANDOVER" /\ CandidateConverged
  THEN pointer' = Recovered /\ PromoteCandidate
  ELSE pointer' = [Recovered EXCEPT !.state = "GAP"] /\ UNCHANGED handoverVars

Rescan ==
  /\ rotation # None /\ rotation.phase = "ACTIVATED"
  /\ IF ExpectedSuccessor THEN Switch ELSE UNCHANGED <<handoverVars, pointer>>
  /\ rotation' = None
  /\ UNCHANGED <<durable, writer, coupled, lineage>>
RescanFails ==
  /\ rotation # None /\ rotation.phase = "ACTIVATED"
  /\ rotation' = None
  /\ UNCHANGED <<handoverVars, durable, writer, pointer, coupled, lineage>>

-----------------------------------------------------------------------------
(* accept_observation: the fence, then the continuity of the stream.        *)
\* Mutant: only the stream's name is fenced, not its owner.
FenceOpen(k, e, t) == t \in 1..pointer.owner.token
Fence(k, e, t) == e = pointer.owner.epoch[k] /\ t = pointer.owner.token

Continuity(k, first, final) ==
  LET expected == pointer.owner.last[k] + 1 IN
    IF k = "DEPTH" THEN first <= expected /\ final >= expected
    ELSE first = expected /\ final = expected

Serving == publication = "LIVE" /\ active.state = "ACTIVE"

AcceptObservation(k, e, t, first, final) ==
  /\ coupled /\ rotation = None /\ pointer.state = "LIVE"
  /\ k = "DEPTH" => Serving
  /\ Fence(k, e, t)
  /\ IF Continuity(k, first, final)
     THEN /\ pointer' = [pointer EXCEPT !.owner.last[k] = final]
          /\ lineage' = [lineage EXCEPT ![k] =
               [n \in 1..final |-> IF n <= pointer.owner.last[k] THEN @[n]
                                   ELSE [epoch |-> e, token |-> t]]]
     ELSE pointer' = [pointer EXCEPT !.state = "GAP"] /\ UNCHANGED lineage
  /\ UNCHANGED <<handoverVars, durable, writer, coupled, rotation>>

FailActive(k) ==
  /\ coupled /\ rotation = None
  /\ pointer' = [pointer EXCEPT !.state = "GAP"]
  /\ IF k = "DEPTH" /\ active.epoch = pointer.owner.epoch[k] /\ active.state # "FAILED"
     THEN FailEpoch(active.epoch) ELSE UNCHANGED handoverVars
  /\ UNCHANGED <<durable, writer, coupled, rotation, lineage>>

(* The controller's own calls; only activate_committed promotes.            *)
ControllerStep ==
  /\ writer # None \/ pointer # None
  /\ rotation = None
  /\ \/ \E e \in Epoch, t \in EpochState : TransitionEpoch(e, t)
     \/ \E e \in Epoch, u \in UpdateId, d \in BookDigest : MarkLive(e, u, d) \/ ObserveBook(e, u, d)
     \/ ActivateInitial
     \/ \E e \in Epoch : BeginHandover(e) \/ FailEpoch(e)
     \/ CloseDraining
  /\ UNCHANGED <<durable, writer, pointer, coupled, rotation, lineage>>

-----------------------------------------------------------------------------
(* Start of a process: recover the pointer, then couple it.  What a         *)
(* restarted process publishes begins again at the durable boundary.        *)
Recover(proofs) ==
  /\ pointer = None
  /\ Recoverable(proofs)
  /\ pointer' = Recovered
  /\ lineage' = [k \in Kind |-> SubSeq(lineage[k], 1, ActiveOwner.last[k])]
  /\ UNCHANGED <<handoverVars, durable, writer, coupled, rotation>>

NewCoordinator ==
  /\ pointer # None /\ pointer.state = "LIVE" /\ ~coupled
  /\ publication \in {"LIVE", "HANDOVER"} /\ active.state = "ACTIVE"
  /\ active.epoch = pointer.owner.epoch["DEPTH"]
  /\ coupled' = TRUE
  /\ UNCHANGED <<handoverVars, durable, writer, pointer, rotation, lineage>>

(* The process stops; records not known durable may go, a torn one too.     *)
(* The ledger's writer cannot be opened again: create wants a new file.     *)
Crash ==
  /\ pointer # None \/ writer # None
  /\ \E n \in synced..Len(ledger) :
       /\ ledger' = SubSeq(ledger, 1, n) /\ synced' = n
       /\ torn' \in {FALSE, torn \/ n < Len(ledger)}
  /\ writer' = None /\ pointer' = None /\ coupled' = FALSE /\ rotation' = None
  /\ \E e \in Epoch :
       /\ publication' = "UNAVAILABLE" /\ active' = Connecting(e)
       /\ candidate' = None /\ draining' = None
       /\ usedEpochs' = {e} /\ failures' = {}
  /\ UNCHANGED lineage

(* The ledger has been created for the first owner.                         *)
RotationInit ==
  /\ HandoverInit
  /\ \E t \in TradeEpoch :
       LET owner == [epoch |-> Pair(active.epoch, t), token |-> 1, last |-> Pair(0, 0)]
       IN /\ ledger = <<[action |-> "INITIALIZED", owner |-> owner]>>
          /\ writer = [owner |-> owner, pending |-> None, poisoned |-> FALSE]
  /\ synced = 1 /\ torn = FALSE
  /\ pointer = None /\ coupled = FALSE /\ rotation = None
  /\ lineage = [k \in Kind |-> <<>>]

RotationNext ==
  \/ \E proofs \in Proofs : Prepare(proofs) \/ Recover(proofs)
  \/ Activate \/ Rescan \/ RescanFails
  \/ /\ coupled
     /\ \E k \in Kind, first, final \in Sequence :
          \E e \in Epoch \union TradeEpoch, t \in 1..pointer.owner.token :
            AcceptObservation(k, e, t, first, final)
  \/ \E k \in Kind : FailActive(k)
  \/ Recover(None) \/ NewCoordinator
  \/ ControllerStep
  \/ Crash

RotationSpec == RotationInit /\ [][RotationNext]_rotationVars

-----------------------------------------------------------------------------
(* The rotation's state keeps its type; a coordinator has a pointer, a      *)
(* rotation in progress a coordinator and a writer, and the writer's        *)
(* pending activation is the one its last record prepared.                  *)
RotationTypeOK ==
  /\ synced \in 1..Len(ledger) /\ torn \in BOOLEAN /\ coupled \in BOOLEAN
  /\ writer \in Writer \union {None} /\ pointer \in Pointer \union {None}
  /\ rotation \in Rotation \union {None}
  /\ coupled => pointer # None
  /\ rotation # None => coupled /\ writer # None /\ ~writer.poisoned
  /\ writer # None /\ ~writer.poisoned =>
       synced = Len(ledger) /\ ActiveOwner = writer.owner /\ PendingActivation = writer.pending

(* Nobody publishes on authority that could be lost: every token under      *)
(* which something was published is at most the durable ledger's, counting  *)
(* only records known to be synced (PREPARED and ACTIVATED are              *)
(* independently durable before the switch, live_rotation.rs:51-54).        *)
PublishersAreDurable ==
  \A k \in Kind : \A n \in 1..Len(lineage[k]) :
    lineage[k][n].token <= OwnerAfter(ledger, synced).token

(* The canonical position is exactly what was published: neither an         *)
(* observation nor a change of owner skips or repeats a number.             *)
PositionAgrees ==
  pointer # None => \A k \in Kind : pointer.owner.last[k] = Len(lineage[k])

(* A restart may repeat what followed the last durable boundary, but never  *)
(* skips: the ledger's owner is never ahead of what was published.          *)
RecoveryNeverSkips ==
  \A k \in Kind : ActiveOwner.last[k] <= Len(lineage[k])

(* In each stream the tokens never go back, and one token has one writer.   *)
OneWriterPerToken ==
  \A k \in Kind : \A i, j \in 1..Len(lineage[k]) :
    i < j => LET a == lineage[k][i] b == lineage[k][j] IN
               a.token <= b.token /\ (a.token = b.token => a.epoch = b.epoch)

(* The two authorities agree: while the pointer publishes and no activation *)
(* is under way, the owner's depth epoch is the controller's active one.    *)
AuthoritiesAgree ==
  coupled /\ pointer.state = "LIVE" /\ rotation = None =>
    pointer.owner.epoch["DEPTH"] = active.epoch

(* "promote_candidate is now guaranteed by the unchanged convergence state  *)
(* checked above" (live_rotation.rs:120): an activation in progress can     *)
(* still be promoted, and the pointer stays shut once B owns the ledger.    *)
PromotionGuaranteed ==
  rotation # None =>
    /\ publication = "HANDOVER" /\ CandidateConverged
    /\ rotation.phase = "ACTIVATED" => ExpectedSuccessor /\ pointer.state = "GAP"

(* Once the durable ledger owns B "the in-memory A pointer must be unable   *)
(* to publish" (live_rotation.rs:105).                                      *)
StalePointerShut ==
  coupled /\ pointer.state = "LIVE" /\ CleanEof => pointer.owner.token = ActiveOwner.token
=============================================================================
