------------------------- MODULE LiveRotationProofs -------------------------
(***************************************************************************)
(* Proofs about the handover controller, for every set of epochs, update   *)
(* ids and digests: the checked invariants are inductive once a LIVE       *)
(* active epoch is known to have a book.  Then the transfer of publishing  *)
(* authority by the coordinator that drives the controller, for every set  *)
(* of epochs and every bound on sequence numbers: the inductive invariant  *)
(* RotationInv, what an append to the ownership ledger keeps of it, the    *)
(* steps of the coordinator, a crash and a recovery, and the theorems.     *)
(***************************************************************************)
EXTENDS LiveRotation, TLAPS

LiveHasBook == active.state = "LIVE" => active.id # None

HandoverInv ==
  /\ HandoverTypeOK
  /\ PublicationSound
  /\ EpochsUsedOnce
  /\ LiveHasBook

(* A status differs from None, and keeps its type when its state or its      *)
(* book changes.                                                             *)
LEMMA StatusFacts ==
  /\ \A s \in EpochStatus : s # None
  /\ \A s \in EpochStatus, t \in EpochState : [s EXCEPT !.state = t] \in EpochStatus
  /\ \A s \in EpochStatus, u \in UpdateId, d \in BookDigest :
       [s EXCEPT !.id = u, !.digest = d] \in EpochStatus
  /\ \A e \in Epoch : Connecting(e) \in EpochStatus
  BY StatusAssumption, ZenonT(30) DEF EpochStatus, EpochState, Connecting

(* The slots of a known epoch: epoch and epoch_mut find the same one.        *)
LEMMA SlotOf ==
  ASSUME HandoverInv, NEW e \in Epoch, Known(e)
  PROVE  \/ active.epoch = e /\ StatusOf(e) = active
         \/ active.epoch # e /\ candidate # None /\ candidate.epoch = e
            /\ StatusOf(e) = candidate /\ draining = None
         \/ active.epoch # e /\ candidate = None /\ draining # None
            /\ draining.epoch = e /\ StatusOf(e) = draining
  BY DEF HandoverInv, Known, StatusOf, PublicationSound, EpochsUsedOnce

LEMMA HandoverInitInv == HandoverInit => HandoverInv
<1> SUFFICES ASSUME NEW e \in Epoch,
                    publication = "UNAVAILABLE", active = Connecting(e),
                    candidate = None, draining = None, usedEpochs = {e}, failures = {}
             PROVE  HandoverInv
  BY DEF HandoverInit
<1>1. active \in EpochStatus /\ active # None /\ active.state = "CONNECTING" /\ active.epoch = e
  BY StatusFacts, Zenon DEF Connecting
<1>2. HandoverTypeOK
  BY <1>1 DEF HandoverTypeOK, PublicationState
<1>3. PublicationSound /\ LiveHasBook
  BY <1>1 DEF PublicationSound, LiveHasBook
<1>4. EpochsUsedOnce
  BY <1>1 DEF EpochsUsedOnce
<1> QED
  BY <1>2, <1>3, <1>4 DEF HandoverInv

(* Assigning a status s, of the same epoch, to the slot of a known epoch.    *)
LEMMA SetStatusInv ==
  ASSUME HandoverInv, NEW e \in Epoch, Known(e), NEW s \in EpochStatus, s.epoch = e,
         SetStatus(e, s), UNCHANGED <<publication, usedEpochs, failures>>,
         StatusOf(e) = active =>
           /\ s.state \in {"LIVE", "ACTIVE"} => s.id # None
           /\ s.state = "ACTIVE" <=> active.state = "ACTIVE"
           /\ active.state # "FAILED"
           /\ s.state \notin {"DRAINING", "CLOSED", "FAILED"},
         StatusOf(e) = candidate =>
           s.state \notin {"ACTIVE", "DRAINING", "CLOSED", "FAILED"},
         StatusOf(e) = draining => s.state = "DRAINING" /\ s.id # None
  PROVE  HandoverInv'
<1>0. s # None
  BY StatusFacts, Zenon
<1>1. CASE active.epoch = e /\ StatusOf(e) = active
  <2>1. active' = s /\ candidate' = candidate /\ draining' = draining
    BY <1>1 DEF SetStatus
  <2>2. HandoverTypeOK'
    BY <1>1, <2>1 DEF HandoverInv, HandoverTypeOK
  <2>3. PublicationSound' /\ LiveHasBook'
    BY <1>1, <2>1 DEF HandoverInv, PublicationSound, LiveHasBook
  <2>4. EpochsUsedOnce'
    <3>1. active' # None /\ active'.epoch = active.epoch
      BY <1>0, <1>1, <2>1
    <3>2. active # None
      BY StatusFacts, Zenon DEF HandoverInv, HandoverTypeOK
    <3> QED
      BY <1>1, <2>1, <3>1, <3>2 DEF HandoverInv, EpochsUsedOnce
  <2> QED
    BY <2>2, <2>3, <2>4 DEF HandoverInv
<1>2. CASE /\ active.epoch # e /\ candidate # None /\ candidate.epoch = e
           /\ StatusOf(e) = candidate /\ draining = None
  <2>1. active' = active /\ candidate' = s /\ draining' = None /\ publication' = publication
    BY <1>2 DEF SetStatus
  <2>2. HandoverTypeOK'
    BY <1>2, <2>1 DEF HandoverInv, HandoverTypeOK
  <2>3. PublicationSound' /\ LiveHasBook'
    BY <1>0, <1>2, <2>1 DEF HandoverInv, PublicationSound, LiveHasBook
  <2>4. EpochsUsedOnce'
    BY <1>0, <1>2, <2>1 DEF HandoverInv, EpochsUsedOnce
  <2> QED
    BY <2>2, <2>3, <2>4 DEF HandoverInv
<1>3. CASE /\ active.epoch # e /\ candidate = None /\ draining # None
           /\ draining.epoch = e /\ StatusOf(e) = draining
  <2>1. active' = active /\ candidate' = None /\ draining' = s
    BY <1>3 DEF SetStatus
  <2>2. HandoverTypeOK'
    BY <1>3, <2>1 DEF HandoverInv, HandoverTypeOK
  <2>3. PublicationSound' /\ LiveHasBook'
    BY <1>3, <2>1 DEF HandoverInv, PublicationSound, LiveHasBook
  <2>4. EpochsUsedOnce'
    BY <1>0, <1>3, <2>1 DEF HandoverInv, EpochsUsedOnce
  <2> QED
    BY <2>2, <2>3, <2>4 DEF HandoverInv
<1> QED
  BY <1>1, <1>2, <1>3, SlotOf

(* Failing an epoch, wherever it is.                                         *)
LEMMA FailEpochInv ==
  ASSUME HandoverInv, NEW e \in Epoch, FailEpoch(e)
  PROVE  HandoverInv'
<1>0. active # None
  BY StatusFacts, Zenon DEF HandoverInv, HandoverTypeOK
<1>1. CASE active.epoch = e
  <2>1. /\ active' = [active EXCEPT !.state = "FAILED"] /\ publication' = "GAP"
        /\ candidate' = candidate /\ draining' = draining
        /\ usedEpochs' = usedEpochs /\ failures' = failures \union {e}
    BY <1>1 DEF FailEpoch
  <2>2. /\ active' \in EpochStatus /\ active' # None
        /\ active'.state = "FAILED" /\ active'.epoch = active.epoch
    <3>1. active \in EpochStatus /\ "FAILED" \in EpochState
      BY DEF HandoverInv, HandoverTypeOK, EpochState
    <3>2. active' \in EpochStatus
      BY <2>1, <3>1, StatusFacts, Zenon
    <3>3. active'.state = "FAILED" /\ active'.epoch = active.epoch
      BY <2>1, <3>1 DEF EpochStatus
    <3> QED
      BY <3>2, <3>3, StatusFacts, Zenon
  <2>3. HandoverTypeOK'
    BY <2>1, <2>2 DEF HandoverInv, HandoverTypeOK, PublicationState
  <2>4. PublicationSound' /\ LiveHasBook'
    BY <2>1, <2>2 DEF HandoverInv, PublicationSound, LiveHasBook
  <2>5. EpochsUsedOnce'
    <3>1. e \in usedEpochs
      BY <1>0, <1>1 DEF HandoverInv, EpochsUsedOnce
    <3>2. \A x \in {active', candidate', draining'} \ {None} : x.epoch \in usedEpochs
      BY <1>0, <1>1, <2>1, <2>2, <3>1, Zenon DEF HandoverInv, EpochsUsedOnce
    <3>3. \A x \in {candidate', draining'} \ {None} : x.epoch \notin failures'
      BY <1>1, <2>1 DEF HandoverInv, EpochsUsedOnce
    <3> QED
      BY <1>1, <2>1, <2>2, <3>1, <3>2, <3>3 DEF HandoverInv, EpochsUsedOnce
  <2> QED
    BY <2>3, <2>4, <2>5 DEF HandoverInv
<1>2. CASE active.epoch # e /\ draining # None /\ draining.epoch = e
  <2>1. /\ draining' = None
        /\ active' = active /\ candidate' = candidate /\ publication' = publication
        /\ usedEpochs' = usedEpochs /\ failures' = failures \union {e}
    BY <1>2 DEF FailEpoch
  <2>2. HandoverTypeOK'
    BY <2>1 DEF HandoverInv, HandoverTypeOK
  <2>3. PublicationSound' /\ LiveHasBook'
    BY <2>1 DEF HandoverInv, PublicationSound, LiveHasBook
  <2>4. candidate = None
    BY <1>2 DEF HandoverInv, PublicationSound
  <2>5. EpochsUsedOnce'
    BY <1>0, <1>2, <2>1, <2>4 DEF HandoverInv, EpochsUsedOnce
  <2> QED
    BY <2>2, <2>3, <2>5 DEF HandoverInv
<1>3. CASE active.epoch # e /\ ~(draining # None /\ draining.epoch = e)
  <2>1. /\ candidate # None /\ candidate.epoch = e
        /\ candidate' = None /\ publication' = "LIVE"
        /\ active' = active /\ draining' = draining
        /\ usedEpochs' = usedEpochs /\ failures' = failures \union {e}
    BY <1>3 DEF FailEpoch
  <2>2. HandoverTypeOK'
    BY <2>1 DEF HandoverInv, HandoverTypeOK, PublicationState
  <2>3. PublicationSound' /\ LiveHasBook'
    BY <2>1 DEF HandoverInv, PublicationSound, LiveHasBook
  <2>4. draining = None
    BY <2>1 DEF HandoverInv, PublicationSound
  <2>5. EpochsUsedOnce'
    BY <1>0, <1>3, <2>1, <2>4 DEF HandoverInv, EpochsUsedOnce
  <2> QED
    BY <2>2, <2>3, <2>5 DEF HandoverInv
<1> QED
  BY <1>1, <1>2, <1>3

(* One step per call of the controller.                                      *)
LEMMA HandoverStepInv == HandoverInv /\ [HandoverNext]_handoverVars => HandoverInv'
<1> SUFFICES ASSUME HandoverInv, [HandoverNext]_handoverVars
             PROVE  HandoverInv'
  OBVIOUS
<1>0. active \in EpochStatus /\ active # None
  BY StatusFacts, Zenon DEF HandoverInv, HandoverTypeOK
<1>1. ASSUME NEW e \in Epoch, NEW t \in EpochState, TransitionEpoch(e, t)
      PROVE  HandoverInv'
  <2> DEFINE s == [StatusOf(e) EXCEPT !.state = t]
  <2>1. /\ Known(e) /\ SetStatus(e, s) /\ UNCHANGED <<publication, usedEpochs, failures>>
        /\ t \in {"BUFFERING", "SNAPSHOTTING", "SYNCING"}
        /\ StatusOf(e).state \in {"CONNECTING", "BUFFERING", "SNAPSHOTTING"}
    BY <1>1 DEF TransitionEpoch, Follows
  <2>2. StatusOf(e) \in EpochStatus /\ StatusOf(e).epoch = e
    BY <2>1, SlotOf DEF HandoverInv, HandoverTypeOK
  <2>3. s \in EpochStatus /\ s.epoch = e /\ s.state = t
    BY <2>2, StatusFacts, ZenonT(30) DEF EpochStatus
  <2>4. StatusOf(e) # draining
    BY <2>1, <2>2, StatusFacts, Zenon DEF HandoverInv, HandoverTypeOK
  <2> HIDE DEF s
  <2> QED
    BY <2>1, <2>3, <2>4, SetStatusInv
<1>2. ASSUME NEW e \in Epoch, NEW u \in UpdateId, NEW d \in BookDigest, MarkLive(e, u, d)
      PROVE  HandoverInv'
  <2> DEFINE s == [epoch |-> e, state |-> "LIVE", id |-> u, digest |-> d]
  <2>1. /\ Known(e) /\ SetStatus(e, s) /\ UNCHANGED <<publication, usedEpochs, failures>>
        /\ StatusOf(e).state = "SYNCING"
    BY <1>2 DEF MarkLive
  <2>2. StatusOf(e) \in EpochStatus
    BY <2>1, SlotOf DEF HandoverInv, HandoverTypeOK
  <2>3. s \in EpochStatus /\ s.epoch = e /\ s.state = "LIVE" /\ s.id # None
    BY HandoverAssumption DEF EpochStatus, EpochState
  <2>4. StatusOf(e) # draining
    BY <2>1, <2>2, StatusFacts, Zenon DEF HandoverInv, HandoverTypeOK
  <2> HIDE DEF s
  <2> QED
    BY <2>1, <2>3, <2>4, SetStatusInv
<1>3. ASSUME NEW e \in Epoch, NEW u \in UpdateId, NEW d \in BookDigest, ObserveBook(e, u, d)
      PROVE  HandoverInv'
  <2> DEFINE s == [StatusOf(e) EXCEPT !.id = u, !.digest = d]
  <2>1. CASE FailEpoch(e)
    BY <2>1, FailEpochInv
  <2>2. CASE SetStatus(e, s) /\ UNCHANGED <<publication, usedEpochs, failures>>
    <3>1. Known(e) /\ StatusOf(e).state \in {"LIVE", "ACTIVE", "DRAINING"}
      BY <1>3 DEF ObserveBook
    <3>2. StatusOf(e) \in EpochStatus /\ StatusOf(e).epoch = e
      BY <3>1, SlotOf DEF HandoverInv, HandoverTypeOK
    <3>3. s \in EpochStatus
      BY <3>2, StatusFacts, Zenon
    <3>4. s.epoch = e /\ s.state = StatusOf(e).state /\ s.id = u
      BY <3>2 DEF EpochStatus
    <3>5. u # None
      BY HandoverAssumption
    <3>6. /\ StatusOf(e) = candidate => s.state \notin {"ACTIVE", "DRAINING", "CLOSED", "FAILED"}
          /\ StatusOf(e) = draining => s.state = "DRAINING"
      BY <3>2, <3>4, StatusFacts, Zenon DEF HandoverInv, HandoverTypeOK
    <3>7. StatusOf(e) = active => active.state \notin {"DRAINING", "CLOSED", "FAILED"}
      BY <3>1 DEF HandoverInv, HandoverTypeOK
    <3> HIDE DEF s
    <3> QED
      BY <2>2, <3>1, <3>3, <3>4, <3>5, <3>6, <3>7, SetStatusInv
  <2> QED
    BY <1>3, <2>1, <2>2 DEF ObserveBook
<1>4. CASE ActivateInitial
  <2>1. /\ active' = [active EXCEPT !.state = "ACTIVE"] /\ publication' = "LIVE"
        /\ candidate' = None /\ draining' = None /\ active.state = "LIVE"
        /\ usedEpochs' = usedEpochs /\ failures' = failures
    BY <1>4 DEF ActivateInitial
  <2>2. /\ active' \in EpochStatus /\ active'.state = "ACTIVE"
        /\ active'.epoch = active.epoch /\ active'.id = active.id
    BY <1>0, <2>1 DEF EpochStatus, EpochState
  <2>3. active' # None
    BY <2>2, StatusFacts, Zenon
  <2>4. HandoverTypeOK'
    BY <2>1, <2>2 DEF HandoverInv, HandoverTypeOK, PublicationState
  <2>5. PublicationSound' /\ LiveHasBook'
    BY <2>1, <2>2 DEF HandoverInv, PublicationSound, LiveHasBook
  <2>6. EpochsUsedOnce'
    <3>1. active.epoch \in usedEpochs /\ active.epoch \notin failures
      BY <1>0, <2>1 DEF HandoverInv, EpochsUsedOnce
    <3>2. failures \subseteq usedEpochs
      BY DEF HandoverInv, EpochsUsedOnce
    <3>3. \A x \in {active', candidate', draining'} \ {None} : x.epoch \in usedEpochs'
      BY <2>1, <2>2, <3>1, Zenon
    <3>4. \A x \in {candidate', draining'} \ {None} : x.epoch \notin failures'
      BY <2>1
    <3> QED
      BY <2>1, <2>2, <3>1, <3>2, <3>3, <3>4 DEF EpochsUsedOnce
  <2> QED
    BY <2>4, <2>5, <2>6 DEF HandoverInv
<1>5. ASSUME NEW e \in Epoch, BeginHandover(e)
      PROVE  HandoverInv'
  <2>1. /\ candidate' = Connecting(e) /\ usedEpochs' = usedEpochs \union {e}
        /\ publication' = "HANDOVER" /\ active' = active /\ draining' = None
        /\ failures' = failures /\ active.state = "ACTIVE" /\ e \notin usedEpochs
    BY <1>5 DEF BeginHandover, MayHandOver
  <2>2. /\ candidate' \in EpochStatus /\ candidate' # None
        /\ candidate'.epoch = e /\ candidate'.state = "CONNECTING"
    BY <2>1, StatusFacts, Zenon DEF Connecting
  <2>3. HandoverTypeOK'
    BY <2>1, <2>2 DEF HandoverInv, HandoverTypeOK, PublicationState
  <2>4. PublicationSound' /\ LiveHasBook'
    BY <2>1, <2>2 DEF HandoverInv, PublicationSound, LiveHasBook
  <2>5. EpochsUsedOnce'
    <3>1. active.epoch \in usedEpochs /\ e \notin failures
      BY <1>0, <2>1 DEF HandoverInv, EpochsUsedOnce
    <3>2. \A x \in {active', candidate', draining'} \ {None} : x.epoch \in usedEpochs'
      BY <2>1, <2>2, <3>1
    <3>3. \A x \in {candidate', draining'} \ {None} : x.epoch \notin failures'
      BY <2>1, <2>2, <3>1
    <3> QED
      BY <2>1, <2>2, <3>1, <3>2, <3>3 DEF HandoverInv, EpochsUsedOnce
  <2> QED
    BY <2>3, <2>4, <2>5 DEF HandoverInv
<1>6. CASE PromoteCandidate
  <2>1. /\ draining' = [active EXCEPT !.state = "DRAINING"]
        /\ active' = [candidate EXCEPT !.state = "ACTIVE"]
        /\ candidate' = None /\ publication' = "LIVE"
        /\ usedEpochs' = usedEpochs /\ failures' = failures
        /\ candidate # None /\ candidate.id = active.id /\ candidate.id # None
        /\ active.state = "ACTIVE"
    BY <1>6 DEF PromoteCandidate, CandidateConverged
  <2>2. candidate \in EpochStatus
    BY <2>1 DEF HandoverInv, HandoverTypeOK
  <2>3. /\ draining' \in EpochStatus /\ draining'.state = "DRAINING"
        /\ draining'.epoch = active.epoch /\ draining'.id = active.id
    BY <1>0, <2>1 DEF EpochStatus, EpochState
  <2>4. /\ active' \in EpochStatus /\ active'.state = "ACTIVE"
        /\ active'.epoch = candidate.epoch /\ active'.id = candidate.id
    BY <2>1, <2>2 DEF EpochStatus, EpochState
  <2>5. active' # None /\ draining' # None
    BY <2>3, <2>4, StatusFacts, Zenon
  <2>6. HandoverTypeOK'
    BY <2>1, <2>3, <2>4 DEF HandoverInv, HandoverTypeOK, PublicationState
  <2>7. PublicationSound' /\ LiveHasBook'
    BY <2>1, <2>4 DEF PublicationSound, LiveHasBook
  <2>8. EpochsUsedOnce'
    <3>1. active.epoch \in usedEpochs /\ active.epoch \notin failures
      BY <1>0, <2>1 DEF HandoverInv, EpochsUsedOnce
    <3>2. /\ candidate.epoch \in usedEpochs /\ candidate.epoch \notin failures
          /\ candidate.epoch # active.epoch /\ failures \subseteq usedEpochs
      BY <2>1 DEF HandoverInv, EpochsUsedOnce
    <3>3. \A x \in {active', candidate', draining'} \ {None} : x.epoch \in usedEpochs'
      BY <2>1, <2>3, <2>4, <3>1, <3>2, Zenon
    <3>4. \A x \in {candidate', draining'} \ {None} : x.epoch \notin failures'
      BY <2>1, <2>3, <3>1, Zenon
    <3> QED
      BY <2>1, <2>3, <2>4, <3>1, <3>2, <3>3, <3>4 DEF EpochsUsedOnce
  <2> QED
    BY <2>6, <2>7, <2>8 DEF HandoverInv
<1>7. CASE CloseDraining
  <2>1. /\ draining' = None /\ publication' = publication
        /\ active' = active /\ candidate' = candidate
        /\ usedEpochs' = usedEpochs /\ failures' = failures
    BY <1>7 DEF CloseDraining
  <2>2. HandoverTypeOK'
    BY <2>1 DEF HandoverInv, HandoverTypeOK
  <2>3. PublicationSound' /\ LiveHasBook'
    BY <2>1 DEF HandoverInv, PublicationSound, LiveHasBook
  <2>4. EpochsUsedOnce'
    BY <2>1 DEF HandoverInv, EpochsUsedOnce
  <2> QED
    BY <2>2, <2>3, <2>4 DEF HandoverInv
<1>8. CASE RotationDeadlineExpired
  <2>1. active.epoch \in Epoch
    BY <1>0 DEF EpochStatus
  <2> QED
    BY <1>8, <2>1, FailEpochInv DEF RotationDeadlineExpired
<1>9. CASE UNCHANGED handoverVars
  <2>1. HandoverTypeOK' /\ PublicationSound' /\ LiveHasBook'
    BY <1>9 DEF handoverVars, HandoverInv, HandoverTypeOK, PublicationSound, LiveHasBook
  <2>2. EpochsUsedOnce'
    BY <1>9 DEF handoverVars, HandoverInv, EpochsUsedOnce
  <2> QED
    BY <2>1, <2>2 DEF HandoverInv
<1> QED
  BY <1>1, <1>2, <1>3, <1>4, <1>5, <1>6, <1>7, <1>8, <1>9, FailEpochInv DEF HandoverNext

(* The controller's slots and publication state keep their types, and each   *)
(* slot holds an epoch in a state it can be in (HandoverController).         *)
THEOREM HandoverTypeCorrect == HandoverSpec => []HandoverTypeOK
<1>1. HandoverInv => HandoverTypeOK
  BY DEF HandoverInv
<1> QED
  BY HandoverInitInv, HandoverStepInv, <1>1, PTL DEF HandoverSpec

(* What the controller publishes is sound: an active epoch is published, a   *)
(* handover has both its epochs, a gap means that the active epoch failed,   *)
(* and no handover begins while another drains.                              *)
THEOREM PublicationIsSound == HandoverSpec => []PublicationSound
<1>1. HandoverInv => PublicationSound
  BY DEF HandoverInv
<1> QED
  BY HandoverInitInv, HandoverStepInv, <1>1, PTL DEF HandoverSpec

(* No epoch is used twice, whatever the order of handovers and failures.     *)
THEOREM EpochsAreUsedOnce == HandoverSpec => []EpochsUsedOnce
<1>1. HandoverInv => EpochsUsedOnce
  BY DEF HandoverInv
<1> QED
  BY HandoverInitInv, HandoverStepInv, <1>1, PTL DEF HandoverSpec

-----------------------------------------------------------------------------
(* The two action properties, of one step from a state of the invariant.     *)
BookKept ==
  active.state = "ACTIVE" /\ active'.state = "ACTIVE" =>
    /\ active'.id >= active.id
    /\ active'.id = active.id => active'.digest = active.digest
PredecessorKept ==
  active'.epoch # active.epoch =>
    draining' # None /\ draining'.epoch = active.epoch /\ draining'.id = active'.id

LEMMA ActiveUnchanged ==
  ASSUME HandoverInv, active' = active
  PROVE  BookKept /\ PredecessorKept
<1>1. active.state = "ACTIVE" => active.id \in Nat
  BY HandoverAssumption, Zenon DEF HandoverInv, HandoverTypeOK, PublicationSound, EpochStatus
<1> QED
  BY <1>1 DEF BookKept, PredecessorKept

LEMMA FailKeeps ==
  ASSUME HandoverInv, NEW e \in Epoch, FailEpoch(e)
  PROVE  BookKept /\ PredecessorKept
<1>1. CASE active.epoch = e
  <2>1. active \in EpochStatus /\ active' = [active EXCEPT !.state = "FAILED"]
    BY <1>1 DEF FailEpoch, HandoverInv, HandoverTypeOK
  <2>2. active'.state = "FAILED" /\ active'.epoch = active.epoch
    BY <2>1 DEF EpochStatus
  <2> QED
    BY <2>2 DEF BookKept, PredecessorKept
<1>2. CASE active.epoch # e
  BY <1>2, ActiveUnchanged DEF FailEpoch
<1> QED
  BY <1>1, <1>2

LEMMA HandoverStepKeeps ==
  ASSUME HandoverInv, HandoverNext
  PROVE  BookKept /\ PredecessorKept
<1>0. /\ active \in EpochStatus
      /\ active.state = "ACTIVE" => active.id \in Nat
  BY HandoverAssumption, Zenon DEF HandoverInv, HandoverTypeOK, PublicationSound, EpochStatus
<1>1. ASSUME NEW e \in Epoch, NEW s, Known(e), SetStatus(e, s), s.epoch = e,
             active.epoch = e => BookKept
      PROVE  BookKept /\ PredecessorKept
  <2>1. CASE active.epoch = e
    BY <1>1, <2>1 DEF SetStatus, PredecessorKept
  <2>2. CASE active.epoch # e
    BY <1>1, <2>2, ActiveUnchanged DEF SetStatus
  <2> QED
    BY <2>1, <2>2
<1>2. ASSUME NEW e \in Epoch, NEW t \in EpochState, TransitionEpoch(e, t)
      PROVE  BookKept /\ PredecessorKept
  <2> DEFINE s == [StatusOf(e) EXCEPT !.state = t]
  <2>1. Known(e) /\ SetStatus(e, s)
    BY <1>2 DEF TransitionEpoch
  <2>2. StatusOf(e) \in EpochStatus /\ StatusOf(e).epoch = e
    BY <2>1, SlotOf DEF HandoverInv, HandoverTypeOK
  <2>3. s.epoch = e
    BY <2>2 DEF EpochStatus
  <2>4. active.epoch = e => active.state # "ACTIVE"
    BY <1>2 DEF TransitionEpoch, StatusOf, Follows
  <2> HIDE DEF s
  <2> QED
    BY <1>1, <2>1, <2>3, <2>4 DEF BookKept
<1>3. ASSUME NEW e \in Epoch, NEW u \in UpdateId, NEW d \in BookDigest, MarkLive(e, u, d)
      PROVE  BookKept /\ PredecessorKept
  <2>1. active.epoch = e => active.state # "ACTIVE"
    BY <1>3 DEF MarkLive, StatusOf
  <2>2. Known(e) /\ SetStatus(e, [epoch |-> e, state |-> "LIVE", id |-> u, digest |-> d])
    BY <1>3 DEF MarkLive
  <2> QED
    BY <1>1, <2>1, <2>2 DEF BookKept
<1>4. ASSUME NEW e \in Epoch, NEW u \in UpdateId, NEW d \in BookDigest, ObserveBook(e, u, d)
      PROVE  BookKept /\ PredecessorKept
  <2> DEFINE s == [StatusOf(e) EXCEPT !.id = u, !.digest = d]
  <2>1. CASE FailEpoch(e)
    BY <2>1, FailKeeps
  <2>2. CASE ~Contradicts(StatusOf(e), u, d) /\ SetStatus(e, s)
    <3>1. Known(e)
      BY <1>4 DEF ObserveBook
    <3>2. StatusOf(e) \in EpochStatus /\ StatusOf(e).epoch = e
      BY <3>1, SlotOf DEF HandoverInv, HandoverTypeOK
    <3>3. s.epoch = e /\ s.id = u /\ s.digest = d
      BY <3>2 DEF EpochStatus
    <3>4. ASSUME active.epoch = e
          PROVE  BookKept
      <4>1. active' = s /\ StatusOf(e) = active
        BY <2>2, <3>4 DEF SetStatus, StatusOf
      <4>2. u \in Nat
        BY HandoverAssumption
      <4>3. ASSUME active.state = "ACTIVE"
            PROVE  active.id # None /\ active.id \in Nat
        BY <4>3, <1>0 DEF HandoverInv, PublicationSound
      <4>4. active.state = "ACTIVE" => u >= active.id /\ (u = active.id => d = active.digest)
        BY <2>2, <4>1, <4>2, <4>3 DEF Contradicts
      <4> HIDE DEF s
      <4> QED
        BY <3>3, <4>1, <4>4 DEF BookKept
    <3> HIDE DEF s
    <3> QED
      BY <1>1, <2>2, <3>1, <3>3, <3>4
  <2> QED
    BY <1>4, <2>1, <2>2 DEF ObserveBook
<1>5. CASE ActivateInitial
  <2>1. active.state # "ACTIVE" /\ active'.epoch = active.epoch
    BY <1>0, <1>5 DEF ActivateInitial, EpochStatus
  <2> QED
    BY <2>1 DEF BookKept, PredecessorKept
<1>6. CASE PromoteCandidate
  <2>1. /\ draining' = [active EXCEPT !.state = "DRAINING"]
        /\ active' = [candidate EXCEPT !.state = "ACTIVE"]
        /\ candidate # None /\ candidate.id = active.id /\ candidate.digest = active.digest
    BY <1>6 DEF PromoteCandidate, CandidateConverged
  <2>2. candidate \in EpochStatus
    BY <2>1 DEF HandoverInv, HandoverTypeOK
  <2>3. active'.id = candidate.id /\ active'.digest = candidate.digest
    BY <2>1, <2>2 DEF EpochStatus
  <2>4. draining'.epoch = active.epoch /\ draining'.id = active.id
    BY <1>0, <2>1 DEF EpochStatus
  <2>5. draining' # None
    <3>1. draining' \in EpochStatus
      BY <1>0, <2>1 DEF EpochStatus, EpochState
    <3> QED
      BY <3>1, StatusFacts, Zenon
  <2> QED
    BY <1>0, <2>1, <2>3, <2>4, <2>5 DEF BookKept, PredecessorKept
<1>7. ASSUME NEW e \in Epoch, BeginHandover(e)
      PROVE  BookKept /\ PredecessorKept
  BY <1>7, ActiveUnchanged DEF BeginHandover
<1>8. CASE CloseDraining
  BY <1>8, ActiveUnchanged DEF CloseDraining
<1>9. CASE RotationDeadlineExpired
  <2>1. active.epoch \in Epoch
    BY <1>0 DEF EpochStatus
  <2> QED
    BY <1>9, <2>1, FailKeeps DEF RotationDeadlineExpired
<1> QED
  BY <1>2, <1>3, <1>4, <1>5, <1>6, <1>7, <1>8, <1>9, FailKeeps DEF HandoverNext

(* Publication never goes back: across observations and promotions the       *)
(* published update id never decreases, and one id keeps one digest          *)
(* (observe_book, promote_candidate).                                        *)
THEOREM BookNeverGoesBack == HandoverSpec => BookNeverRegresses
<1>1. HandoverInv /\ [HandoverNext]_handoverVars => [BookKept]_handoverVars
  BY HandoverStepKeeps
<1> QED
  BY HandoverInitInv, HandoverStepInv, <1>1, PTL DEF HandoverSpec, BookNeverRegresses, BookKept

(* The predecessor of a promotion is the draining epoch after it.            *)
THEOREM PredecessorsDrain == HandoverSpec => PredecessorDrains
<1>1. HandoverInv /\ [HandoverNext]_handoverVars => [PredecessorKept]_handoverVars
  BY HandoverStepKeeps
<1> QED
  BY HandoverInitInv, HandoverStepInv, <1>1, PTL
     DEF HandoverSpec, PredecessorDrains, PredecessorKept

-----------------------------------------------------------------------------
(* The ownership ledger, and the invariant of the rotation that uses it:     *)
(* LedgerInv says what the ledger holds, LineageInv how the published        *)
(* numbers lie against its owners, ActivationInv what an activation under    *)
(* way has fixed; the controller's part is HandoverInv.                      *)
Record ==
  [action : {"INITIALIZED"}, owner : Owner]
    \union [action : {"PREPARED"}, activation : Activation]
    \union [action : {"ACTIVATED"}]
GoodLedger(l) == l \in Seq(Record) /\ Len(l) >= 1 /\ \A n \in 1..Len(l) : Accepts(l, n)

LEMMA RecordFacts ==
  ASSUME NEW r \in Record
  PROVE  /\ r.action \in {"INITIALIZED", "PREPARED", "ACTIVATED"}
         /\ r.action = "INITIALIZED" => r.owner \in Owner
         /\ r.action = "PREPARED" => r.activation \in Activation
  BY DEF Record

LEMMA SuccessorType ==
  ASSUME NEW a \in Activation
  PROVE  /\ SuccessorSnapshot(a) \in Owner
         /\ SuccessorSnapshot(a).epoch = a.succ /\ SuccessorSnapshot(a).token = a.token
         /\ SuccessorSnapshot(a).last = a.seq
  BY DEF SuccessorSnapshot, Owner, Activation

(* How the owner after n records comes about.                                *)
LEMMA OwnerCases ==
  ASSUME NEW l, GoodLedger(l), NEW n \in 1..Len(l)
  PROVE  \/ n = 1 /\ l[n].action = "INITIALIZED" /\ OwnerAfter(l, n) = l[n].owner
         \/ n >= 2 /\ l[n].action = "ACTIVATED" /\ l[n - 1].action = "PREPARED"
            /\ OwnerAfter(l, n) = SuccessorSnapshot(l[n - 1].activation)
         \/ n >= 2 /\ l[n].action = "PREPARED" /\ l[n - 1].action # "PREPARED"
            /\ OwnerAfter(l, n) = OwnerAfter(l, n - 1)
<1>1. n \in Nat /\ 1 <= n /\ n <= Len(l) /\ Accepts(l, n)
  BY DEF GoodLedger
<1>2. CASE n = 1
  BY <1>1, <1>2 DEF Accepts, OwnerAfter, Settled
<1>3. CASE n # 1
  <2>1. n >= 2
    BY <1>1, <1>3
  <2>2. CASE l[n].action = "PREPARED" /\ l[n - 1].action # "PREPARED"
    BY <2>1, <2>2 DEF OwnerAfter, Settled
  <2>3. CASE l[n].action = "ACTIVATED" /\ l[n - 1].action = "PREPARED"
    BY <2>1, <2>3 DEF OwnerAfter, Settled
  <2> QED
    BY <1>1, <1>3, <2>1, <2>2, <2>3 DEF Accepts
<1> QED
  BY <1>2, <1>3

LEMMA OwnerType ==
  ASSUME NEW l, GoodLedger(l), NEW n \in 1..Len(l)
  PROVE  OwnerAfter(l, n) \in Owner
<1>0. n \in Nat /\ 1 <= n /\ n <= Len(l) /\ Len(l) \in Nat
  BY DEF GoodLedger
<1>1. \A i \in 1..Len(l) : l[i] \in Record
  BY DEF GoodLedger
<1>2. ASSUME NEW i \in 1..Len(l), l[i].action # "PREPARED"
      PROVE  OwnerAfter(l, i) \in Owner
  <2>1. CASE i = 1 /\ l[i].action = "INITIALIZED" /\ OwnerAfter(l, i) = l[i].owner
    BY <1>1, <2>1, RecordFacts
  <2>2. CASE i >= 2 /\ l[i].action = "ACTIVATED" /\ l[i - 1].action = "PREPARED"
             /\ OwnerAfter(l, i) = SuccessorSnapshot(l[i - 1].activation)
    <3>1. i - 1 \in 1..Len(l)
      BY <1>0, <2>2
    <3>2. l[i - 1].activation \in Activation
      BY <1>1, <2>2, <3>1, RecordFacts
    <3> QED
      BY <2>2, <3>2, SuccessorType
  <2> QED
    BY <1>2, <2>1, <2>2, OwnerCases
<1>3. CASE l[n].action = "PREPARED"
  <2>1. n >= 2 /\ l[n - 1].action # "PREPARED" /\ OwnerAfter(l, n) = OwnerAfter(l, n - 1)
    BY <1>3, OwnerCases
  <2>2. n - 1 \in 1..Len(l)
    BY <1>0, <2>1
  <2> QED
    BY <1>2, <2>1, <2>2
<1> QED
  BY <1>2, <1>3

(* A ledger's prefix has the owners of the ledger.                           *)
LEMMA SameOwners ==
  ASSUME NEW l, GoodLedger(l), NEW m, NEW N \in 1..Len(l), \A i \in 1..N : m[i] = l[i],
         NEW n \in 1..N
  PROVE  OwnerAfter(m, n) = OwnerAfter(l, n) /\ Accepts(m, n) = Accepts(l, n)
<1>0. n \in Nat /\ 1 <= n /\ n <= N /\ N <= Len(l) /\ Len(l) \in Nat /\ N \in Nat
  BY DEF GoodLedger
<1>1. ASSUME NEW j \in 1..N
      PROVE  OwnerAfter(m, j) = OwnerAfter(l, j)
  <2>0. j \in 1..Len(l) /\ m[j] = l[j]
    BY <1>0, <1>1
  <2>1. CASE j = 1
    BY <2>0, <2>1, OwnerCases DEF OwnerAfter, Settled
  <2>2. CASE j >= 2 /\ l[j].action = "ACTIVATED"
    <3>1. j - 1 \in 1..N
      BY <1>0, <2>2
    <3>2. m[j - 1] = l[j - 1]
      BY <3>1
    <3> QED
      BY <2>0, <2>2, <3>2 DEF OwnerAfter, Settled
  <2>3. CASE j >= 2 /\ l[j].action = "PREPARED"
    <3>1. j - 1 \in 1..N /\ j - 1 \in 1..Len(l)
      BY <1>0, <2>3
    <3>2. m[j - 1] = l[j - 1]
      BY <3>1
    <3>3. CASE l[j - 1].action = "INITIALIZED"
      BY <2>0, <2>3, <3>2, <3>3 DEF OwnerAfter, Settled
    <3>4. CASE l[j - 1].action # "INITIALIZED"
      <4>1. j - 1 >= 2
        BY <2>0, <2>3, <3>1, <3>4, OwnerCases
      <4>2. j - 2 \in 1..N /\ (j - 1) - 1 = j - 2
        BY <1>0, <2>3, <4>1
      <4>3. m[(j - 1) - 1] = l[(j - 1) - 1]
        BY <4>2
      <4> QED
        BY <2>0, <2>3, <3>2, <3>4, <4>3 DEF OwnerAfter, Settled
    <3> QED
      BY <3>3, <3>4
  <2> QED
    BY <2>0, <2>1, <2>2, <2>3, OwnerCases
<1>2. m[n] = l[n]
  OBVIOUS
<1>3. CASE n = 1
  BY <1>1, <1>2, <1>3 DEF Accepts
<1>4. CASE n # 1
  <2>1. n - 1 \in 1..N
    BY <1>0, <1>4
  <2>2. m[n - 1] = l[n - 1] /\ OwnerAfter(m, n - 1) = OwnerAfter(l, n - 1)
    BY <1>1, <2>1
  <2> QED
    BY <1>1, <1>2, <1>4, <2>2 DEF Accepts
<1> QED
  BY <1>3, <1>4

Ordered(l) ==
  \A m, n \in 1..Len(l) : m <= n =>
    /\ OwnerAfter(l, m).token <= OwnerAfter(l, n).token
    /\ \A k \in Kind : OwnerAfter(l, m).last[k] <= OwnerAfter(l, n).last[k]

(* A record that the scan would accept next.                                 *)
AcceptedNext(l, r) ==
  \/ r.action = "PREPARED" /\ l[Len(l)].action # "PREPARED"
     /\ ExtendsOwner(OwnerAfter(l, Len(l)), r.activation)
  \/ r.action = "ACTIVATED" /\ l[Len(l)].action = "PREPARED"

LEMMA LedgerAppend ==
  ASSUME NEW l, GoodLedger(l), NEW r \in Record, AcceptedNext(l, r)
  PROVE  /\ GoodLedger(Append(l, r)) /\ Len(Append(l, r)) = Len(l) + 1
         /\ \A n \in 1..Len(l) : OwnerAfter(Append(l, r), n) = OwnerAfter(l, n)
         /\ r.action = "PREPARED" =>
              OwnerAfter(Append(l, r), Len(l) + 1) = OwnerAfter(l, Len(l))
         /\ r.action = "ACTIVATED" =>
              OwnerAfter(Append(l, r), Len(l) + 1) = SuccessorSnapshot(l[Len(l)].activation)
<1> DEFINE m == Append(l, r)
           N == Len(l)
<1>0. l \in Seq(Record) /\ N \in Nat /\ N >= 1
  BY DEF GoodLedger
<1>1. /\ m \in Seq(Record) /\ Len(m) = N + 1
      /\ \A i \in 1..N : m[i] = l[i]
      /\ m[N + 1] = r
  BY <1>0
<1> HIDE DEF m
<1>2. N \in 1..N
  BY <1>0
<1>3. \A n \in 1..N : OwnerAfter(m, n) = OwnerAfter(l, n) /\ Accepts(m, n) = Accepts(l, n)
  BY <1>1, <1>2, SameOwners
<1>4. (N + 1) - 1 = N /\ N + 1 # 1
  BY <1>0
<1>5. m[N] = l[N] /\ OwnerAfter(m, N) = OwnerAfter(l, N)
  BY <1>1, <1>2, <1>3
<1>6. Accepts(m, N + 1)
  BY <1>1, <1>4, <1>5 DEF Accepts, AcceptedNext
<1>7. GoodLedger(m)
  <2>1. \A n \in 1..(N + 1) : n \in 1..N \/ n = N + 1
    BY <1>0
  <2>2. \A n \in 1..N : Accepts(l, n)
    BY DEF GoodLedger
  <2> QED
    BY <1>0, <1>1, <1>3, <1>6, <2>1, <2>2 DEF GoodLedger
<1>8. N + 1 \in 1..Len(m)
  BY <1>0, <1>1
<1>9. r.action = "PREPARED" => OwnerAfter(m, N + 1) = OwnerAfter(l, N)
  BY <1>1, <1>4, <1>5, <1>7, <1>8, OwnerCases
<1>10. r.action = "ACTIVATED" => OwnerAfter(m, N + 1) = SuccessorSnapshot(l[N].activation)
  BY <1>1, <1>4, <1>5, <1>7, <1>8, OwnerCases
<1> QED
  BY <1>1, <1>3, <1>7, <1>9, <1>10 DEF m

LEMMA LedgerCut ==
  ASSUME NEW l, GoodLedger(l), NEW N \in 1..Len(l)
  PROVE  /\ GoodLedger(SubSeq(l, 1, N)) /\ Len(SubSeq(l, 1, N)) = N
         /\ \A n \in 1..N : OwnerAfter(SubSeq(l, 1, N), n) = OwnerAfter(l, n)
<1> DEFINE m == SubSeq(l, 1, N)
<1>0. l \in Seq(Record) /\ Len(l) \in Nat /\ N \in Nat /\ 1 <= N /\ N <= Len(l)
  BY DEF GoodLedger
<1>1. m \in Seq(Record) /\ Len(m) = N /\ \A i \in 1..N : m[i] = l[i]
  BY <1>0
<1> HIDE DEF m
<1>2. \A n \in 1..N : OwnerAfter(m, n) = OwnerAfter(l, n) /\ Accepts(m, n) = Accepts(l, n)
  BY <1>1, SameOwners
<1>3. \A n \in 1..N : Accepts(l, n)
  BY <1>0 DEF GoodLedger
<1>4. GoodLedger(m)
  BY <1>0, <1>1, <1>2, <1>3 DEF GoodLedger
<1> QED
  BY <1>1, <1>2, <1>4 DEF m

LEMMA OwnerFields ==
  ASSUME NEW o \in Owner
  PROVE  /\ o.token \in Nat /\ o.token >= 1
         /\ \A k \in Kind : o.last[k] \in Nat /\ o.last[k] \in Sequence
  BY RotationAssumption DEF Owner, Sequence

(* The order of the owners survives a cut and an append.                     *)
LEMMA OrderCut ==
  ASSUME NEW l, GoodLedger(l), Ordered(l), NEW N \in 1..Len(l)
  PROVE  Ordered(SubSeq(l, 1, N))
<1>1. 1..N \subseteq 1..Len(l)
  BY DEF GoodLedger
<1> QED
  BY <1>1, LedgerCut DEF Ordered

LEMMA OrderAppend ==
  ASSUME NEW l, GoodLedger(l), Ordered(l), NEW r \in Record, AcceptedNext(l, r),
         r.action = "ACTIVATED" =>
           \A k \in Kind : OwnerAfter(l, Len(l)).last[k] <= l[Len(l)].activation.seq[k]
  PROVE  Ordered(Append(l, r))
<1> DEFINE m == Append(l, r)
           N == Len(l)
           o(n) == OwnerAfter(m, n)
<1>0. N \in Nat /\ N >= 1 /\ N \in 1..N
  BY DEF GoodLedger
<1>1. /\ GoodLedger(m) /\ Len(m) = N + 1
      /\ \A n \in 1..N : o(n) = OwnerAfter(l, n)
  BY LedgerAppend
<1>2. \A n \in 1..(N + 1) : o(n).token \in Nat /\ \A k \in Kind : o(n).last[k] \in Nat
  BY <1>1, OwnerType, OwnerFields, Zenon
<1>3. o(N).token <= o(N + 1).token /\ \A k \in Kind : o(N).last[k] <= o(N + 1).last[k]
  <2>1. CASE r.action = "PREPARED"
    <3>1. o(N + 1) = o(N)
      BY <1>0, <1>1, <2>1, LedgerAppend
    <3>2. N \in 1..(N + 1)
      BY <1>0
    <3> QED
      BY <1>2, <3>1, <3>2
  <2>2. CASE r.action = "ACTIVATED"
    <3> DEFINE a == l[N].activation
    <3>1. /\ N >= 2 /\ l[N].action = "PREPARED"
          /\ ExtendsOwner(OwnerAfter(l, N - 1), a) /\ OwnerAfter(l, N) = OwnerAfter(l, N - 1)
      BY <1>0, <2>2, OwnerCases DEF AcceptedNext, GoodLedger, Accepts
    <3>2. l[N] \in Record
      BY <1>0 DEF GoodLedger
    <3>3. a \in Activation
      BY <3>1, <3>2, RecordFacts
    <3>4. o(N + 1) = SuccessorSnapshot(a)
      BY <2>2, LedgerAppend
    <3>5. a.token = OwnerAfter(l, N).token + 1 /\ OwnerAfter(l, N).token \in Nat
      BY <1>0, <3>1, OwnerType, OwnerFields DEF ExtendsOwner
    <3>6. o(N + 1).token = a.token /\ o(N + 1).last = a.seq
      BY <3>3, <3>4, SuccessorType
    <3>7. o(N) = OwnerAfter(l, N)
      BY <1>0, <1>1
    <3> HIDE DEF o
    <3> QED
      BY <2>2, <3>5, <3>6, <3>7
  <2> QED
    BY <2>1, <2>2 DEF AcceptedNext
<1>4. \A i, j \in 1..N : i <= j =>
        o(i).token <= o(j).token /\ \A k \in Kind : o(i).last[k] <= o(j).last[k]
  BY <1>1 DEF Ordered
<1> HIDE DEF m, o
<1>5. ASSUME NEW i \in 1..(N + 1), NEW j \in 1..(N + 1), i <= j
      PROVE  o(i).token <= o(j).token /\ \A k \in Kind : o(i).last[k] <= o(j).last[k]
  <2>1. CASE j \in 1..N
    <3>1. i \in 1..N
      BY <1>5, <2>1
    <3> QED
      BY <1>4, <1>5, <2>1, <3>1
  <2>2. CASE j = N + 1 /\ i = N + 1
    BY <1>2, <2>2
  <2>3. CASE j = N + 1 /\ i \in 1..N
    <3>1. i <= N /\ N \in 1..(N + 1)
      BY <1>0, <2>3
    <3>2. o(i).token <= o(N).token /\ \A k \in Kind : o(i).last[k] <= o(N).last[k]
      BY <1>0, <1>4, <2>3, <3>1
    <3> QED
      BY <1>2, <1>3, <2>3, <3>1, <3>2
  <2> QED
    BY <1>0, <2>1, <2>2, <2>3
<1> QED
  BY <1>1, <1>5 DEF Ordered, m, o

-----------------------------------------------------------------------------
(* The ledger: its owners follow one another in token and position, and only *)
(* a live writer's failed append leaves it unsynced or torn.                 *)
LedgerInv ==
  /\ GoodLedger(ledger) /\ Ordered(ledger)
  /\ pointer = None => synced = Len(ledger)
  /\ writer # None /\ ~writer.poisoned => ~torn

(* What was published lies below the owners activated after it.              *)
Below(lin, owner) ==
  \A k \in Kind : \A i \in 1..Len(lin[k]) :
    /\ lin[k][i].token <= owner.token
    /\ lin[k][i].token = owner.token => lin[k][i].epoch = owner.epoch[k]
BeforeBoundary(lin, owner) ==
  \A k \in Kind :
    /\ owner.last[k] <= Len(lin[k])
    /\ \A i \in 1..owner.last[k] : lin[k][i].token < owner.token

Published == [epoch : Epoch \union TradeEpoch, token : Nat]
LineageInv ==
  /\ lineage \in [Kind -> Seq(Published)]
  /\ PositionAgrees /\ PublishersAreDurable /\ OneWriterPerToken
  /\ \A n \in 1..Len(ledger) : BeforeBoundary(lineage, OwnerAfter(ledger, n))
  /\ pointer # None =>
       pointer.owner.token <= OwnerAfter(ledger, synced).token /\ Below(lineage, pointer.owner)

(* An activation under way is the one its proofs and the pointer derive.     *)
ActivationInv ==
  /\ coupled /\ pointer.state = "LIVE" => pointer.owner.epoch["DEPTH"] = active.epoch
  /\ rotation # None =>
       /\ CandidateConverged /\ publication = "HANDOVER"
       /\ rotation.proofs["DEPTH"].succ = candidate.epoch
       /\ Continues(pointer.owner, rotation.proofs)
       /\ rotation.phase = "PREPARED" =>
            writer.pending = Derive(pointer.owner, rotation.proofs)
       /\ rotation.phase = "ACTIVATED" =>
            /\ pointer.state = "GAP"
            /\ ledger[Len(ledger)].action = "ACTIVATED"
            /\ ledger[Len(ledger) - 1].activation = Derive(pointer.owner, rotation.proofs)

RotationInv == HandoverInv /\ RotationTypeOK /\ LedgerInv /\ LineageInv /\ ActivationInv

(* The values of the optional variables differ from None.                    *)
LEMMA SomeFacts ==
  /\ \A x \in Activation : x # None
  /\ \A x \in Proofs : x # None
  /\ \A x \in Pointer : x # None
  /\ \A x \in Writer : x # None
  /\ \A x \in Rotation : x # None
  BY NoneAssumption

LEMMA PairFacts ==
  ASSUME NEW d, NEW t
  PROVE  /\ Pair(d, t)["DEPTH"] = d /\ Pair(d, t)["TRADE"] = t
         /\ Pair(d, t) = [k \in Kind |-> Pair(d, t)[k]]
  BY DEF Pair, Kind

(* The activation the proofs derive.                                         *)
LEMMA DeriveType ==
  ASSUME NEW o \in Owner, NEW p \in Proofs
  PROVE  /\ Derive(o, p) \in Activation
         /\ Derive(o, p).token = o.token + 1
         /\ \A k \in Kind : /\ Derive(o, p).pred[k] = p[k].pred
                            /\ Derive(o, p).succ[k] = p[k].succ
                            /\ Derive(o, p).seq[k] = p[k].seq
<1>1. PICK d \in Boundary(Epoch), t \in Boundary(TradeEpoch) : p = Pair(d, t)
  BY DEF Proofs
<1>2. /\ d.pred \in Epoch /\ d.succ \in Epoch /\ d.seq \in Sequence
      /\ t.pred \in TradeEpoch /\ t.succ \in TradeEpoch /\ t.seq \in Sequence
  BY DEF Boundary
<1>3. /\ [k \in Kind |-> p[k].pred] = Pair(d.pred, t.pred)
      /\ [k \in Kind |-> p[k].succ] = Pair(d.succ, t.succ)
      /\ [k \in Kind |-> p[k].seq] = Pair(d.seq, t.seq)
  BY <1>1 DEF Pair, Kind
<1>4. Pair(d.pred, t.pred) \in EpochPair /\ Pair(d.succ, t.succ) \in EpochPair
  BY <1>2 DEF EpochPair
<1>5. Pair(d.seq, t.seq) \in [Kind -> Sequence]
  BY <1>2 DEF Pair, Kind
<1>6. o.token + 1 \in Nat \ {0}
  BY DEF Owner
<1>7. Derive(o, p) \in Activation
  BY <1>3, <1>4, <1>5, <1>6 DEF Derive, Activation
<1> QED
  BY <1>7 DEF Derive

LEMMA RotationInitInv == RotationInit => RotationInv
<1> SUFFICES ASSUME RotationInit
             PROVE  RotationInv
  OBVIOUS
<1>1. HandoverInv
  BY HandoverInitInv DEF RotationInit
<1>2. PICK t \in TradeEpoch :
        LET owner == [epoch |-> Pair(active.epoch, t), token |-> 1, last |-> Pair(0, 0)]
        IN /\ ledger = <<[action |-> "INITIALIZED", owner |-> owner]>>
           /\ writer = [owner |-> owner, pending |-> None, poisoned |-> FALSE]
  BY Zenon DEF RotationInit
<1> DEFINE owner == [epoch |-> Pair(active.epoch, t), token |-> 1, last |-> Pair(0, 0)]
           r == [action |-> "INITIALIZED", owner |-> owner]
<1>3. /\ ledger = <<r>> /\ writer = [owner |-> owner, pending |-> None, poisoned |-> FALSE]
      /\ synced = 1 /\ torn = FALSE
      /\ pointer = None /\ coupled = FALSE /\ rotation = None
      /\ lineage = [k \in Kind |-> <<>>]
  BY <1>2, Zenon DEF RotationInit
<1>4. owner \in Owner /\ owner.last["DEPTH"] = 0 /\ owner.last["TRADE"] = 0 /\ owner.token = 1
  <2>1. active.epoch \in Epoch
    BY <1>1 DEF HandoverInv, HandoverTypeOK, EpochStatus
  <2>2. Pair(active.epoch, t) \in EpochPair
    BY <2>1 DEF EpochPair
  <2>3. Pair(0, 0) \in [Kind -> Sequence]
    BY RotationAssumption DEF Pair, Kind, Sequence
  <2> QED
    BY <2>2, <2>3, PairFacts DEF Owner
<1>5. r \in Record /\ r.action = "INITIALIZED" /\ r.owner = owner
  BY <1>4 DEF Record
<1> HIDE DEF owner, r
<1>6. ledger \in Seq(Record) /\ Len(ledger) = 1 /\ ledger[1] = r
  BY <1>3, <1>5
<1>7. GoodLedger(ledger)
  BY <1>5, <1>6 DEF GoodLedger, Accepts
<1>8. OwnerAfter(ledger, 1) = owner /\ PendingActivation = None /\ ActiveOwner = owner
  BY <1>5, <1>6 DEF OwnerAfter, Settled, PendingActivation, ActiveOwner
<1>9. RotationTypeOK
  <2>1. writer \in Writer
    BY <1>3, <1>4 DEF Writer
  <2>2. writer.owner = owner /\ writer.pending = None
    BY <1>3
  <2>3. torn \in BOOLEAN /\ coupled \in BOOLEAN /\ ~coupled
    BY <1>3, Zenon
  <2>4. synced \in 1..Len(ledger) /\ synced = Len(ledger)
    BY <1>3, <1>6
  <2>5. pointer = None /\ rotation = None
    BY <1>3
  <2> QED
    BY <1>8, <2>1, <2>2, <2>3, <2>4, <2>5 DEF RotationTypeOK
<1>10. LedgerInv
  <2>1. \A n \in 1..Len(ledger) : n = 1
    BY <1>6
  <2>2. Ordered(ledger)
    BY <1>4, <1>6, <1>8, <2>1, OwnerFields DEF Ordered
  <2> QED
    BY <1>3, <1>6, <1>7, <2>2 DEF LedgerInv
<1>11. LineageInv
  <2>1. \A k \in Kind : lineage[k] = <<>> /\ Len(lineage[k]) = 0
    BY <1>3
  <2>2. lineage \in [Kind -> Seq(Published)]
    BY <1>3
  <2>3. \A k \in Kind : owner.last[k] = 0
    BY <1>4 DEF Kind
  <2>4. BeforeBoundary(lineage, owner)
    BY <2>1, <2>3 DEF BeforeBoundary
  <2>5. \A n \in 1..Len(ledger) : BeforeBoundary(lineage, OwnerAfter(ledger, n))
    BY <1>6, <1>8, <2>4
  <2>6. PublishersAreDurable /\ OneWriterPerToken
    BY <2>1 DEF PublishersAreDurable, OneWriterPerToken
  <2> QED
    BY <1>3, <2>2, <2>5, <2>6 DEF LineageInv, PositionAgrees
<1>12. ActivationInv
  BY <1>3 DEF ActivationInv
<1> QED
  BY <1>1, <1>9, <1>10, <1>11, <1>12 DEF RotationInv

-----------------------------------------------------------------------------
LEMMA LineageTokens ==
  ASSUME NEW lin \in [Kind -> Seq(Published)], NEW k \in Kind
  PROVE  /\ lin[k] \in Seq(Published) /\ Len(lin[k]) \in Nat
         /\ \A i \in 1..Len(lin[k]) : lin[k][i] \in Published /\ lin[k][i].token \in Nat
<1>1. lin[k] \in Seq(Published) /\ Len(lin[k]) \in Nat
  OBVIOUS
<1>2. \A i \in 1..Len(lin[k]) : lin[k][i] \in Published
  BY <1>1
<1> QED
  BY <1>1, <1>2 DEF Published

(* A record reaches the file, whether or not it is known durable: an         *)
(* ACTIVATED one completes the activation that the pointer's owner derived.  *)
LEMMA AppendKeeps ==
  ASSUME RotationInv, pointer # None, pointer' # None, pointer'.owner = pointer.owner,
         lineage' = lineage,
         NEW r \in Record, AcceptedNext(ledger, r), ledger' = Append(ledger, r),
         synced' \in {synced, Len(ledger')},
         NEW p \in Proofs,
         r.action = "ACTIVATED" =>
           /\ ledger[Len(ledger)].activation = Derive(pointer.owner, p)
           /\ Continues(pointer.owner, p)
  PROVE  /\ GoodLedger(ledger') /\ Ordered(ledger') /\ Len(ledger') = Len(ledger) + 1
         /\ synced' \in 1..Len(ledger')
         /\ LineageInv'
<1> DEFINE N == Len(ledger)
           o(n) == OwnerAfter(ledger, n)
           q(n) == OwnerAfter(ledger', n)
           a == ledger[N].activation
<1>0. /\ GoodLedger(ledger) /\ Ordered(ledger) /\ N \in Nat /\ N >= 1 /\ N \in 1..N
      /\ synced \in 1..N /\ pointer \in Pointer /\ pointer.owner \in Owner
  BY DEF RotationInv, LedgerInv, GoodLedger, RotationTypeOK, Pointer
<1>1. /\ GoodLedger(ledger') /\ Len(ledger') = N + 1
      /\ \A n \in 1..N : q(n) = o(n)
      /\ r.action = "PREPARED" => q(N + 1) = o(N)
      /\ r.action = "ACTIVATED" => q(N + 1) = SuccessorSnapshot(a)
  BY <1>0, LedgerAppend, Zenon
<1>2. /\ LineageInv /\ BeforeBoundary(lineage, o(N)) /\ Below(lineage, pointer.owner)
      /\ \A k \in Kind : pointer.owner.last[k] = Len(lineage[k])
      /\ \A k \in Kind : \A i \in 1..Len(lineage[k]) : lineage[k][i].token \in Nat
  <2>1. LineageInv
    BY Zenon DEF RotationInv
  <2> QED
    BY <1>0, <2>1, LineageTokens DEF LineageInv, PositionAgrees
<1>3. ASSUME r.action = "ACTIVATED"
      PROVE  /\ SuccessorSnapshot(a).token = pointer.owner.token + 1
             /\ \A k \in Kind : SuccessorSnapshot(a).last[k] = Len(lineage[k])
             /\ \A k \in Kind : a.seq[k] = Len(lineage[k])
  <2>1. a \in Activation /\ a.token = pointer.owner.token + 1
        /\ \A k \in Kind : a.seq[k] = p[k].seq
    BY <1>0, <1>3, DeriveType, Zenon
  <2>2. \A k \in Kind : p[k].seq = pointer.owner.last[k]
    BY <1>3, Zenon DEF Continues
  <2> QED
    BY <1>2, <2>1, <2>2, SuccessorType, Zenon
<1>4. Ordered(ledger')
  <2>1. r.action = "ACTIVATED" => \A k \in Kind : o(N).last[k] <= a.seq[k]
    BY <1>2, <1>3 DEF BeforeBoundary
  <2> QED
    BY <1>0, <2>1, OrderAppend, Zenon
<1>5. synced' \in 1..Len(ledger')
  BY <1>0, <1>1
<1>6. BeforeBoundary(lineage, q(N + 1))
  <2>1. CASE r.action = "PREPARED"
    BY <1>1, <1>2, <2>1, Zenon
  <2>2. CASE r.action = "ACTIVATED"
    <3>1. \A k \in Kind : \A i \in 1..Len(lineage[k]) :
            lineage[k][i].token < pointer.owner.token + 1
      <4>1. pointer.owner.token \in Nat
        BY <1>0, OwnerFields
      <4>2. \A k \in Kind : \A i \in 1..Len(lineage[k]) : lineage[k][i].token <= pointer.owner.token
        BY <1>2, Zenon DEF Below
      <4> QED
        BY <1>2, <4>1, <4>2
    <3>2. \A k \in Kind : Len(lineage[k]) \in Nat
      BY <1>2 DEF LineageInv
    <3>3. q(N + 1).token = pointer.owner.token + 1
          /\ \A k \in Kind : q(N + 1).last[k] = Len(lineage[k])
      BY <1>1, <1>3, <2>2
    <3> HIDE DEF q
    <3> QED
      BY <3>1, <3>2, <3>3 DEF BeforeBoundary
  <2> QED
    BY <2>1, <2>2, Zenon DEF AcceptedNext
<1>7. \A n \in 1..Len(ledger') : BeforeBoundary(lineage, q(n))
  <2>1. \A n \in 1..(N + 1) : n \in 1..N \/ n = N + 1
    BY <1>0
  <2>2. \A n \in 1..N : BeforeBoundary(lineage, q(n))
    BY <1>1, <1>2 DEF LineageInv
  <2> QED
    BY <1>1, <1>6, <2>1, <2>2
<1>8. q(synced').token >= o(synced).token
  <2>1. synced \in 1..Len(ledger') /\ synced <= synced' /\ q(synced) = o(synced)
    BY <1>0, <1>1
  <2>2. q(synced).token <= q(synced').token /\ q(synced).token \in Nat /\ q(synced').token \in Nat
    BY <1>1, <1>4, <1>5, <2>1, OwnerType, OwnerFields, Zenon DEF Ordered
  <2> QED
    BY <2>1, <2>2
<1>9. q(synced').token \in Nat /\ o(synced).token \in Nat /\ pointer.owner.token \in Nat
  BY <1>0, <1>1, <1>5, OwnerType, OwnerFields, Zenon
<1>10. PublishersAreDurable'
  <2>1. \A k \in Kind : \A n \in 1..Len(lineage[k]) : lineage[k][n].token <= o(synced).token
    BY <1>2, Zenon DEF LineageInv, PublishersAreDurable
  <2> HIDE DEF q, o
  <2>2. \A k \in Kind : \A n \in 1..Len(lineage[k]) : lineage[k][n].token <= q(synced').token
    BY <1>2, <1>8, <1>9, <2>1
  <2> QED
    BY <2>2, Zenon DEF PublishersAreDurable, q
<1>11. pointer'.owner.token <= q(synced').token
  <2>1. pointer.owner.token <= o(synced).token
    BY <1>2, Zenon DEF LineageInv
  <2> HIDE DEF q, o
  <2> QED
    BY <1>8, <1>9, <2>1
<1>12. Below(lineage', pointer'.owner)
  BY <1>2, Zenon
<1>13. PositionAgrees' /\ OneWriterPerToken'
  BY <1>2 DEF LineageInv, PositionAgrees, OneWriterPerToken
<1>14. LineageInv'
  BY <1>2, <1>7, <1>10, <1>11, <1>12, <1>13, Zenon DEF LineageInv
<1> QED
  BY <1>1, <1>4, <1>5, <1>14

(* Steps that leave the ledger's readable part, the published numbers and    *)
(* the pointer's owner alone.                                                *)
LEMMA SameLineage ==
  ASSUME RotationInv, ledger' = ledger, synced' = synced, lineage' = lineage,
         pointer' = pointer \/ (pointer # None /\ pointer' # None /\ pointer'.owner = pointer.owner)
  PROVE  /\ GoodLedger(ledger') /\ Ordered(ledger') /\ LineageInv'
         /\ pointer' = None => synced' = Len(ledger')
<1>1. LedgerInv /\ LineageInv
  BY DEF RotationInv
<1>2. (pointer' = None) = (pointer = None)
  OBVIOUS
<1>3. pointer # None => pointer'.owner = pointer.owner
  BY Zenon
<1>4. PositionAgrees' /\ PublishersAreDurable' /\ OneWriterPerToken'
  BY <1>1, <1>2, <1>3
     DEF LineageInv, PositionAgrees, PublishersAreDurable, OneWriterPerToken
<1> QED
  BY <1>1, <1>2, <1>3, <1>4 DEF LedgerInv, LineageInv

LEMMA HandoverUnchanged ==
  ASSUME HandoverInv, UNCHANGED handoverVars
  PROVE  HandoverInv'
  BY HandoverStepInv

(* The coordinator has a pointer, and an activation under way a writer whose *)
(* last record is the pending one.                                           *)
LEMMA CoupledFacts ==
  ASSUME RotationInv, coupled
  PROVE  pointer # None /\ pointer \in Pointer /\ pointer.owner \in Owner
  BY DEF RotationInv, RotationTypeOK, Pointer

LEMMA LastRecord ==
  ASSUME RotationInv
  PROVE  /\ ledger \in Seq(Record) /\ Len(ledger) \in Nat /\ Len(ledger) >= 1
         /\ Len(ledger) \in 1..Len(ledger)
         /\ ledger[Len(ledger)] \in Record
         /\ ActiveOwner \in Owner
         /\ (PendingActivation = None) = (ledger[Len(ledger)].action # "PREPARED")
<1>1. /\ GoodLedger(ledger) /\ ledger \in Seq(Record) /\ Len(ledger) \in Nat
      /\ Len(ledger) >= 1 /\ Len(ledger) \in 1..Len(ledger)
  BY DEF RotationInv, LedgerInv, GoodLedger
<1>2. ledger[Len(ledger)] \in Record
  BY <1>1
<1>3. ActiveOwner \in Owner
  BY <1>1, OwnerType DEF ActiveOwner
<1>4. (PendingActivation = None) = (ledger[Len(ledger)].action # "PREPARED")
  BY <1>2, RecordFacts, SomeFacts DEF PendingActivation
<1> QED
  BY <1>1, <1>2, <1>3, <1>4

-----------------------------------------------------------------------------
(* OwnershipLedgerWriter::prepare, and activate_committed before it.         *)
LEMMA PrepareInv ==
  ASSUME RotationInv, NEW p \in Proofs, Prepare(p)
  PROVE  RotationInv'
<1> DEFINE a == Derive(pointer.owner, p)
           r == [action |-> "PREPARED", activation |-> a]
           N == Len(ledger)
<1>1. /\ coupled /\ rotation = None /\ writer # None /\ MayActivate(p)
      /\ writer.pending = None /\ ExtendsOwner(writer.owner, a)
      /\ UNCHANGED <<handoverVars, pointer, coupled, lineage>>
      /\ ~writer.poisoned
  BY Zenon DEF Prepare, Appends, AppendFails
<1>2. pointer # None /\ pointer \in Pointer /\ pointer.owner \in Owner /\ writer \in Writer
  BY <1>1, CoupledFacts, Zenon DEF RotationInv, RotationTypeOK
<1>3. a \in Activation /\ a # None
  BY <1>2, DeriveType, SomeFacts
<1>4. r \in Record /\ r.action = "PREPARED" /\ r.activation = a
  BY <1>3, Zenon DEF Record
<1>5. synced = N /\ ActiveOwner = writer.owner /\ PendingActivation = writer.pending /\ ~torn
  BY <1>1, Zenon DEF RotationInv, RotationTypeOK, LedgerInv
<1>6. AcceptedNext(ledger, r)
  BY <1>1, <1>4, <1>5, LastRecord DEF AcceptedNext, ActiveOwner
<1>7. HandoverInv'
  BY <1>1, HandoverUnchanged DEF RotationInv
<1>8. ActivationInv /\ RotationTypeOK /\ HandoverInv
  BY DEF RotationInv
<1>9. pointer' = pointer /\ coupled' = coupled /\ lineage' = lineage /\ active' = active
      /\ candidate' = candidate /\ publication' = publication
  BY <1>1 DEF handoverVars
<1>10. CASE /\ Appends(r)
            /\ writer' = [writer EXCEPT !.pending = a]
            /\ rotation' = [phase |-> "PREPARED", proofs |-> p]
  <2>1. ledger' = Append(ledger, r) /\ synced' = Len(ledger') /\ torn' = torn
    BY <1>10 DEF Appends
  <2>2. /\ GoodLedger(ledger') /\ Ordered(ledger') /\ Len(ledger') = N + 1
        /\ synced' \in 1..Len(ledger') /\ LineageInv'
    BY <1>2, <1>4, <1>6, <1>9, <2>1, AppendKeeps, Zenon
  <2>3. OwnerAfter(ledger', N + 1) = OwnerAfter(ledger, N)
    BY <1>4, <1>6, <2>1, LedgerAppend, Zenon DEF RotationInv, LedgerInv
  <2>4. ledger'[N + 1] = r
    BY <2>1, LastRecord
  <2>5. writer' \in Writer /\ writer'.owner = writer.owner /\ writer'.pending = a
        /\ writer'.poisoned = writer.poisoned
    BY <1>2, <1>3, <1>10 DEF Writer
  <2>6. rotation' \in Rotation /\ rotation'.phase = "PREPARED" /\ rotation'.proofs = p
    BY <1>10, Zenon DEF Rotation
  <2>7. ActiveOwner' = writer'.owner /\ PendingActivation' = writer'.pending
    BY <1>4, <1>5, <2>2, <2>3, <2>4, <2>5, Zenon DEF ActiveOwner, PendingActivation
  <2>8. RotationTypeOK'
    <3>1. writer' # None /\ ~writer'.poisoned
      BY <1>1, <2>5, SomeFacts
    <3> QED
      BY <1>1, <1>2, <1>8, <1>9, <2>1, <2>2, <2>5, <2>6, <2>7, <3>1 DEF RotationTypeOK
  <2>9. LedgerInv'
    BY <1>2, <1>5, <1>9, <2>1, <2>2, Zenon DEF LedgerInv
  <2>10. publication = "HANDOVER" /\ CandidateConverged
         /\ p["DEPTH"].succ = candidate.epoch /\ Continues(pointer.owner, p)
    BY <1>1, <1>8, Zenon DEF MayActivate, CandidateConverged, HandoverInv, PublicationSound
  <2>11. ActivationInv'
    BY <1>8, <1>9, <2>5, <2>6, <2>10 DEF ActivationInv, CandidateConverged, Continues
  <2> QED
    BY <1>7, <2>2, <2>8, <2>9, <2>11 DEF RotationInv
<1>11. CASE AppendFails(r) /\ UNCHANGED rotation
  <2>1. /\ synced' = synced /\ rotation' = None
        /\ writer' = [writer EXCEPT !.poisoned = TRUE] /\ torn' \in BOOLEAN
        /\ ledger' = ledger \/ ledger' = Append(ledger, r)
    BY <1>1, <1>8, <1>11 DEF AppendFails, RotationTypeOK
  <2>2. writer' \in Writer /\ writer'.poisoned
    BY <1>2, <2>1, Zenon DEF Writer
  <2>3. /\ GoodLedger(ledger') /\ Ordered(ledger') /\ synced' \in 1..Len(ledger') /\ LineageInv'
    <3>1. CASE ledger' = ledger
      BY <1>2, <1>8, <1>9, <2>1, <3>1, SameLineage DEF RotationTypeOK
    <3>2. CASE ledger' = Append(ledger, r)
      BY <1>2, <1>4, <1>6, <1>9, <2>1, <3>2, AppendKeeps
    <3> QED
      BY <2>1, <3>1, <3>2
  <2>4. RotationTypeOK'
    BY <1>8, <1>9, <2>1, <2>2, <2>3 DEF RotationTypeOK
  <2>5. LedgerInv'
    BY <1>2, <1>9, <2>2, <2>3 DEF LedgerInv
  <2>6. ActivationInv'
    BY <1>8, <1>9, <2>1 DEF ActivationInv
  <2> QED
    BY <1>7, <2>3, <2>4, <2>5, <2>6 DEF RotationInv
<1> QED
  BY <1>10, <1>11 DEF Prepare

(* OwnershipLedgerWriter::activate, and the pointer's gap after it.          *)
LEMMA ActivateInv ==
  ASSUME RotationInv, Activate
  PROVE  RotationInv'
<1> DEFINE r == [action |-> "ACTIVATED"]
           N == Len(ledger)
           p == rotation.proofs
           a == Derive(pointer.owner, p)
<1>1. /\ rotation # None /\ rotation.phase = "PREPARED"
      /\ UNCHANGED <<handoverVars, coupled, lineage>>
  BY DEF Activate
<1>2. HandoverInv /\ RotationTypeOK /\ LedgerInv /\ LineageInv /\ ActivationInv
  BY DEF RotationInv
<1>3. /\ rotation \in Rotation /\ coupled /\ writer \in Writer /\ writer # None
      /\ ~writer.poisoned /\ synced = N /\ ~torn
      /\ ActiveOwner = writer.owner /\ PendingActivation = writer.pending
  BY <1>1, <1>2 DEF RotationTypeOK, LedgerInv
<1>4. pointer # None /\ pointer \in Pointer /\ pointer.owner \in Owner /\ p \in Proofs
  BY <1>3, CoupledFacts DEF Rotation
<1>5. a \in Activation /\ a # None
  BY <1>4, DeriveType, SomeFacts, Zenon
<1>6. writer.pending = a /\ Continues(pointer.owner, p)
  BY <1>1, <1>2 DEF ActivationInv
<1>7. ledger[N].action = "PREPARED" /\ ledger[N].activation = a
  BY <1>3, <1>5, <1>6, Zenon DEF PendingActivation
<1>8. r \in Record /\ r.action = "ACTIVATED" /\ AcceptedNext(ledger, r)
  BY <1>7 DEF Record, AcceptedNext
<1>9. /\ coupled' = coupled /\ lineage' = lineage /\ active' = active
      /\ candidate' = candidate /\ publication' = publication
  BY <1>1 DEF handoverVars
<1>10. HandoverInv'
  BY <1>1, <1>2, HandoverUnchanged
<1>11. CASE /\ Appends(r)
            /\ writer' = [writer EXCEPT !.owner = SuccessorSnapshot(writer.pending),
                                        !.pending = None]
            /\ rotation' = [rotation EXCEPT !.phase = "ACTIVATED"]
            /\ pointer' = [pointer EXCEPT !.state = "GAP"]
  <2>1. ledger' = Append(ledger, r) /\ synced' = Len(ledger') /\ torn' = torn
    BY <1>11 DEF Appends
  <2>2. pointer' \in Pointer /\ pointer'.owner = pointer.owner /\ pointer'.state = "GAP"
    BY <1>4, <1>11 DEF Pointer
  <2>3. pointer' # None
    BY <2>2, SomeFacts, Zenon
  <2>4. /\ GoodLedger(ledger') /\ Ordered(ledger') /\ Len(ledger') = N + 1
        /\ synced' \in 1..Len(ledger') /\ LineageInv'
    BY <1>4, <1>6, <1>7, <1>8, <1>9, <2>1, <2>2, <2>3, AppendKeeps, Zenon
  <2>5. OwnerAfter(ledger', N + 1) = SuccessorSnapshot(a)
    BY <1>2, <1>7, <1>8, <2>1, LedgerAppend, Zenon DEF LedgerInv
  <2>6. ledger'[N + 1] = r /\ ledger'[N] = ledger[N] /\ (N + 1) - 1 = N
    BY <2>1, LastRecord
  <2>7. /\ writer' \in Writer /\ writer'.owner = SuccessorSnapshot(a)
        /\ writer'.pending = None /\ writer'.poisoned = writer.poisoned
    <3>1. SuccessorSnapshot(writer.pending) \in Owner
      BY <1>5, <1>6, SuccessorType
    <3> QED
      BY <1>3, <1>6, <1>11, <3>1, Zenon DEF Writer
  <2>8. rotation' \in Rotation /\ rotation'.phase = "ACTIVATED" /\ rotation'.proofs = p
    BY <1>3, <1>11, Zenon DEF Rotation
  <2>9. ActiveOwner' = writer'.owner /\ PendingActivation' = writer'.pending
    BY <1>8, <2>4, <2>5, <2>6, <2>7, Zenon DEF ActiveOwner, PendingActivation
  <2>10. RotationTypeOK'
    <3>1. writer' # None /\ ~writer'.poisoned
      BY <1>3, <2>7, SomeFacts
    <3> QED
      BY <1>2, <1>3, <1>9, <2>1, <2>2, <2>3, <2>4, <2>7, <2>8, <2>9, <3>1, Zenon DEF RotationTypeOK
  <2>11. LedgerInv'
    BY <1>3, <2>1, <2>3, <2>4, Zenon DEF LedgerInv
  <2>12. ActivationInv'
    <3>1. CandidateConverged' /\ publication' = "HANDOVER"
          /\ rotation'.proofs["DEPTH"].succ = candidate'.epoch
      BY <1>1, <1>2, <1>9, <2>8, Zenon DEF ActivationInv, CandidateConverged
    <3>2. Continues(pointer'.owner, rotation'.proofs)
      BY <1>6, <2>2, <2>8, Zenon
    <3>3. /\ ledger'[Len(ledger')].action = "ACTIVATED"
          /\ ledger'[Len(ledger') - 1].activation = Derive(pointer'.owner, rotation'.proofs)
      BY <1>7, <2>2, <2>4, <2>6, <2>8
    <3> QED
      BY <2>2, <2>8, <3>1, <3>2, <3>3, Zenon DEF ActivationInv
  <2> QED
    BY <1>10, <2>4, <2>10, <2>11, <2>12 DEF RotationInv
<1>12. CASE AppendFails(r) /\ rotation' = None /\ UNCHANGED pointer
  <2>1. /\ synced' = synced /\ rotation' = None /\ pointer' = pointer
        /\ writer' = [writer EXCEPT !.poisoned = TRUE] /\ torn' \in BOOLEAN
        /\ ledger' = ledger \/ ledger' = Append(ledger, r)
    BY <1>2, <1>12 DEF AppendFails, RotationTypeOK
  <2>2. writer' \in Writer /\ writer'.poisoned
    BY <1>3, <2>1, Zenon DEF Writer
  <2>3. /\ GoodLedger(ledger') /\ Ordered(ledger') /\ synced' \in 1..Len(ledger') /\ LineageInv'
    <3>1. CASE ledger' = ledger
      BY <1>2, <1>9, <2>1, <3>1, SameLineage DEF RotationTypeOK
    <3>2. CASE ledger' = Append(ledger, r)
      BY <1>4, <1>6, <1>7, <1>8, <1>9, <2>1, <3>2, AppendKeeps
    <3> QED
      BY <2>1, <3>1, <3>2
  <2>4. RotationTypeOK'
    BY <1>2, <1>9, <2>1, <2>2, <2>3 DEF RotationTypeOK
  <2>5. LedgerInv'
    BY <1>4, <2>1, <2>2, <2>3 DEF LedgerInv
  <2>6. ActivationInv'
    BY <1>2, <1>9, <2>1 DEF ActivationInv
  <2> QED
    BY <1>10, <2>3, <2>4, <2>5, <2>6 DEF RotationInv
<1> QED
  BY <1>11, <1>12 DEF Activate

(* Steps that leave the ledger, its writer and the published numbers alone,  *)
(* and at most shut the pointer: a failed rescan, a failed active, a call of *)
(* the controller.                                                           *)
LEMMA ShutInv ==
  ASSUME RotationInv, HandoverInv', ledger' = ledger, synced' = synced, torn' = torn,
         writer' = writer, lineage' = lineage, coupled' = coupled, rotation' = None,
         active'.epoch = active.epoch,
         pointer' = pointer \/ (pointer # None /\ pointer' = [pointer EXCEPT !.state = "GAP"])
  PROVE  RotationInv'
<1>1. RotationTypeOK /\ LedgerInv /\ LineageInv /\ ActivationInv
  BY DEF RotationInv
<1>2. /\ pointer' \in Pointer \union {None} /\ (pointer' = None) = (pointer = None)
      /\ pointer # None => pointer'.owner = pointer.owner /\ pointer'.state \in {pointer.state, "GAP"}
  <2>1. CASE pointer' = pointer
    BY <1>1, <2>1 DEF RotationTypeOK
  <2>2. CASE pointer # None /\ pointer' = [pointer EXCEPT !.state = "GAP"]
    <3>1. pointer' \in Pointer /\ pointer'.owner = pointer.owner /\ pointer'.state = "GAP"
      BY <1>1, <2>2 DEF RotationTypeOK, Pointer
    <3> QED
      BY <2>2, <3>1, SomeFacts
  <2> QED
    BY <2>1, <2>2
<1>3. /\ GoodLedger(ledger') /\ Ordered(ledger') /\ LineageInv'
      /\ pointer' = None => synced' = Len(ledger')
  BY <1>2, SameLineage
<1>4. RotationTypeOK'
  <2>1. ActiveOwner' = ActiveOwner /\ PendingActivation' = PendingActivation
    BY DEF ActiveOwner, PendingActivation
  <2> QED
    BY <1>1, <1>2, <2>1 DEF RotationTypeOK
<1>5. LedgerInv'
  BY <1>1, <1>3 DEF LedgerInv
<1>6. ActivationInv'
  <2>1. coupled => pointer # None
    BY <1>1 DEF RotationTypeOK
  <2> QED
    BY <1>1, <1>2, <2>1 DEF ActivationInv
<1> QED
  BY <1>3, <1>4, <1>5, <1>6 DEF RotationInv

LEMMA FailKeepsEpoch ==
  ASSUME HandoverInv, NEW e, FailEpoch(e)
  PROVE  active'.epoch = active.epoch
  BY DEF FailEpoch, HandoverInv, HandoverTypeOK, EpochStatus

(* Only a promotion changes the active epoch.                                *)
LEMMA ControllerInv ==
  ASSUME RotationInv, ControllerStep
  PROVE  RotationInv'
<1>1. HandoverInv /\ active \in EpochStatus
  BY DEF RotationInv, HandoverInv, HandoverTypeOK
<1>2. /\ UNCHANGED <<durable, writer, pointer, coupled, rotation, lineage>> /\ rotation = None
  BY DEF ControllerStep
<1>3. ASSUME NEW e \in Epoch, NEW s, s.epoch = e, SetStatus(e, s)
      PROVE  active'.epoch = active.epoch
  BY <1>3, Zenon DEF SetStatus
<1>4. HandoverNext /\ active'.epoch = active.epoch
  <2>1. ASSUME NEW e \in Epoch, NEW t \in EpochState, TransitionEpoch(e, t)
        PROVE  HandoverNext /\ active'.epoch = active.epoch
    <3>1. StatusOf(e) \in EpochStatus /\ StatusOf(e).epoch = e
      BY <1>1, <2>1, SlotOf DEF TransitionEpoch, HandoverInv, HandoverTypeOK
    <3>2. [StatusOf(e) EXCEPT !.state = t].epoch = e
      BY <3>1, Zenon DEF EpochStatus
    <3> QED
      BY <1>3, <2>1, <3>2, Zenon DEF TransitionEpoch, HandoverNext
  <2>2. ASSUME NEW e \in Epoch, NEW u \in UpdateId, NEW d \in BookDigest, MarkLive(e, u, d)
        PROVE  HandoverNext /\ active'.epoch = active.epoch
    BY <1>3, <2>2 DEF MarkLive, HandoverNext
  <2>3. ASSUME NEW e \in Epoch, NEW u \in UpdateId, NEW d \in BookDigest, ObserveBook(e, u, d)
        PROVE  HandoverNext /\ active'.epoch = active.epoch
    <3>1. StatusOf(e) \in EpochStatus /\ StatusOf(e).epoch = e
      BY <1>1, <2>3, SlotOf DEF ObserveBook, HandoverInv, HandoverTypeOK
    <3>2. [StatusOf(e) EXCEPT !.id = u, !.digest = d].epoch = e
      BY <3>1 DEF EpochStatus
    <3>3. FailEpoch(e) \/ SetStatus(e, [StatusOf(e) EXCEPT !.id = u, !.digest = d])
      BY <2>3 DEF ObserveBook
    <3>4. HandoverNext
      BY <2>3 DEF HandoverNext
    <3> QED
      BY <1>1, <1>3, <3>2, <3>3, <3>4, FailKeepsEpoch, Zenon
  <2>4. ASSUME ActivateInitial
        PROVE  HandoverNext /\ active'.epoch = active.epoch
    BY <1>1, <2>4 DEF ActivateInitial, HandoverNext, EpochStatus
  <2>5. ASSUME NEW e \in Epoch, BeginHandover(e)
        PROVE  HandoverNext /\ active'.epoch = active.epoch
    BY <2>5, Zenon DEF BeginHandover, HandoverNext
  <2>6. ASSUME NEW e \in Epoch, FailEpoch(e)
        PROVE  HandoverNext /\ active'.epoch = active.epoch
    BY <1>1, <2>6, FailKeepsEpoch DEF HandoverNext
  <2>7. ASSUME CloseDraining
        PROVE  HandoverNext /\ active'.epoch = active.epoch
    BY <2>7 DEF CloseDraining, HandoverNext
  <2> QED
    BY <2>1, <2>2, <2>3, <2>4, <2>5, <2>6, <2>7 DEF ControllerStep
<1>5. HandoverInv'
  BY <1>1, <1>4, HandoverStepInv
<1> QED
  BY <1>2, <1>4, <1>5, ShutInv DEF durable

LEMMA FailActiveInv ==
  ASSUME RotationInv, NEW k \in Kind, FailActive(k)
  PROVE  RotationInv'
<1>1. /\ coupled /\ rotation = None /\ pointer' = [pointer EXCEPT !.state = "GAP"]
      /\ FailEpoch(active.epoch) \/ UNCHANGED handoverVars
      /\ UNCHANGED <<durable, writer, coupled, rotation, lineage>>
  BY Zenon DEF FailActive
<1>2. HandoverInv /\ active.epoch \in Epoch
  BY DEF RotationInv, HandoverInv, HandoverTypeOK, EpochStatus
<1>3. HandoverInv' /\ active'.epoch = active.epoch
  BY <1>1, <1>2, FailEpochInv, FailKeepsEpoch, HandoverUnchanged DEF handoverVars
<1>4. pointer # None
  BY <1>1, CoupledFacts
<1> QED
  BY <1>1, <1>3, <1>4, ShutInv DEF durable

LEMMA NewCoordinatorInv ==
  ASSUME RotationInv, NewCoordinator
  PROVE  RotationInv'
<1>1. /\ pointer # None /\ ~coupled /\ coupled' = TRUE
      /\ active.epoch = pointer.owner.epoch["DEPTH"]
      /\ UNCHANGED <<handoverVars, durable, writer, pointer, rotation, lineage>>
  BY Zenon DEF NewCoordinator
<1>2. HandoverInv /\ RotationTypeOK /\ LedgerInv /\ LineageInv /\ ActivationInv
  BY DEF RotationInv
<1>3. HandoverInv'
  BY <1>1, <1>2, HandoverUnchanged, Zenon
<1>4. /\ GoodLedger(ledger') /\ Ordered(ledger') /\ LineageInv'
  BY <1>1, SameLineage, Zenon DEF durable
<1>5. rotation = None
  BY <1>1, <1>2, Zenon DEF RotationTypeOK
<1>6. RotationTypeOK'
  BY <1>1, <1>2, <1>5, Zenon DEF RotationTypeOK, durable, ActiveOwner, PendingActivation
<1>7. LedgerInv'
  BY <1>1, <1>2, Zenon DEF LedgerInv, durable
<1>8. ActivationInv'
  BY <1>1, <1>5 DEF ActivationInv, handoverVars
<1> QED
  BY <1>3, <1>4, <1>6, <1>7, <1>8, Zenon DEF RotationInv

LEMMA RescanFailsInv ==
  ASSUME RotationInv, RescanFails
  PROVE  RotationInv'
<1>1. HandoverInv'
  BY HandoverUnchanged, Zenon DEF RescanFails, RotationInv
<1> QED
  BY <1>1, ShutInv DEF RescanFails, durable, handoverVars

-----------------------------------------------------------------------------
(* The rescan: the ledger's owner is the successor the proofs name, its      *)
(* position the pointer's own, and the controller can still promote.         *)
LEMMA ActivatedOwner ==
  ASSUME RotationInv, rotation # None, rotation.phase = "ACTIVATED"
  PROVE  /\ ActiveOwner \in Owner
         /\ ActiveOwner.token = pointer.owner.token + 1
         /\ \A k \in Kind : ActiveOwner.last[k] = pointer.owner.last[k]
         /\ \A k \in Kind : ActiveOwner.epoch[k] = rotation.proofs[k].succ
         /\ ActiveOwner.epoch = [k \in Kind |-> rotation.proofs[k].succ]
         /\ synced = Len(ledger) /\ ~torn
         /\ pointer # None /\ pointer.owner \in Owner /\ rotation.proofs \in Proofs
<1> DEFINE N == Len(ledger)
           p == rotation.proofs
           a == Derive(pointer.owner, p)
<1>1. HandoverInv /\ RotationTypeOK /\ LedgerInv /\ LineageInv /\ ActivationInv
  BY DEF RotationInv
<1>2. /\ rotation \in Rotation /\ coupled /\ writer # None /\ ~writer.poisoned
      /\ synced = N /\ ~torn
  BY <1>1 DEF RotationTypeOK, LedgerInv
<1>3. pointer # None /\ pointer.owner \in Owner /\ p \in Proofs
  BY <1>2, CoupledFacts, Zenon DEF Rotation
<1>4. ledger[N].action = "ACTIVATED" /\ ledger[N - 1].activation = a /\ Continues(pointer.owner, p)
  BY <1>1, Zenon DEF ActivationInv
<1>5. ActiveOwner = SuccessorSnapshot(a)
  BY <1>1, <1>4, LastRecord, OwnerCases, Zenon DEF LedgerInv, ActiveOwner
<1>6. /\ a \in Activation /\ a.token = pointer.owner.token + 1
      /\ \A k \in Kind : a.succ[k] = p[k].succ /\ a.seq[k] = p[k].seq
  BY <1>3, DeriveType, Zenon
<1>7. \A k \in Kind : p[k].seq = pointer.owner.last[k]
  BY <1>4, Zenon DEF Continues
<1>8. a.succ = [k \in Kind |-> p[k].succ]
  BY DEF Derive
<1> HIDE DEF a
<1> QED
  BY <1>2, <1>3, <1>5, <1>6, <1>7, <1>8, SuccessorType

LEMMA RescanInv ==
  ASSUME RotationInv, Rescan
  PROVE  RotationInv'
<1>1. /\ rotation # None /\ rotation.phase = "ACTIVATED" /\ rotation' = None
      /\ UNCHANGED <<durable, writer, coupled, lineage>>
      /\ IF ExpectedSuccessor THEN Switch ELSE UNCHANGED <<handoverVars, pointer>>
  BY DEF Rescan
<1>2. HandoverInv /\ RotationTypeOK /\ LedgerInv /\ LineageInv /\ ActivationInv
  BY DEF RotationInv
<1>3. ledger' = ledger /\ synced' = synced /\ torn' = torn /\ writer' = writer
      /\ coupled' = coupled /\ lineage' = lineage
  BY <1>1 DEF durable
<1>4. CASE ~ExpectedSuccessor
  <2>1. HandoverInv' /\ active'.epoch = active.epoch /\ pointer' = pointer
    BY <1>1, <1>2, <1>4, HandoverUnchanged DEF handoverVars
  <2> QED
    BY <1>1, <1>3, <2>1, ShutInv
<1>5. CASE ExpectedSuccessor
  <2>1. publication = "HANDOVER" /\ CandidateConverged
        /\ rotation.proofs["DEPTH"].succ = candidate.epoch
    BY <1>1, <1>2 DEF ActivationInv
  <2>2. pointer' = Recovered /\ PromoteCandidate
    BY <1>1, <1>5, <2>1 DEF Switch
  <2>3. HandoverInv'
    <3>1. HandoverNext
      BY <2>2 DEF HandoverNext
    <3> QED
      BY <1>2, <3>1, HandoverStepInv
  <2>4. active'.epoch = candidate.epoch
    <3>1. candidate \in EpochStatus
      BY <1>2, <2>1, Zenon DEF HandoverInv, HandoverTypeOK, CandidateConverged
    <3> QED
      BY <2>2, <3>1 DEF PromoteCandidate, EpochStatus
  <2>5. pointer' \in Pointer /\ pointer'.owner = ActiveOwner
    BY <1>1, <2>2, ActivatedOwner DEF Recovered, Pointer
  <2>6. pointer' # None
    BY <2>5, SomeFacts, Zenon
  <2>7. ActiveOwner' = ActiveOwner /\ PendingActivation' = PendingActivation
    BY <1>3, Zenon DEF ActiveOwner, PendingActivation
  <2>8. RotationTypeOK'
    BY <1>1, <1>2, <1>3, <2>5, <2>6, <2>7, Zenon DEF RotationTypeOK
  <2>9. LedgerInv'
    BY <1>2, <1>3, <2>6, Zenon DEF LedgerInv
  <2>10. PositionAgrees'
    BY <1>1, <1>2, <1>3, <2>5, ActivatedOwner, Zenon DEF LineageInv, PositionAgrees
  <2>11. Below(lineage, ActiveOwner)
    <3>1. Below(lineage, pointer.owner) /\ lineage \in [Kind -> Seq(Published)]
      BY <1>1, <1>2, ActivatedOwner, Zenon DEF LineageInv
    <3>2. pointer.owner.token \in Nat /\ ActiveOwner.token = pointer.owner.token + 1
      BY <1>1, ActivatedOwner, OwnerFields, Zenon
    <3>3. \A k \in Kind : \A i \in 1..Len(lineage[k]) :
            lineage[k][i].token \in Nat /\ lineage[k][i].token <= pointer.owner.token
      BY <3>1, LineageTokens, Zenon DEF Below
    <3> QED
      BY <3>2, <3>3 DEF Below
  <2>12. ActiveOwner.token <= OwnerAfter(ledger, synced).token
    BY <1>1, ActivatedOwner, OwnerFields DEF ActiveOwner
  <2>13. LineageInv'
    BY <1>2, <1>3, <2>5, <2>10, <2>11, <2>12
       DEF LineageInv, PublishersAreDurable, OneWriterPerToken
  <2>14. ActivationInv'
    BY <1>1, <2>1, <2>4, <2>5, ActivatedOwner DEF ActivationInv, Kind
  <2> QED
    BY <2>3, <2>8, <2>9, <2>13, <2>14, Zenon DEF RotationInv
<1> QED
  BY <1>4, <1>5

-----------------------------------------------------------------------------
(* accept_observation: what is published next carries the owner's token.     *)
LEMMA AcceptInv ==
  ASSUME RotationInv, NEW k \in Kind, NEW e \in Epoch \union TradeEpoch, NEW t,
         NEW first \in Sequence, NEW final \in Sequence,
         AcceptObservation(k, e, t, first, final)
  PROVE  RotationInv'
<1>1. /\ coupled /\ rotation = None /\ Fence(k, e, t)
      /\ UNCHANGED <<handoverVars, durable, writer, coupled, rotation>>
  BY DEF AcceptObservation
<1>2. HandoverInv /\ RotationTypeOK /\ LedgerInv /\ LineageInv /\ ActivationInv
  BY DEF RotationInv
<1>3. pointer # None /\ pointer \in Pointer /\ pointer.owner \in Owner
  BY <1>1, CoupledFacts
<1>4. HandoverInv'
  BY <1>1, <1>2, HandoverUnchanged, Zenon
<1>5. /\ ledger' = ledger /\ synced' = synced /\ torn' = torn /\ writer' = writer
      /\ coupled' = coupled /\ rotation' = None /\ active' = active
  BY <1>1 DEF durable, handoverVars
<1>6. CASE ~Continuity(k, first, final)
  <2>1. pointer' = [pointer EXCEPT !.state = "GAP"] /\ lineage' = lineage
    BY <1>6 DEF AcceptObservation
  <2> QED
    BY <1>3, <1>4, <1>5, <2>1, ShutInv
<1>7. CASE Continuity(k, first, final)
  <2> DEFINE o == pointer.owner
             last == o.last[k]
             new == [epoch |-> e, token |-> t]
             line == [n \in 1..final |-> IF n <= last THEN lineage[k][n] ELSE new]
  <2>1. /\ pointer' = [pointer EXCEPT !.owner.last[k] = final]
        /\ lineage' = [lineage EXCEPT ![k] = line]
    BY <1>7, Zenon DEF AcceptObservation
  <2>2. final \in Nat /\ last \in Nat /\ final >= last + 1
    <3>1. final \in Nat /\ last \in Nat
      BY <1>3, OwnerFields, RotationAssumption DEF Sequence
    <3> QED
      BY <1>7, <3>1 DEF Continuity
  <2>3. /\ e = o.epoch[k] /\ t = o.token /\ o.token \in Nat
        /\ o.last \in [Kind -> Sequence] /\ \A j \in Kind : o.last[j] \in Nat
    BY <1>1, <1>3, OwnerFields DEF Fence, Owner
  <2>4. /\ pointer' \in Pointer /\ pointer'.state = pointer.state
        /\ pointer'.owner.token = o.token /\ pointer'.owner.epoch = o.epoch
        /\ pointer'.owner.last = [o.last EXCEPT ![k] = final]
    <3>1. [o.last EXCEPT ![k] = final] \in [Kind -> Sequence]
      BY <2>3
    <3>2. [o EXCEPT !.last[k] = final] \in Owner
      BY <1>3, <3>1, Zenon DEF Owner
    <3> QED
      BY <1>3, <2>1, <3>2, Zenon DEF Pointer, Owner
  <2>5. pointer' # None
    BY <2>4, SomeFacts, Zenon
  <2>6. lineage \in [Kind -> Seq(Published)] /\ PositionAgrees /\ PublishersAreDurable
        /\ OneWriterPerToken /\ Below(lineage, o) /\ o.token <= OwnerAfter(ledger, synced).token
        /\ \A n \in 1..Len(ledger) : BeforeBoundary(lineage, OwnerAfter(ledger, n))
    BY <1>2, <1>3, Zenon DEF LineageInv
  <2>7. \A j \in Kind : o.last[j] = Len(lineage[j])
    BY <1>3, <2>6, Zenon DEF PositionAgrees
  <2>8. \A j \in Kind : \A i \in 1..Len(lineage[j]) :
          lineage[j][i] \in Published /\ lineage[j][i].token \in Nat
    BY <2>6, LineageTokens, Zenon
  <2>9. new \in Published /\ new.epoch = o.epoch[k] /\ new.token = o.token
    BY <2>3, Zenon DEF Published
  <2> HIDE DEF new
  <2>10. /\ line \in Seq(Published) /\ Len(line) = final
         /\ \A i \in 1..final : line[i] = IF i <= last THEN lineage[k][i] ELSE new
    <3>1. \A i \in 1..final : (IF i <= last THEN lineage[k][i] ELSE new) \in Published
      BY <2>2, <2>7, <2>8, <2>9
    <3> QED
      BY <2>2, <3>1
  <2>11. \A i \in 1..last : i \in 1..final /\ i \in 1..Len(lineage[k]) /\ line[i] = lineage[k][i]
    BY <2>2, <2>7, <2>10
  <2>12. \A i \in 1..final : i \in 1..last \/ (i > last /\ line[i] = new)
    BY <2>2, <2>10
  <2> HIDE DEF line
  <2>13. /\ lineage' \in [Kind -> Seq(Published)] /\ lineage'[k] = line
         /\ \A j \in Kind \ {k} : lineage'[j] = lineage[j]
    BY <2>1, <2>6, <2>10, Zenon
  <2>14. PositionAgrees'
    BY <2>3, <2>4, <2>7, <2>10, <2>13, Zenon DEF PositionAgrees
  <2>15. OwnerAfter(ledger, synced).token \in Nat
    BY <1>2, OwnerType, OwnerFields, Zenon DEF LedgerInv, RotationTypeOK
  <2>16. Below(lineage', pointer'.owner)
    <3>1. \A i \in 1..final : line[i].token <= o.token
                              /\ (line[i].token = o.token => line[i].epoch = o.epoch[k])
      <4>1. \A i \in 1..last :
              lineage[k][i].token <= o.token
              /\ (lineage[k][i].token = o.token => lineage[k][i].epoch = o.epoch[k])
        BY <2>6, <2>11, Zenon DEF Below
      <4>2. new.token <= o.token
        BY <2>3, <2>9
      <4> QED
        BY <2>9, <2>11, <2>12, <4>1, <4>2, Zenon
    <3>2. ASSUME NEW j \in Kind, NEW i \in 1..Len(lineage'[j])
          PROVE  lineage'[j][i].token <= o.token
                 /\ (lineage'[j][i].token = o.token => lineage'[j][i].epoch = o.epoch[j])
      <4>1. CASE j = k
        BY <2>10, <2>13, <3>1, <3>2, <4>1, Zenon
      <4>2. CASE j # k
        BY <2>6, <2>13, <3>2, <4>2 DEF Below
      <4> QED
        BY <4>1, <4>2, Zenon
    <3> QED
      BY <2>4, <3>2 DEF Below
  <2>17. PublishersAreDurable'
    <3>1. \A i \in 1..final : line[i].token <= OwnerAfter(ledger, synced).token
      BY <2>6, <2>9, <2>11, <2>12, Zenon DEF PublishersAreDurable
    <3> QED
      BY <1>5, <2>6, <2>10, <2>13, <3>1, ZenonT(30) DEF PublishersAreDurable
  <2>18. OneWriterPerToken'
    <3>1. ASSUME NEW i \in 1..final, NEW j \in 1..final, i < j
          PROVE  line[i].token <= line[j].token
                 /\ (line[i].token = line[j].token => line[i].epoch = line[j].epoch)
      <4>1. CASE j \in 1..last
        <5>1. i \in 1..last
          BY <2>2, <3>1, <4>1
        <5> QED
          BY <2>6, <2>11, <3>1, <4>1, <5>1, Zenon DEF OneWriterPerToken
      <4>2. CASE j > last /\ line[j] = new /\ i \in 1..last
        BY <2>6, <2>9, <2>11, <4>2, Zenon DEF Below
      <4>3. CASE line[j] = new /\ line[i] = new
        BY <2>3, <2>9, <4>3
      <4> QED
        BY <2>12, <4>1, <4>2, <4>3, Zenon
    <3>2. ASSUME NEW j \in Kind, NEW a \in 1..Len(lineage'[j]), NEW b \in 1..Len(lineage'[j]),
                 a < b
          PROVE  /\ lineage'[j][a].token <= lineage'[j][b].token
                 /\ lineage'[j][a].token = lineage'[j][b].token =>
                      lineage'[j][a].epoch = lineage'[j][b].epoch
      <4>1. CASE j = k
        BY <2>10, <2>13, <3>1, <3>2, <4>1, Zenon
      <4>2. CASE j # k
        <5>1. lineage'[j] = lineage[j]
          BY <2>13, <4>2, Zenon
        <5>2. a \in 1..Len(lineage[j]) /\ b \in 1..Len(lineage[j])
          BY <3>2, <5>1, Zenon
        <5> QED
          BY <2>6, <3>2, <5>1, <5>2, Zenon DEF OneWriterPerToken
      <4> QED
        BY <4>1, <4>2, Zenon
    <3> QED
      BY <3>2, Zenon DEF OneWriterPerToken
  <2>19. ASSUME NEW n \in 1..Len(ledger)
         PROVE  BeforeBoundary(lineage', OwnerAfter(ledger, n))
    <3> DEFINE w == OwnerAfter(ledger, n)
    <3>1. BeforeBoundary(lineage, w) /\ w.last[k] \in Nat
      BY <1>2, <2>6, OwnerType, OwnerFields, Zenon DEF LedgerInv
    <3>2. w.last[k] <= last /\ w.last[k] <= final
      BY <2>2, <2>7, <3>1 DEF BeforeBoundary
    <3>3. \A i \in 1..w.last[k] : i \in 1..last /\ line[i] = lineage[k][i]
      BY <2>2, <2>11, <3>1, <3>2
    <3> HIDE DEF w
    <3>4. BeforeBoundary(lineage', w)
      BY <2>10, <2>13, <3>1, <3>2, <3>3, SMTT(15) DEF BeforeBoundary
    <3> QED
      BY <3>4, Zenon DEF w
  <2>20. LineageInv'
    BY <1>5, <2>4, <2>6, <2>13, <2>14, <2>16, <2>17, <2>18, <2>19, Zenon DEF LineageInv
  <2>21. RotationTypeOK'
    <3>1. ActiveOwner' = ActiveOwner /\ PendingActivation' = PendingActivation
      BY <1>5 DEF ActiveOwner, PendingActivation
    <3> QED
      BY <1>2, <1>5, <2>4, <2>5, <3>1 DEF RotationTypeOK
  <2>22. LedgerInv'
    BY <1>2, <1>5, <2>5 DEF LedgerInv
  <2>23. ActivationInv'
    BY <1>1, <1>2, <1>5, <2>4, Zenon DEF ActivationInv
  <2> QED
    BY <1>4, <2>20, <2>21, <2>22, <2>23 DEF RotationInv
<1> QED
  BY <1>6, <1>7

-----------------------------------------------------------------------------
(* A restarted process takes the ledger's owner and publishes again from its *)
(* boundary: what remains published carries older tokens.                    *)
LEMMA RecoverInv ==
  ASSUME RotationInv, NEW p, Recover(p)
  PROVE  RotationInv'
<1> DEFINE o == ActiveOwner
           cut(k) == SubSeq(lineage[k], 1, o.last[k])
<1>1. /\ pointer = None /\ pointer' = Recovered
      /\ lineage' = [k \in Kind |-> cut(k)]
      /\ UNCHANGED <<handoverVars, durable, writer, coupled, rotation>>
  BY DEF Recover
<1>2. HandoverInv /\ RotationTypeOK /\ LedgerInv /\ LineageInv /\ ActivationInv
  BY DEF RotationInv
<1>3. /\ ledger' = ledger /\ synced' = synced /\ torn' = torn /\ writer' = writer
      /\ coupled' = coupled /\ rotation' = rotation /\ ~coupled /\ rotation = None
  BY <1>1, <1>2 DEF durable, RotationTypeOK
<1>4. HandoverInv'
  BY <1>1, <1>2, HandoverUnchanged
<1>5. /\ o \in Owner /\ Len(ledger) \in 1..Len(ledger) /\ synced = Len(ledger)
      /\ OwnerAfter(ledger, synced) = o /\ GoodLedger(ledger) /\ Ordered(ledger)
  BY <1>1, <1>2, LastRecord, Zenon DEF LedgerInv, ActiveOwner
<1>6. pointer' \in Pointer /\ pointer'.owner = o
  BY <1>1, <1>5 DEF Recovered, Pointer
<1>7. pointer' # None
  BY <1>6, SomeFacts
<1>8. /\ lineage \in [Kind -> Seq(Published)] /\ BeforeBoundary(lineage, o)
      /\ OneWriterPerToken
      /\ \A n \in 1..Len(ledger) : BeforeBoundary(lineage, OwnerAfter(ledger, n))
  BY <1>2, <1>5, Zenon DEF LineageInv
<1>9. o.token \in Nat /\ \A k \in Kind : o.last[k] \in Nat
  BY <1>5, OwnerFields, Zenon
<1> HIDE DEF o
<1>10. ASSUME NEW k \in Kind
       PROVE  /\ lineage'[k] \in Seq(Published) /\ Len(lineage'[k]) = o.last[k]
              /\ \A i \in 1..o.last[k] : i \in 1..Len(lineage[k]) /\ lineage'[k][i] = lineage[k][i]
  <2>1. lineage[k] \in Seq(Published) /\ Len(lineage[k]) \in Nat /\ o.last[k] <= Len(lineage[k])
    BY <1>8, LineageTokens DEF BeforeBoundary
  <2>2. lineage'[k] = SubSeq(lineage[k], 1, o.last[k])
    BY <1>1, Zenon
  <2> QED
    BY <1>9, <2>1, <2>2
<1>11. lineage' \in [Kind -> Seq(Published)]
  <2>1. lineage' = [k \in Kind |-> lineage'[k]]
    BY <1>1, Zenon
  <2> QED
    BY <1>10, <2>1
<1>12. \A k \in Kind : \A i \in 1..Len(lineage'[k]) :
         lineage'[k][i].token \in Nat /\ lineage'[k][i].token < o.token
  BY <1>8, <1>10, LineageTokens, Zenon DEF BeforeBoundary
<1>13. PositionAgrees'
  BY <1>6, <1>10, Zenon DEF PositionAgrees
<1>14. PublishersAreDurable' /\ Below(lineage', pointer'.owner)
  <2>1. \A k \in Kind : \A i \in 1..Len(lineage'[k]) :
          lineage'[k][i].token <= o.token /\ lineage'[k][i].token # o.token
    BY <1>9, <1>12
  <2> QED
    BY <1>3, <1>5, <1>6, <2>1, Zenon DEF PublishersAreDurable, Below
<1>15. OneWriterPerToken'
  <2>1. ASSUME NEW k \in Kind, NEW i \in 1..o.last[k], NEW j \in 1..o.last[k], i < j
        PROVE  /\ lineage'[k][i].token <= lineage'[k][j].token
               /\ lineage'[k][i].token = lineage'[k][j].token =>
                    lineage'[k][i].epoch = lineage'[k][j].epoch
    <3>1. /\ i \in 1..Len(lineage[k]) /\ lineage'[k][i] = lineage[k][i]
          /\ j \in 1..Len(lineage[k]) /\ lineage'[k][j] = lineage[k][j]
      BY <1>10, Zenon
    <3> QED
      BY <1>8, <2>1, <3>1, Zenon DEF OneWriterPerToken
  <2>2. \A k \in Kind : Len(lineage'[k]) = o.last[k]
    BY <1>10
  <2> QED
    BY <2>1, <2>2 DEF OneWriterPerToken
<1>16. ASSUME NEW n \in 1..Len(ledger)
       PROVE  BeforeBoundary(lineage', OwnerAfter(ledger, n))
  <2> DEFINE w == OwnerAfter(ledger, n)
  <2>1. n <= Len(ledger)
    BY <1>5
  <2>2. /\ BeforeBoundary(lineage, w) /\ \A k \in Kind : w.last[k] \in Nat
        /\ \A k \in Kind : w.last[k] <= o.last[k]
    <3>1. BeforeBoundary(lineage, w) /\ w \in Owner
      BY <1>5, <1>8, OwnerType, Zenon
    <3>2. \A k \in Kind : w.last[k] <= OwnerAfter(ledger, Len(ledger)).last[k]
      BY <1>5, <2>1, Zenon DEF Ordered
    <3> HIDE DEF w
    <3> QED
      BY <1>5, <3>1, <3>2, OwnerFields, Zenon
  <2> HIDE DEF w
  <2>3. \A k \in Kind : \A i \in 1..w.last[k] : i \in 1..o.last[k]
    BY <1>9, <2>2
  <2>4. BeforeBoundary(lineage', w)
    BY <1>10, <2>2, <2>3, Zenon DEF BeforeBoundary
  <2> QED
    BY <2>4 DEF w
<1>17. LineageInv'
  <2>1. o.token <= OwnerAfter(ledger, synced).token
    BY <1>5, <1>9
  <2> QED
    BY <1>3, <1>6, <1>11, <1>13, <1>14, <1>15, <1>16, <2>1, Zenon DEF LineageInv
<1>18. RotationTypeOK'
  <2>1. ActiveOwner' = ActiveOwner /\ PendingActivation' = PendingActivation
    BY <1>3, Zenon DEF ActiveOwner, PendingActivation
  <2> QED
    BY <1>2, <1>3, <1>6, <1>7, <2>1, Zenon DEF RotationTypeOK
<1>19. LedgerInv'
  BY <1>2, <1>3, <1>7, Zenon DEF LedgerInv
<1>20. ActivationInv'
  BY <1>3 DEF ActivationInv
<1> QED
  BY <1>4, <1>17, <1>18, <1>19, <1>20 DEF RotationInv

(* The controller of a new process starts again.                             *)
LEMMA HandoverRestart == HandoverInit' => HandoverInv'
  BY HandoverInitInv, PTL

LEMMA CrashInv ==
  ASSUME RotationInv, Crash
  PROVE  RotationInv'
<1>1. PICK n \in synced..Len(ledger) :
        /\ ledger' = SubSeq(ledger, 1, n) /\ synced' = n
        /\ torn' \in {FALSE, torn \/ n < Len(ledger)}
  BY Zenon DEF Crash
<1>2. HandoverInv /\ RotationTypeOK /\ LedgerInv /\ LineageInv /\ ActivationInv
  BY Zenon DEF RotationInv
<1>3. /\ writer' = None /\ pointer' = None /\ coupled' = FALSE /\ rotation' = None
      /\ lineage' = lineage
  BY DEF Crash
<1>4. HandoverInv'
  <2>1. HandoverInit'
    BY Zenon DEF Crash, HandoverInit
  <2> QED
    BY <2>1, HandoverRestart, Zenon
<1>5. /\ GoodLedger(ledger) /\ Ordered(ledger) /\ Len(ledger) \in Nat
      /\ synced \in 1..Len(ledger) /\ n \in 1..Len(ledger) /\ synced <= n
  BY <1>1, <1>2, LastRecord DEF LedgerInv, RotationTypeOK
<1>6. /\ GoodLedger(ledger') /\ Ordered(ledger') /\ Len(ledger') = n
      /\ \A i \in 1..n : OwnerAfter(ledger', i) = OwnerAfter(ledger, i)
  BY <1>1, <1>5, LedgerCut, OrderCut
<1>7. torn' \in BOOLEAN
  BY <1>1, Zenon
<1>8. RotationTypeOK'
  <2>0. coupled' \in BOOLEAN /\ ~coupled'
    BY <1>3, Zenon
  <2>1. synced' \in 1..Len(ledger')
    <3>1. synced' = n /\ Len(ledger') = n /\ n \in Nat /\ 1 <= n
      BY <1>1, <1>5, <1>6
    <3> QED
      BY <3>1
  <2>2. /\ writer' \in Writer \union {None} /\ pointer' \in Pointer \union {None}
        /\ rotation' \in Rotation \union {None}
        /\ ~(writer' # None) /\ ~(rotation' # None)
    BY <1>3, Zenon
  <2> QED
    BY <1>7, <2>0, <2>1, <2>2 DEF RotationTypeOK
<1>9. LedgerInv'
  BY <1>1, <1>3, <1>6, Zenon DEF LedgerInv
<1>10. PublishersAreDurable'
  <2>1. /\ OwnerAfter(ledger, synced).token <= OwnerAfter(ledger, n).token
        /\ OwnerAfter(ledger, synced).token \in Nat /\ OwnerAfter(ledger, n).token \in Nat
    BY <1>5, OwnerType, OwnerFields, Zenon DEF Ordered
  <2>2. OwnerAfter(ledger', synced').token = OwnerAfter(ledger, n).token
    BY <1>1, <1>5, <1>6
  <2>3. ASSUME NEW k \in Kind, NEW i \in 1..Len(lineage[k])
        PROVE  lineage[k][i].token <= OwnerAfter(ledger, n).token
    <3>1. lineage[k][i].token \in Nat /\ lineage[k][i].token <= OwnerAfter(ledger, synced).token
      BY <1>2, LineageTokens, Zenon DEF LineageInv, PublishersAreDurable
    <3> QED
      BY <2>1, <3>1
  <2> QED
    BY <1>3, <2>2, <2>3, Zenon DEF PublishersAreDurable
<1>11. LineageInv'
  <2>1. \A i \in 1..Len(ledger') : BeforeBoundary(lineage', OwnerAfter(ledger', i))
    <3>1. \A i \in 1..n : i \in 1..Len(ledger)
      BY <1>5
    <3> QED
      BY <1>2, <1>3, <1>6, <3>1 DEF LineageInv
  <2> QED
    BY <1>2, <1>3, <1>10, <2>1, Zenon DEF LineageInv, PositionAgrees, OneWriterPerToken
<1>12. ActivationInv'
  BY <1>3 DEF ActivationInv
<1> QED
  BY <1>4, <1>8, <1>9, <1>11, <1>12 DEF RotationInv

LEMMA RotationStutter ==
  ASSUME RotationInv, UNCHANGED rotationVars
  PROVE  RotationInv'
<1>1. HandoverInv'
  BY HandoverUnchanged DEF RotationInv, rotationVars
<1>2. /\ UNCHANGED <<ledger, synced, torn, writer, pointer, coupled, rotation, lineage>>
      /\ UNCHANGED handoverVars
  BY Zenon DEF rotationVars
<1>3. LineageInv'
  BY <1>2, SameLineage, Zenon
<1>4. RotationTypeOK'
  BY <1>2, Zenon DEF RotationInv, RotationTypeOK, ActiveOwner, PendingActivation
<1>5. LedgerInv'
  BY <1>2, Zenon DEF RotationInv, LedgerInv
<1>6. ActivationInv'
  BY <1>2, Zenon DEF RotationInv, ActivationInv, CandidateConverged, handoverVars
<1> QED
  BY <1>1, <1>3, <1>4, <1>5, <1>6 DEF RotationInv

LEMMA RotationStepInv == RotationInv /\ [RotationNext]_rotationVars => RotationInv'
<1> SUFFICES ASSUME RotationInv, [RotationNext]_rotationVars
             PROVE  RotationInv'
  OBVIOUS
<1>1. CASE \E p \in Proofs : Prepare(p) \/ Recover(p)
  BY <1>1, PrepareInv, RecoverInv
<1>2. CASE Activate \/ Rescan \/ RescanFails
  BY <1>2, ActivateInv, RescanInv, RescanFailsInv, Zenon
<1>3. CASE /\ coupled
           /\ \E k \in Kind, first, final \in Sequence :
                \E e \in Epoch \union TradeEpoch, t \in 1..pointer.owner.token :
                  AcceptObservation(k, e, t, first, final)
  BY <1>3, AcceptInv
<1>4. CASE \E k \in Kind : FailActive(k)
  BY <1>4, FailActiveInv
<1>5. CASE Recover(None) \/ NewCoordinator \/ ControllerStep \/ Crash
  BY <1>5, RecoverInv, NewCoordinatorInv, ControllerInv, CrashInv
<1>6. CASE UNCHANGED rotationVars
  BY <1>6, RotationStutter
<1> QED
  BY <1>1, <1>2, <1>3, <1>4, <1>5, <1>6 DEF RotationNext

-----------------------------------------------------------------------------
(* The rotation's state keeps its type through failed appends and restarts.  *)
THEOREM RotationTypeCorrect == RotationSpec => []RotationTypeOK
<1>1. RotationInv => RotationTypeOK
  BY Zenon DEF RotationInv
<1> QED
  BY RotationInitInv, RotationStepInv, <1>1, PTL DEF RotationSpec

(* Every token under which something was published is that of an owner the   *)
(* synced records of the ownership ledger name: no crash takes back the      *)
(* authority for what a reader has seen.                                     *)
THEOREM PublishersAreDurableHolds == RotationSpec => []PublishersAreDurable
<1>1. RotationInv => PublishersAreDurable
  BY Zenon DEF RotationInv, LineageInv
<1> QED
  BY RotationInitInv, RotationStepInv, <1>1, PTL DEF RotationSpec

(* The pointer's positions are the lengths of what was published.            *)
THEOREM PositionAgreesHolds == RotationSpec => []PositionAgrees
<1>1. RotationInv => PositionAgrees
  BY Zenon DEF RotationInv, LineageInv
<1> QED
  BY RotationInitInv, RotationStepInv, <1>1, PTL DEF RotationSpec

(* A process that recovers from the ledger starts at or before the end of    *)
(* what was published, whatever record the last process lost.                *)
THEOREM RecoveryNeverSkipsHolds == RotationSpec => []RecoveryNeverSkips
<1>1. RotationInv => RecoveryNeverSkips
  <2> SUFFICES ASSUME RotationInv
               PROVE  RecoveryNeverSkips
    BY Zenon
  <2>1. BeforeBoundary(lineage, ActiveOwner)
    BY LastRecord, Zenon DEF RotationInv, LineageInv, ActiveOwner
  <2> QED
    BY <2>1 DEF BeforeBoundary, RecoveryNeverSkips
<1> QED
  BY RotationInitInv, RotationStepInv, <1>1, PTL DEF RotationSpec

(* In each stream the fencing tokens never decrease, and one token is used   *)
(* by one epoch only.                                                        *)
THEOREM OneWriterPerTokenHolds == RotationSpec => []OneWriterPerToken
<1>1. RotationInv => OneWriterPerToken
  BY Zenon DEF RotationInv, LineageInv
<1> QED
  BY RotationInitInv, RotationStepInv, <1>1, PTL DEF RotationSpec

(* While the pointer publishes, the ledger's owner and the controller's      *)
(* active epoch are one.                                                     *)
THEOREM AuthoritiesAgreeHolds == RotationSpec => []AuthoritiesAgree
<1>1. RotationInv => AuthoritiesAgree
  BY DEF RotationInv, ActivationInv, AuthoritiesAgree
<1> QED
  BY RotationInitInv, RotationStepInv, <1>1, PTL DEF RotationSpec

(* The controller's publication is sound also when the coordinator drives it *)
(* and the process restarts.                                                 *)
THEOREM PublicationSoundInRotation == RotationSpec => []PublicationSound
<1>1. RotationInv => PublicationSound
  BY Zenon DEF RotationInv, HandoverInv
<1> QED
  BY RotationInitInv, RotationStepInv, <1>1, PTL DEF RotationSpec

(* The rescan of the ledger finds the successor that the proofs name.        *)
LEMMA SuccessorIsExpected ==
  ASSUME RotationInv, rotation # None, rotation.phase = "ACTIVATED"
  PROVE  ExpectedSuccessor
<1> DEFINE N == Len(ledger)
           p == rotation.proofs
           a == Derive(pointer.owner, p)
<1>1. LedgerInv /\ ActivationInv
  BY Zenon DEF RotationInv
<1>2. ledger[N].action = "ACTIVATED" /\ ledger[N - 1].activation = a
  BY <1>1, Zenon DEF ActivationInv
<1>3. LastActivation = a
  BY <1>2, Zenon DEF LastActivation, Settled
<1>4. a \in Activation /\ a # None /\ p # None
      /\ \A k \in Kind : a.pred[k] = p[k].pred /\ a.succ[k] = p[k].succ /\ a.seq[k] = p[k].seq
  BY ActivatedOwner, DeriveType, SomeFacts, Zenon
<1>5. Proves(LastActivation, p)
  BY <1>3, <1>4, Zenon DEF Proves
<1>6. CleanEof /\ ledger # <<>>
  BY <1>1, ActivatedOwner, LastRecord DEF LedgerInv, GoodLedger, CleanEof
<1> QED
  BY <1>5, <1>6, ActivatedOwner DEF ExpectedSuccessor, Recoverable

(* An activation under way can always be completed: the promotion's          *)
(* conditions still hold, and the rescan finds the expected successor        *)
(* (comment live_rotation.rs:120).                                           *)
THEOREM PromotionIsGuaranteed == RotationSpec => []PromotionGuaranteed
<1>1. RotationInv => PromotionGuaranteed
  <2> SUFFICES ASSUME RotationInv, rotation # None
               PROVE  /\ publication = "HANDOVER" /\ CandidateConverged
                      /\ rotation.phase = "ACTIVATED" => ExpectedSuccessor /\ pointer.state = "GAP"
    BY DEF PromotionGuaranteed
  <2> QED
    BY SuccessorIsExpected DEF RotationInv, ActivationInv
<1> QED
  BY RotationInitInv, RotationStepInv, <1>1, PTL DEF RotationSpec
=============================================================================
