------------------------------ MODULE Handover ------------------------------
(***************************************************************************)
(* The handover of depth publication from one connection epoch to the      *)
(* next: HandoverController of rust/lob-replay/src/handover.rs.            *)
(*                                                                         *)
(* A book is its last update id and a digest of its levels.  Calls that    *)
(* return Err without an effect are not steps; observe_book on a           *)
(* contradicting book returns Err after it failed the epoch, and is one.   *)
(* The event log is left out; failures keeps the epochs it names.          *)
(***************************************************************************)
EXTENDS Integers

CONSTANTS Epoch, UpdateId, BookDigest, None

ASSUME HandoverAssumption ==
  /\ UpdateId \subseteq Nat
  /\ None \notin UpdateId /\ None \notin BookDigest

EpochState == {"CONNECTING", "BUFFERING", "SNAPSHOTTING", "SYNCING", "LIVE", "ACTIVE",
               "DRAINING", "CLOSED", "FAILED"}
PublicationState == {"UNAVAILABLE", "LIVE", "HANDOVER", "GAP"}
EpochStatus ==
  [epoch : Epoch, state : EpochState,
   id : UpdateId \union {None}, digest : BookDigest \union {None}]

ASSUME StatusAssumption == None \notin EpochStatus

VARIABLES publication, active, candidate, draining, usedEpochs, failures
handoverVars == <<publication, active, candidate, draining, usedEpochs, failures>>

Connecting(e) == [epoch |-> e, state |-> "CONNECTING", id |-> None, digest |-> None]

HandoverInit ==
  \E e \in Epoch :
    /\ publication = "UNAVAILABLE"
    /\ active = Connecting(e)
    /\ candidate = None /\ draining = None
    /\ usedEpochs = {e} /\ failures = {}

-----------------------------------------------------------------------------
Known(e) == \E s \in {active, candidate, draining} \ {None} : s.epoch = e

(* epoch: the active epoch first, then the candidate, then the draining.    *)
StatusOf(e) ==
  IF active.epoch = e THEN active
  ELSE IF candidate # None /\ candidate.epoch = e THEN candidate ELSE draining

(* epoch_mut, and an assignment through it.                                 *)
SetStatus(e, s) ==
  /\ active' = IF active.epoch = e THEN s ELSE active
  /\ candidate' = IF active.epoch # e /\ candidate # None /\ candidate.epoch = e
                  THEN s ELSE candidate
  /\ draining' = IF active.epoch # e /\ ~(candidate # None /\ candidate.epoch = e)
                 THEN s ELSE draining

(* transition_epoch's only legal steps.                                     *)
Follows(from, to) ==
  <<from, to>> \in {<<"CONNECTING", "BUFFERING">>, <<"BUFFERING", "SNAPSHOTTING">>,
                    <<"SNAPSHOTTING", "SYNCING">>}

TransitionEpoch(e, target) ==
  /\ Known(e) /\ Follows(StatusOf(e).state, target)
  /\ SetStatus(e, [StatusOf(e) EXCEPT !.state = target])
  /\ UNCHANGED <<publication, usedEpochs, failures>>

MarkLive(e, u, d) ==
  /\ Known(e) /\ StatusOf(e).state = "SYNCING"
  /\ SetStatus(e, [epoch |-> e, state |-> "LIVE", id |-> u, digest |-> d])
  /\ UNCHANGED <<publication, usedEpochs, failures>>

ActivateInitial ==
  /\ publication = "UNAVAILABLE" /\ candidate = None /\ draining = None
  /\ active.state = "LIVE"
  /\ active' = [active EXCEPT !.state = "ACTIVE"]
  /\ publication' = "LIVE"
  /\ UNCHANGED <<candidate, draining, usedEpochs, failures>>

\* Mutant: a handover may begin while the last one drains.
MayHandOverEarly(e) ==
  /\ publication = "LIVE" /\ active.state = "ACTIVE"
  /\ candidate = None
  /\ e \notin usedEpochs
MayHandOver(e) ==
  /\ publication = "LIVE" /\ active.state = "ACTIVE"
  /\ candidate = None /\ draining = None
  /\ e \notin usedEpochs

BeginHandover(e) ==
  /\ MayHandOver(e)
  /\ candidate' = Connecting(e)
  /\ usedEpochs' = usedEpochs \union {e}
  /\ publication' = "HANDOVER"
  /\ UNCHANGED <<active, draining, failures>>

(* fail_epoch looks among the active, the draining and the candidate epoch, *)
(* in that order.                                                           *)
FailEpoch(e) ==
  /\ failures' = failures \union {e}
  /\ UNCHANGED usedEpochs
  /\ IF active.epoch = e
     THEN /\ active.state \notin {"FAILED", "CLOSED"}
          /\ active' = [active EXCEPT !.state = "FAILED"]
          /\ publication' = "GAP"
          /\ UNCHANGED <<candidate, draining>>
     ELSE IF draining # None /\ draining.epoch = e
     THEN draining' = None /\ UNCHANGED <<active, candidate, publication>>
     ELSE /\ candidate # None /\ candidate.epoch = e
          /\ candidate' = None
          /\ publication' = "LIVE"
          /\ UNCHANGED <<active, draining>>

(* A book seen on an epoch contradicts the one it had.                      *)
Contradicts(s, u, d) == s.id # None /\ (u < s.id \/ (u = s.id /\ d # s.digest))

ObserveBook(e, u, d) ==
  /\ Known(e)
  /\ LET s == StatusOf(e) IN
       /\ s.state \in {"LIVE", "ACTIVE", "DRAINING"}
       /\ IF Contradicts(s, u, d)
          THEN FailEpoch(e)
          ELSE /\ SetStatus(e, [s EXCEPT !.id = u, !.digest = d])
               /\ UNCHANGED <<publication, usedEpochs, failures>>

CandidateConverged ==
  /\ candidate # None /\ candidate.state = "LIVE" /\ active.state = "ACTIVE"
  /\ candidate.id = active.id /\ candidate.digest = active.digest
  /\ candidate.id # None

PromoteCandidate ==
  /\ publication = "HANDOVER" /\ CandidateConverged
  /\ draining' = [active EXCEPT !.state = "DRAINING"]
  /\ active' = [candidate EXCEPT !.state = "ACTIVE"]
  /\ candidate' = None
  /\ publication' = "LIVE"
  /\ UNCHANGED <<usedEpochs, failures>>

(* close_draining takes the epoch out even when it was not draining.        *)
CloseDraining ==
  /\ draining # None
  /\ draining' = None
  /\ UNCHANGED <<publication, active, candidate, usedEpochs, failures>>

RotationDeadlineExpired ==
  /\ publication = "HANDOVER"
  /\ FailEpoch(active.epoch)

HandoverNext ==
  \/ \E e \in Epoch, t \in EpochState : TransitionEpoch(e, t)
  \/ \E e \in Epoch, u \in UpdateId, d \in BookDigest : MarkLive(e, u, d) \/ ObserveBook(e, u, d)
  \/ ActivateInitial
  \/ \E e \in Epoch : BeginHandover(e) \/ FailEpoch(e)
  \/ PromoteCandidate
  \/ CloseDraining
  \/ RotationDeadlineExpired

HandoverSpec == HandoverInit /\ [][HandoverNext]_handoverVars

-----------------------------------------------------------------------------
(* The controller's state keeps its type, and each slot holds an epoch in a *)
(* state that slot can be in.                                               *)
HandoverTypeOK ==
  /\ publication \in PublicationState
  /\ active \in EpochStatus
  /\ candidate \in EpochStatus \union {None} /\ draining \in EpochStatus \union {None}
  /\ usedEpochs \subseteq Epoch /\ failures \subseteq Epoch
  /\ active.state \notin {"DRAINING", "CLOSED"}
  /\ candidate # None => candidate.state \notin {"ACTIVE", "DRAINING", "CLOSED", "FAILED"}
  /\ draining # None => draining.state = "DRAINING" /\ draining.id # None

(* An active epoch is being published, LIVE or during a HANDOVER; a         *)
(* HANDOVER has both its epochs; a GAP is declared only over an active      *)
(* epoch that failed; a candidate never meets a draining epoch.             *)
PublicationSound ==
  /\ active.state = "ACTIVE" => publication \in {"LIVE", "HANDOVER"} /\ active.id # None
  /\ publication = "HANDOVER" => active.state = "ACTIVE" /\ candidate # None
  /\ publication = "GAP" => active.state = "FAILED"
  /\ candidate # None => draining = None /\ publication \in {"HANDOVER", "GAP"}

(* Epochs are used once: the slots hold different epochs, all recorded as   *)
(* used, and an epoch that failed stays out of every slot but the active    *)
(* one, where it shows as FAILED.                                           *)
EpochsUsedOnce ==
  /\ candidate # None => candidate.epoch # active.epoch
  /\ draining # None => draining.epoch # active.epoch
  /\ \A s \in {active, candidate, draining} \ {None} : s.epoch \in usedEpochs
  /\ failures \subseteq usedEpochs
  /\ active.epoch \in failures <=> active.state = "FAILED"
  /\ \A s \in {candidate, draining} \ {None} : s.epoch \notin failures

(* Publication never goes back and never changes its mind: while an epoch   *)
(* is active before and after a step, whether or not the step promoted, the *)
(* published update id does not decrease, and the same id keeps its digest. *)
BookNeverRegresses ==
  [][active.state = "ACTIVE" /\ active'.state = "ACTIVE" =>
       /\ active'.id >= active.id
       /\ active'.id = active.id => active'.digest = active.digest]_handoverVars

(* The predecessor of a promotion stays reachable until it is closed or     *)
(* fails: an epoch leaves the active slot only into the draining one.       *)
PredecessorDrains ==
  [][active'.epoch # active.epoch =>
       draining' # None /\ draining'.epoch = active.epoch /\ draining'.id = active'.id]_handoverVars

(* A candidate's failure preserves the active publication, and an active    *)
(* disconnect before promotion is a gap (the tests of those names in        *)
(* tests/handover_faults.rs): while publication says LIVE the active epoch  *)
(* is serving.                                                              *)
LiveMeansServing == publication = "LIVE" => active.state = "ACTIVE"
=============================================================================
