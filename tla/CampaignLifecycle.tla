-------------------------- MODULE CampaignLifecycle --------------------------
(***************************************************************************)
(* The grammar verify_raw_campaign accepts of a campaign's journal:        *)
(* validate_campaign_lifecycle of rust/lob-replay/src/campaign_artifact.rs. *)
(*                                                                         *)
(* The verifier folds over the journal's records, so it is given here as   *)
(* the state of that fold, one operator per record and the checks it makes *)
(* at the end.  A record's place in the journal is the moment its operator *)
(* is applied; t is its campaign_mono_ns.  Digests, schemas and paths are  *)
(* bound to the generation named by the index.                             *)
(***************************************************************************)
EXTENDS Integers

CONSTANTS
  Gen,        \* generation indices, 0..n
  Total,      \* requested duration
  StartupGrace, \* CAMPAIGN_STARTUP_GRACE_NS
  None

Start ==
  [ok |-> TRUE, launched |-> {}, registered |-> {}, proofs |-> {}, promoted |-> {},
   started |-> [g \in Gen |-> None],
   ended |-> {}, exited |-> {},
   apart |-> {},     \* ended or exited no later than the successor started
   short |-> {},     \* ended or exited before the requested duration
   active |-> None, pending |-> None, warmed |-> None,
   available |-> [g \in Gen |-> 0],     \* shutdowns without a disposition
   prepared |-> None,   \* the generations over when the result was prepared
   committed |-> FALSE]

(* The first record that breaks a rule ends the fold.                       *)
Reject(v) == [Start EXCEPT !.ok = FALSE]
When(guard, v, next) == IF v.ok /\ guard THEN next ELSE Reject(v)

Running(v, g) == v.started[g] # None /\ g \notin v.ended

(* What the end of a generation at t says for the checks made at the end.   *)
EndAt(v, g, t) ==
  [v EXCEPT !.apart = IF g + 1 \in Gen /\ v.started[g + 1] # None /\ v.started[g + 1] < t
                      THEN @ ELSE @ \union {g},
            !.short = IF t < Total THEN @ \union {g} ELSE @]

-----------------------------------------------------------------------------
(* The records of a child's stdout.                                         *)
ChildLine(v, g) == When(Running(v, g), v, v)

ProcessStarted(v, g, t) ==
  When(g \in v.launched /\ v.started[g] = None, v, [v EXCEPT !.started[g] = t])

(* A generation ends only after the handover that made it active, and after *)
(* its successor started.                                                   *)
ProcessTerminal(v, g, complete, t) ==
  When(Running(v, g) /\ complete /\ (g = 0 \/ g \in v.promoted), v,
       [EndAt(v, g, t) EXCEPT !.ended = @ \union {g}])

ServerShutdownDurable(v, g) == When(Running(v, g), v, [v EXCEPT !.available[g] = @ + 1])

-----------------------------------------------------------------------------
(* The records of the campaign.                                             *)
Immediate(v, g) == g # 0 /\ v.active = g - 1 /\ v.pending = None /\ v.warmed = None
WarmAhead(v, g) == g >= 2 /\ v.active = g - 2 /\ v.pending = g - 1 /\ v.warmed = None

Launched(v, g) ==
  LET w == [v EXCEPT !.launched = @ \union {g}]
  IN  IF g \in v.launched THEN Reject(v)
      ELSE IF g = 0
      THEN When(v.active = None /\ v.pending = None /\ v.warmed = None, v, w)
      ELSE IF Immediate(v, g) THEN When(TRUE, v, [w EXCEPT !.pending = g])
      ELSE When(WarmAhead(v, g), v, [w EXCEPT !.warmed = g])

LaunchedServerShutdown(v, g, source) ==
  When(/\ g \notin v.launched /\ Immediate(v, g) /\ source + 1 = g
       /\ source \notin v.ended /\ source \notin v.exited
       /\ v.active = source /\ v.available[source] > 0,
       v, [v EXCEPT !.launched = @ \union {g}, !.pending = g, !.available[source] = @ - 1])

GenerationExited(v, g, success, t) ==
  When(g \notin v.exited /\ g \in v.ended /\ success, v,
       [EndAt(v, g, t) EXCEPT !.exited = @ \union {g}])

HandoverProofStarted(v, p) ==
  When(/\ p \notin v.proofs
       /\ v.active = p /\ v.pending = p + 1 /\ p + 1 \in v.registered
       /\ p \in v.exited /\ Running(v, p + 1),
       v, [v EXCEPT !.proofs = @ \union {p}])

EvaluationPrepared(v) ==
  When(v.prepared = None, v, [v EXCEPT !.prepared = v.ended \intersect v.exited])
CampaignCommitted(v) == When(~v.committed, v, [v EXCEPT !.committed = TRUE])

-----------------------------------------------------------------------------
(* The records of the supervisor.                                           *)
InitialActiveRegistered(v) ==
  When(v.active = None /\ v.started[0] # None, v, [v EXCEPT !.active = 0])

(* A warmed generation becomes the candidate when it is registered.         *)
CandidateRegistered(v, g) ==
  LET w == IF v.warmed = g /\ v.pending = None /\ v.active = g - 1
           THEN [v EXCEPT !.warmed = None, !.pending = g] ELSE v
  IN  When(/\ g # 0 /\ w.started[g] # None
           /\ w.active = g - 1 /\ w.pending = g /\ g \notin w.registered,
           v, [w EXCEPT !.registered = @ \union {g}])

HandoverPromoted(v, p) ==
  When(/\ p \in v.proofs /\ p + 1 \in v.registered
       /\ v.active = p /\ v.pending = p + 1
       /\ p + 1 \notin v.promoted /\ p + 1 \notin v.ended,
       v, [v EXCEPT !.promoted = @ \union {p + 1}, !.active = p + 1, !.pending = None])

ShutdownIgnored(v, g) ==
  When(v.active # g /\ v.available[g] > 0, v, [v EXCEPT !.available[g] = @ - 1])

ShutdownAlreadyPending(v, g) ==
  When(v.active = g /\ v.pending # None /\ v.available[g] > 0,
       v, [v EXCEPT !.available[g] = @ - 1])

-----------------------------------------------------------------------------
(* The checks at the end, for n generations of the given durations.         *)
Complete(v, n) ==
  /\ v.prepared # None /\ v.committed
  /\ v.active = n - 1 /\ v.pending = None /\ v.warmed = None
  /\ \A g \in Gen : v.available[g] = 0
  /\ v.launched = 0..(n - 1)
  /\ \A g \in 0..(n - 1) : v.started[g] # None /\ g \in v.ended /\ g \in v.exited
  /\ v.proofs = 0..(n - 2) /\ v.promoted = 1..(n - 1)

(* The first generation starts within the grace; every other starts before  *)
(* its predecessor ends and inside the window its predecessors declared;    *)
(* the windows reach the requested duration, and the last generation does   *)
(* too and was over when the result was prepared.                           *)
Contiguous(v, n, duration) ==
  LET End(g) == v.started[g] + duration[g] IN
  /\ v.started[0] <= StartupGrace
  /\ \A g \in 1..(n - 1) :
       /\ g - 1 \notin v.apart
       /\ v.started[g - 1] < v.started[g]
       /\ \E h \in 0..(g - 1) : v.started[g] <= End(h)
  /\ \E g \in 0..(n - 1) : End(g) >= Total
  /\ n - 1 \notin v.short /\ n - 1 \in v.prepared

Accepts(v, n, duration) == v.ok /\ Complete(v, n) /\ Contiguous(v, n, duration)
=============================================================================
