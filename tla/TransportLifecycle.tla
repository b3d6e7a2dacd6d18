------------------------- MODULE TransportLifecycle -------------------------
(***************************************************************************)
(* What a public WebSocket session promises to whoever drives handovers:   *)
(* TransportState and the lifecycle actions of rust/lob-replay/src/        *)
(* transport.rs, without frames, times and pings.  The session announces a *)
(* shutdown at most once, ends once, and says so exactly once.             *)
(***************************************************************************)
EXTENDS Sequences

VARIABLES state, signals
lifecycle == <<state, signals>>

Terminal == {"CLOSED", "FAILED"}

LifecycleInit == state = "OPEN" /\ signals = <<>>

Announce ==
  /\ state = "OPEN"
  /\ state' = "SHUTDOWN_ANNOUNCED"
  /\ signals' = Append(signals, "BEGIN_HANDOVER")
Close ==
  /\ state \notin Terminal
  /\ state' = "CLOSED"
  /\ signals' = Append(signals, "EPOCH_CLOSED")
Invalidate ==
  /\ state \notin Terminal
  /\ state' = "FAILED"
  /\ signals' = Append(signals, "INVALIDATE_EPOCH")

LifecycleNext == Announce \/ Close \/ Invalidate
LifecycleSpec == LifecycleInit /\ [][LifecycleNext]_lifecycle
=============================================================================
