-------------------------- MODULE TransportJournal --------------------------
(* The grammar of a producer's transport journal (transport_journal.rs): a   *)
(* journal is the sequence of its event names, with TRANSPORT_TERMINAL named *)
(* by its status.  Digests, identities and payload shapes are taken as       *)
(* written.                                                                  *)
EXTENDS Integers, Sequences

Terminals == {"STOPPED", "FAILED"}

ConnectionOutcomes ==
  {"CONNECT_FAILED", "WEBSOCKET_UPGRADE_REJECTED", "WEBSOCKET_CONNECTED",
   "SUPERVISOR_FAILURE_STOP", "PRODUCER_FAILURE"}

AfterConnection ==
  {"READ_TIMEOUT", "TRANSPORT_DEADLINE", "SOCKET_READ_ERROR", "WEBSOCKET_CLOSE",
   "WS_PING_PONG_FLUSHED", "WS_PONG_RECEIVED", "WATCHDOG_PING_SENT",
   "WATCHDOG_PONG_DEADLINE", "UNEXPECTED_RAW_FRAME",
   "FAULT_INJECTED_SILENT_STALL", "CLIENT_STOP_OBSERVED"}

\* Did the event come before record i?
Before(j, i, event) == \E k \in 1..(i - 1) : j[k] = event

\* scan_transport_journal_internal: may record i come where it comes?
InPlace(j, i) ==
  LET connected == Before(j, i, "WEBSOCKET_CONNECTED")
      failed == Before(j, i, "PRODUCER_FAILURE")
      stopped == Before(j, i, "CLIENT_STOP_OBSERVED")
  IN /\ ~Before(j, i, "STOPPED") /\ ~Before(j, i, "FAILED")
     /\ i = 1 => j[i] = "CONNECT_ATTEMPT"
     /\ i = 2 => j[i] \in {"DNS_OBSERVED", "DNS_FAILED"}
     /\ i = 3 => j[i] \in ConnectionOutcomes
     /\ i > 3 /\ ~connected =>
          j[i] = "PRODUCER_FAILURE" \/ (j[i] \in Terminals /\ failed)
     /\ stopped \/ failed => j[i] \in Terminals
     /\ j[i] = "WEBSOCKET_CONNECTED" => ~connected
     /\ j[i] \in AfterConnection => connected
     /\ j[i] = "STOPPED" => stopped /\ ~failed
     /\ j[i] = "FAILED" => failed

\* journal.seal succeeds when a scan accepts a journal that ends in a terminal.
Seals(j) ==
  /\ j # <<>> /\ j[Len(j)] \in Terminals
  /\ \A i \in DOMAIN j : InPlace(j, i)

\* The events diagnose_sealed_transport_journal looks for, the strongest first.
Classes ==
  <<"SUPERVISOR_FAILURE_STOP", "CONNECT_FAILED", "WEBSOCKET_UPGRADE_REJECTED",
    "WEBSOCKET_CLOSE", "SOCKET_READ_ERROR", "TRANSPORT_DEADLINE">>
Untyped == "LOCAL_PRODUCER_FAILURE_WITHOUT_TRANSPORT_SUBTYPE"

\* The classification of a sealed journal.
Classification(j) ==
  IF j[Len(j)] = "STOPPED" THEN "CLEAN_CLIENT_STOP"
  ELSE LET found == {i \in DOMAIN Classes : Before(j, Len(j), Classes[i])}
       IN IF found = {} THEN Untyped
          ELSE Classes[CHOOSE i \in found : \A k \in found : i <= k]
=============================================================================
