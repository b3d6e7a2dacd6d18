---------------------------- MODULE MCTransport -----------------------------
(* A second is two ticks of the clock and admits two control frames; a ping *)
(* is due every three ticks and must be answered in two, so that pings,     *)
(* pongs and the deadline meet within the clock's five values.              *)
EXTENDS Transport

MCTimes == 0..4
=============================================================================
