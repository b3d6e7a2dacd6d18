--------------------------- MODULE MCDepthArbiter ---------------------------
(* Small instances of DepthArbiter.                                         *)
EXTENDS DepthArbiter

MCConvergence == [PRIMARY |-> {0}, SHADOW |-> {0, 9}]

MCGens == [PRIMARY |-> 2, SHADOW |-> 1]

(* Captures act where the arbiter can tell.  Between a poll and the switch  *)
(* resolution that is when a candidate may take over.                       *)
MCObservable ==
  gens' # gens => \/ pc \in {"DOWN", "POLL", "DRAIN"}
                  \/ pc = "SWITCH" /\ SwitchDue /\ cand[serving] # None
=============================================================================
