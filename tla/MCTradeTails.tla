---------------------------- MODULE MCTradeTails ----------------------------
(* Small instance of TradeTails: three generations of the primary lane and   *)
(* three IDs, all of them; of the behaviours with a fourth of each, those in *)
(* which the candidate is overtaken.                                         *)
EXTENDS TradeTails

CONSTANTS PRIMARY, SHADOW

MCLane == {PRIMARY, SHADOW}
MCLaneOrder == <<PRIMARY, SHADOW>>
MCMaxId == PRIMARY :> 4 @@ SHADOW :> 1
MCMaxGen == PRIMARY :> 4 @@ SHADOW :> 1

(* ID 4 is the first of a third generation or of a fourth; then the first   *)
(* generation has one trade.                                                *)
MCFourthId ==
  \A g \in DOMAIN gen[PRIMARY] :
    LET from == gen[PRIMARY][g].from
    IN  IF from < 4 THEN from + gen[PRIMARY][g].n <= 4
        ELSE g > 2 /\ gen[PRIMARY][3].from = 4 /\ gen[PRIMARY][1].n = 1

(* A third generation starts at ID 4 when the second is the candidate and   *)
(* has one trade, and a fourth before that candidate is replaced.           *)
MCFourthGeneration ==
  LET old == gen[PRIMARY]  new == gen'[PRIMARY]
  IN  Len(new) > Len(old) =>
        /\ Last(new).from = 4 => candidate[PRIMARY] # None /\ candidate[PRIMARY].gen = 2
        /\ Len(new) = 3 /\ Last(new).from = 4 => old[2].n = 1
        /\ Len(new) = 4 => Last(new).from = 4 /\ ~old[3].ready
=============================================================================
