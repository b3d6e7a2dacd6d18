---------------------------- MODULE MCX ----------------------------
(* Small instance of TradeTails: three generations of the primary lane and   *)
(* three IDs, all of them; of the behaviours with a fourth of each, those in *)
(* which the candidate is overtaken.                                         *)
EXTENDS TradeTails

CONSTANTS PRIMARY, SHADOW

MCLane == {PRIMARY, SHADOW}
MCLaneOrder == <<PRIMARY, SHADOW>>
MCMaxId == PRIMARY :> 4 @@ SHADOW :> 1
MCMaxGen == PRIMARY :> 4 @@ SHADOW :> 1


MCSmall == \A g \in DOMAIN gen[PRIMARY] : gen[PRIMARY][g].n <= 2 /\ (g = 1 => gen[PRIMARY][g].n = 1)
=============================================================================
