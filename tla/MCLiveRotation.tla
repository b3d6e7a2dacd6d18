--------------------------- MODULE MCLiveRotation ---------------------------
(* Three depth epochs, so that one rotation follows another and a restart   *)
(* falls before, between and after them; two trade epochs, three sequence   *)
(* numbers, two update ids, one book digest per id.  Epochs are             *)
(* interchangeable.                                                         *)
EXTENDS LiveRotation, TLC

MCUpdateId == 0..1
MCSymmetry == Permutations(Epoch) \union Permutations(TradeEpoch)
=============================================================================
