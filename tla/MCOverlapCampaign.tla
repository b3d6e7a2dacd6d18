------------------------- MODULE MCOverlapCampaign -------------------------
(***************************************************************************)
(* A venue of a few depth updates and trades.  A's and B's depth frames are *)
(* cut differently, so that only some ends agree; B's snapshot is ahead of  *)
(* its first frames; a serverShutdown or a skipped trade id may appear.     *)
(***************************************************************************)
EXTENDS OverlapCampaign

CONSTANTS dA, dB, tA, tB

MCEpochFor == [A |-> [DEPTH |-> dA, TRADE |-> tA], B |-> [DEPTH |-> dB, TRADE |-> tB]]

F(first, final) == [first |-> first, final |-> final]
Ids(s) == [i \in 1..Len(s) |-> F(s[i], s[i])]

MCContents ==
  LET cut(da, db, ta, tb) ==
        [frames |-> [A |-> [DEPTH |-> da, TRADE |-> Ids(ta)], B |-> [DEPTH |-> db, TRADE |-> tb]],
         snapshot |-> 1]
      a1 == <<F(1, 2), F(3, 3), F(4, 5)>>
      a2 == <<F(1, 1), F(2, 3)>>
      b1 == <<F(1, 1), F(2, 3), F(4, 4), F(5, 5)>>
      b2 == <<F(2, 2), F(3, 5), F(6, 6)>>
      shutdown == <<F(2, 3), F(4, 5), Control, F(6, 6)>>
      hole == <<F(2, 3), F(4, 4), F(6, 6)>>
  IN {cut(a1, b2, <<1, 2>>, Ids(<<2, 3, 4>>)),
      cut(a2, b1, <<1, 3>>, Ids(<<3, 4>>)),
      cut(a1, shutdown, <<1, 2>>, <<F(2, 2), F(3, 3), Control>>),
      cut(a2, hole, <<1, 2>>, Ids(<<2, 3, 5>>))}

MCUpdateId == 0..7
=============================================================================
