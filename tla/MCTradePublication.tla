------------------------- MODULE MCTradePublication -------------------------
(* Small instances of TradePublication.                                     *)
EXTENDS TradePublication

MCLane == {"PRIMARY", "SHADOW"}
MCEverywhere == {"CREATED", "REBUILD", "REBUILT", "UP", "INSERTED", "PUBLISHING"}
MCCreated == {"CREATED"}
MCInserted == {"INSERTED"}

(* Captures only act where the arbiter can tell: elsewhere they commute with *)
(* its next step.  A polled lane has at most one record waiting, more would  *)
(* be taken one by one all the same.  A record still waiting at a crash might *)
(* as well come after it, and nothing follows a crash after the last start.  *)
MCObservable ==
  /\ raw' # raw => pc \in {"DOWN", "UP"} /\ (pc = "UP" => live /\ consumed = [l \in Lane |-> Len(raw[l])])
  /\ sealed' # sealed => pc = "UP" /\ live /\ consumed = [l \in Lane |-> Len(raw[l])]
  /\ pc = "UP" /\ live /\ pc' = "DOWN" /\ journal' = journal =>
       consumed = [l \in Lane |-> Len(raw[l])]
  /\ pc' = "DOWN" /\ pc # "DOWN" /\ journal' = journal => starts < MaxStarts

MCDisputed == {2}
=============================================================================
