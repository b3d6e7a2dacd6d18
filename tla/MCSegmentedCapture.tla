------------------------- MODULE MCSegmentedCapture -------------------------
EXTENDS SegmentedCapture
MCFrames == [s \in Streams |-> IF s = "depth" THEN 2 ELSE 1]
MCKinds == [s \in Streams |-> IF s = "depth" THEN {"market", "shutdown"}
                              ELSE {"market"}]
=============================================================================
