--------------------------- MODULE MCStreamWriter ---------------------------
(* Model-checking instance of StreamWriter. *)
EXTENDS StreamWriter

\* The follower's behaviours hold no history, so they afford a frame more.
MCMaxFrames == [sampler |-> 2, follower |-> 3]
=============================================================================
