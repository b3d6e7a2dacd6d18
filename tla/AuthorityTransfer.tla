-------------------------- MODULE AuthorityTransfer --------------------------
(***************************************************************************)
(* What a campaign promises about publication authority, whatever its      *)
(* processes, proofs and deadlines do: generations are launched one by     *)
(* one, authority passes to the next generation only, at most two are      *)
(* ahead of the holder (the candidate and one warmed successor), and the   *)
(* campaign ends, as COMPLETE only when the last generation holds it.      *)
(***************************************************************************)
EXTENDS Integers

VARIABLES launched, holder, outcome

avars == <<launched, holder, outcome>>

Init == launched = 1 /\ holder = 0 /\ outcome = "RUNNING"

Launch ==
  /\ outcome = "RUNNING"
  /\ launched < holder + 3
  /\ launched' = launched + 1
  /\ UNCHANGED <<holder, outcome>>

Transfer ==
  /\ outcome = "RUNNING"
  /\ holder + 1 < launched
  /\ holder' = holder + 1
  /\ UNCHANGED <<launched, outcome>>

End ==
  /\ outcome = "RUNNING"
  /\ outcome' \in {"COMPLETE", "ENDED"}
  /\ outcome' = "COMPLETE" => holder = launched - 1
  /\ UNCHANGED <<launched, holder>>

Next == Launch \/ Transfer \/ End

Spec == Init /\ [][Next]_avars /\ WF_avars(End)
=============================================================================
