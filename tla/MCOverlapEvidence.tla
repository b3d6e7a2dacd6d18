-------------------------- MODULE MCOverlapEvidence --------------------------
(* Two generations of module OverlapEvidence with one planned rotation.     *)
EXTENDS OverlapEvidence
=============================================================================
