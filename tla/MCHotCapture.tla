---------------------------- MODULE MCHotCapture ----------------------------
(* A small instance of HotCapture for TLC: two launches and one restart.    *)
EXTENDS HotCapture

MCToken == 1..MaxLaunches
MCTimes == 0..MaxClock
=============================================================================
