----------------------------- MODULE MCHmdTimer -----------------------------
(* The timer library of hmd for TLC, with seconds of a few microseconds.   *)
EXTENDS HmdTimer
=============================================================================
