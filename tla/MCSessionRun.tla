---------------------------- MODULE MCSessionRun ----------------------------
(* A session with a few inputs.  Every run takes an input out of the inbox, so *)
(* the number of runs is bounded by the number of inputs.                      *)
EXTENDS SessionRun
=============================================================================
