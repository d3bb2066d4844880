------------------------------- MODULE MCGoLive -------------------------------
(* GoLive for TLC: the runs give its constants model values. *)
EXTENDS GoLive
=============================================================================
