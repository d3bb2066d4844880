-------------------------------- MODULE MCHost --------------------------------
(* Host for TLC: viewers, tiers and samples get their values in Host.cfg. *)
EXTENDS Host
=============================================================================
