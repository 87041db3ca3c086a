----------------------------- MODULE MCHlcClock -----------------------------
(* HlcClock on a small instance: devices are numbers, ids compare as numbers. *)
EXTENDS HlcClock

=============================================================================
