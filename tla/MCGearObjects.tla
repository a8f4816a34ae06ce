---------------------------- MODULE MCGearObjects ----------------------------
(* Two threads are enough for every pair of steps to interleave, and two     *)
(* destructions for a second one to find what the first has left.            *)
EXTENDS GearObjects
CONSTANTS a, b
MCThread == {a, b}
=============================================================================
