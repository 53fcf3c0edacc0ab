------------------------------ MODULE MCTimers ------------------------------
(* Instances of Timers for TLC. The key counter stands for a usize that does *)
(* not wrap in the life of an instance.                                      *)
EXTENDS Timers
=============================================================================
