---------------------------- MODULE MCHotReload ----------------------------
(* HotReload on two source files, edited twice each. *)
EXTENDS HotReload

CONSTANTS entry, lib

\* The first edit of lib is a half-finished one.
HalfEdit == {<<lib, 1>>}
=============================================================================
