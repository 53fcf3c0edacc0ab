----------------------------- MODULE MCDispatch -----------------------------
(***************************************************************************)
(* Dispatch on two requests: side by side on two connections, or one after *)
(* the other on a connection that is kept alive.                           *)
(***************************************************************************)
EXTENDS Dispatch

CONSTANTS r1, r2, c1, c2

SideBySide == [r \in {r1, r2} |-> IF r = r1 THEN c1 ELSE c2]
KeptAlive  == [r \in {r1, r2} |-> c1]
=============================================================================
