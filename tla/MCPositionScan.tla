--------------------------- MODULE MCPositionScan ---------------------------
(***************************************************************************)
(* The accounts and tokens of the instance.                                *)
(***************************************************************************)
EXTENDS PositionScan

CONSTANTS a1, a2, f1, t1, j1
=============================================================================
