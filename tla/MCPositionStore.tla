-------------------------- MODULE MCPositionStore --------------------------
(***************************************************************************)
(* The positions for TLC: the tasks race for one station; two show that    *)
(* the order of a pass and what it leaves undone matter.  A report at the  *)
(* second time of the clock is told from one at the first, so one place is *)
(* enough.                                                                 *)
(***************************************************************************)
EXTENDS PositionStore

CONSTANTS S1, S2, Here
=============================================================================
