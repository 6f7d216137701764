---------------------------- MODULE MCDupeCheck -----------------------------
(***************************************************************************)
(* The duplicate detector for TLC: a two-second window, so three buckets,  *)
(* and a wall clock that may show any second of 0 .. 7 at each call.  The  *)
(* ring turns over more than twice and a call may jump by less than, by    *)
(* exactly and by more than the ring, forwards and backwards.              *)
(***************************************************************************)
EXTENDS DupeCheck

MCClock == 0 .. 7
=============================================================================
