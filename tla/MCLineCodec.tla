---------------------------- MODULE MCLineCodec ----------------------------
(***************************************************************************)
(* The codec for TLC.  Its constants are numbers, given in the cfg files;  *)
(* a stream is short, a line shorter: three lines of any kind fit, one of  *)
(* them more than twice the limit.                                         *)
(***************************************************************************)
EXTENDS LineCodec
=============================================================================
