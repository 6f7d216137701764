----------------------------- MODULE MCDispatch -----------------------------
(***************************************************************************)
(* The packet path for TLC.  The runs choose among a verified client on a  *)
(* full feed, a verified IGate client behind a forced filter, an IGate     *)
(* client that chooses its filter and presented no valid passcode, and a   *)
(* client of a submission-only port, and among lines that are fine, that   *)
(* repeat a transmission (aPadded has a's digest), and that each step of   *)
(* the path refuses.  Queues are one deep, so that every channel fills;    *)
(* the window is one second and the clock shows one second inside it and   *)
(* one outside.                                                            *)
(***************************************************************************)
EXTENDS Dispatch

CONSTANTS full, gate, guest, sender, a, aPadded, b, junk, loop, long

MCKind == [c \in Client |-> CASE c = full   -> "FullFeed"
                              [] c = sender -> "UdpSubmit"
                              [] OTHER      -> "Igate"]
MCVerified == [c \in Client |-> c # guest]
MCHeld == {gate} \cap Client
MCForced == [c \in Client |-> {a, aPadded} \cap Line]
MCFilters == {{b} \cap Line}
MCDigest == Line
MCDigestOf == [l \in Line |-> IF l = aPadded THEN a ELSE l]
MCMalformed == {junk} \cap Line
MCLooping == {loop} \cap Line
MCOverlong == {long} \cap Line
=============================================================================
