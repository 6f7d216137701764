----------------------------- MODULE QConstruct -----------------------------
(***************************************************************************)
(* The client-to-server q algorithm (aprsr-core/src/qconstruct.rs) on the  *)
(* digipeater path of a packet (path.rs).                                  *)
(*                                                                         *)
(* A path is the sequence of its hops, each the callsign without its "*":  *)
(* no rule of the algorithm reads the used flag.  Callsigns are compared   *)
(* ignoring case and stand for their upper-case form; q codes are compared *)
(* exactly where they are parsed and ignoring case where the code looks    *)
(* for repeated hops.  The lengths of hops matter only for the limit on a  *)
(* packet, which Size measures.                                            *)
(***************************************************************************)
EXTENDS Integers, Sequences, SequencesExt

CONSTANTS
  Station,      \* callsigns of stations and IGates
  Server,       \* callsigns of servers
  Alias,        \* routing aliases that may repeat, the markers included
  Tcpip,        \* the internet markers TCPIP and TCPXX
  Length        \* Hop -> how many bytes it takes on the wire

Code == {"qAC", "qAX", "qAU", "qAo", "qAO", "qAS", "qAr", "qAR", "qAZ", "qAI"}

Hop == Station \cup Server \cup Alias \cup Code \cup {"I"}

(* Callsigns are in upper case, as q codes are not, and those of a login   *)
(* or a server have three characters.                                      *)
ASSUME QConstants ==
  /\ Tcpip \subseteq Alias
  /\ Length \in [Hop -> Nat]
  /\ (Code \cup {"I"}) \cap (Station \cup Server \cup Alias) = {}

-----------------------------------------------------------------------------
(* Looking at a path.                                                      *)

Constructs(path) == {i \in DOMAIN path : path[i] \in Code}

Tagged(path) == Constructs(path) # {}

(* find: the first hop that is a q code.                                   *)
FoundAt(path) == CHOOSE i \in Constructs(path) : \A j \in Constructs(path) : i <= j

Found(path) == path[FoundAt(path)]

SameHop(h, g) == h = g \/ {h, g} \in {{"qAo", "qAO"}, {"qAr", "qAR"}}

(* Path::first_duplicate: hops that are no alias and occur twice.          *)
Repeats(path) ==
  \E i, j \in DOMAIN path :
    i < j /\ path[i] \notin Alias /\ SameHop(path[i], path[j])

HasTcpip(path) == \E i \in DOMAIN path : path[i] \in Tcpip

(* Path::i_construct: a literal I in the end, after an IGate's callsign.   *)
EndsInI(path) == Len(path) >= 2 /\ Last(path) = "I"

Size(path) == FoldLeft(LAMBDA sum, hop : sum + Length[hop] + 1, 0, path)

-----------------------------------------------------------------------------
(* apply_client for a packet of station `from` that arrives with ctx, the  *)
(* QContext: [server, login, verified, udp, sendOnly].                     *)

LoopsBack(path, server) ==
  \E i \in DOMAIN path : i > FoundAt(path) /\ path[i] = server

(* Rule 1.                                                                 *)
Rejected(path, server) ==
  \/ Tagged(path) /\ Found(path) = "qAZ"
  \/ Tagged(path) /\ Found(path) = "qAC" /\ ~ HasTcpip(path)
  \/ Tagged(path) /\ LoopsBack(path, server)
  \/ Repeats(path)

Appended(path, code, call) == path \o <<code, call>>

(* replace_at: what follows the replaced hop goes.                         *)
ReplacedAndKept(path, i, code, call) ==    \* mutant: what follows stays
  SubSeq(path, 1, i - 1) \o <<code, call>> \o SubSeq(path, i + 1, Len(path))
Replaced(path, i, code, call) == SubSeq(path, 1, i - 1) \o <<code, call>>

ReplacedOrAppended(path, code, call) ==
  IF Tagged(path) THEN Replaced(path, FoundAt(path), code, call)
  ELSE Appended(path, code, call)

(* Rule 4.                                                                 *)
RewrittenI(path, login) ==
  LET igate == path[Len(path) - 1] IN
  Replaced(path, Len(path) - 1, IF igate = login THEN "qAR" ELSE "qAr", igate)

(* Rule 5: a verified client relays somebody else's packet.                *)
Downgraded(code) ==
  CASE code \in {"qAR", "qAr"} -> "qAo"
    [] code \in {"qAS", "qAC"} -> "qAO"
    [] OTHER -> code

Relayed(path, login) ==
  IF ~ Tagged(path) THEN Appended(path, "qAO", login)
  ELSE IF Downgraded(Found(path)) = Found(path) THEN path
  ELSE Replaced(path, FoundAt(path), Downgraded(Found(path)), login)

(* Rule 6, and the packet of the logged-in station that is tagged already. *)
OwnRetagged(path, ctx) ==    \* mutant: tagged again
  Appended(path, IF ctx.sendOnly THEN "qAO" ELSE "qAC", ctx.server)
OwnErased(path, ctx) ==    \* mutant: in place of the construct
  ReplacedOrAppended(path, IF ctx.sendOnly THEN "qAO" ELSE "qAC", ctx.server)
Own(path, ctx) ==
  IF Tagged(path) THEN path
  ELSE Appended(path, IF ctx.sendOnly THEN "qAO" ELSE "qAC", ctx.server)

Applied(path, from, ctx) ==
  IF ctx.udp THEN ReplacedOrAppended(path, "qAU", ctx.server)
  ELSE IF ~ ctx.verified THEN ReplacedOrAppended(path, "qAX", ctx.server)
  ELSE IF EndsInI(path) THEN RewrittenI(path, ctx.login)
  ELSE IF from # ctx.login THEN Relayed(path, ctx.login)
  ELSE Own(path, ctx)
=============================================================================
