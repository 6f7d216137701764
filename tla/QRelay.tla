------------------------------- MODULE QRelay -------------------------------
(***************************************************************************)
(* A packet on its way through a network of aprsr servers: stations that   *)
(* are logged in to several servers take it from the feed of one and       *)
(* submit it to the next, and each server runs dispatch::process up to the *)
(* broadcast (aprsr-server/src/dispatch.rs), that is the q algorithm, the  *)
(* second parse of the rewritten line, and the record of where the packet  *)
(* says its station is.                                                    *)
(*                                                                         *)
(* Each submission is taken to be outside the duplicate window of the      *)
(* server it reaches, so that the q algorithm alone decides.               *)
(***************************************************************************)
EXTENDS QConstruct, Reports

CONSTANTS
  From,         \* the station whose packet it is
  Sent,         \* bound: the packets that may set out: [path, report], the
                \* report [dest, payload, means]: the latitudes and longitudes
                \* that it may say, if it says any
  SendOnly,     \* the servers whose port is send-only
  Udp,          \* the servers that take it from a datagram
  Rest,         \* bytes of the packet that are not its path
  MaxBody       \* MAX_PACKET_BODY_LEN

ASSUME QRelayConstants ==
  /\ From \in Station
  /\ SendOnly \subseteq Server
  /\ Udp \subseteq Server
  /\ Rest \in Nat /\ MaxBody \in Nat
  /\ \A p \in Sent : p.path \in Seq(Hop) /\ Rest + Size(p.path) <= MaxBody

ASSUME ReportsMean ==
  \A p \in Sent :
    /\ p.report.dest \in Seq(0 .. 255) /\ p.report.payload \in Seq(0 .. 255)
    /\ p.report.means = Said(p.report.dest, p.report.payload)

VARIABLES
  origin,       \* history: the path it set out with
  report,       \* its destination and information field, with what it means
  path,         \* the path it carries
  passed,       \* servers that broadcast it
  placed,       \* Server -> where it recorded the station to be
  refused       \* the servers that refused it, each with the reason

vars == <<origin, report, path, passed, placed, refused>>

-----------------------------------------------------------------------------

Context(server, login) ==
  [server |-> server, login |-> login, verified |-> TRUE,
   udp |-> server \in Udp, sendOnly |-> server \in SendOnly]

Parses(p) == Rest + Size(p) <= MaxBody

Init ==
  /\ \E p \in Sent : origin = p.path /\ path = p.path /\ report = p.report
  /\ passed = {}
  /\ placed = [s \in Server |-> {}]
  /\ refused = {}

(* The server refuses the packet: as a loop, or as a line that no longer   *)
(* parses.  Its sender still has it as it was.                             *)
RefuseLoop(server) ==
  /\ Rejected(path, server)
  /\ refused' = refused \cup {<<server, "loop">>}
  /\ UNCHANGED <<origin, report, path, passed, placed>>

RefuseOverlong(server, login) ==
  /\ ~ Rejected(path, server)
  /\ ~ Parses(Applied(path, From, Context(server, login)))
  /\ refused' = refused \cup {<<server, "unparsable">>}
  /\ UNCHANGED <<origin, report, path, passed, placed>>

Broadcast(server, login) ==
  /\ ~ Rejected(path, server)
  /\ Parses(Applied(path, From, Context(server, login)))
  /\ path' = Applied(path, From, Context(server, login))
  /\ passed' = passed \cup {server}
  /\ placed' = [placed EXCEPT ![server] = @ \cup Placed(report.dest, report.payload)]
  /\ UNCHANGED <<origin, report, refused>>

Next ==
  \E server \in Server, login \in Station :
    \/ RefuseLoop(server)
    \/ RefuseOverlong(server, login)
    \/ Broadcast(server, login)

Spec == Init /\ [][Next]_vars

-----------------------------------------------------------------------------

(* Wherever the packet was, it carries one construct: the code and a       *)
(* callsign after it end the path, so that its entry point is never        *)
(* ambiguous to the filters that match it.  This excludes a packet that    *)
(* set out with anything but one callsign behind its construct: the code   *)
(* looks at none but the first code, keeps what follows it, and of         *)
(* TCPIP,qAS,GATE1,I makes two constructs.                                 *)
WellTagged ==
  Tagged(origin) => Constructs(origin) = {Len(origin) - 1} /\ ~ EndsInI(origin)

EndsInConstruct(p) ==
  Constructs(p) = {Len(p) - 1} /\ p[Len(p)] \in Station \cup Server \cup Alias

OneConstruct == passed # {} /\ WellTagged => EndsInConstruct(path)

(* Relaying does not grow a packet: however many servers it passes, its    *)
(* path is at most one construct longer than when it set out, and the hops *)
(* it came with by radio are still there.                                  *)
PathIsBounded ==
  /\ Len(path) <= Len(origin) + 2
  /\ ~ Tagged(origin) /\ ~ EndsInI(origin) => IsPrefix(origin, path)

(* A construct that says a verified station or server vouches for the      *)
(* packet, once downgraded by a relay, does not come back.  This excludes  *)
(* a path that ends in a code and an I: the code takes the one in front of *)
(* the I for a callsign, and of TCPIP,qAo,I makes TCPIP,qAr,qAo.           *)
Vouched == {"qAC", "qAR", "qAr", "qAS"}

CodeBeforeI(p) == EndsInI(p) /\ p[Len(p) - 1] \in Code

NeverVouchedAgain ==
  [][Tagged(path) /\ Found(path) \notin Vouched /\ ~ CodeBeforeI(path)
       => Found(path') \notin Vouched]_vars

(* What the three properties above rest on: the path is the one it set out *)
(* with, or has a construct that the next server finds; the hops in front  *)
(* of that are those it set out with, unless it had a construct or an I.   *)
Constructed(p) == \E i \in 1 .. Len(p) - 1 : p[i] \in Code

PathFollows ==
  /\ passed = {} => path = origin
  /\ Len(path) <= Len(origin) + 2
  /\ path = origin \/ Constructed(path)

HopsKept ==
  ~ Tagged(origin) /\ ~ EndsInI(origin) =>
    \/ path = origin
    \/ \E code \in Code, call \in Station \cup Server : path = origin \o <<code, call>>

QRelayInv ==
  /\ origin \in Seq(Hop) /\ path \in Seq(Hop)
  /\ passed \in SUBSET Server
  /\ PathFollows /\ HopsKept /\ OneConstruct

(* "Returns None rather than a partial result: a filter that cannot        *)
(* establish a position must not match a range filter by accident": each   *)
(* server that relays a report takes the station to be where the report    *)
(* says, in any of the encodings, and nowhere when the report is damaged.  *)
(* Of the places that blanks leave it takes "the south-west corner of the  *)
(* ambiguity box" where the box is north of the equator or east of the     *)
(* meridian; for a southern or western box the sentence is not what the    *)
(* code does, and this asks only for a place in the box.  It also excludes *)
(* a damaged report that starts with a digit, which the code reads as a    *)
(* compressed one.                                                         *)
MisreadAsCompressed ==
  \E i \in PositionAt(report.payload) :
    report.payload[i] \in Digits /\ ParseUncompressed(Behind(report.payload, i)) = {}

Cornered(angle, said) ==
  /\ angle \in said
  /\ (\A a \in said : a >= 0) => \A a \in said : angle <= a

PlacedAsSent ==
  \A s \in passed :
    IF report.means = {} THEN placed[s] = {} \/ MisreadAsCompressed
    ELSE \E means \in report.means, p \in placed[s] :
           /\ placed[s] = {p}
           /\ Cornered(p.lat, means.lat) /\ Cornered(p.lon, means.lon)

(* What that rests on: where the station was placed is what the parsers    *)
(* made of one report.                                                     *)
PlacedByParser ==
  /\ \E p \in Sent : report = p.report
  /\ placed = [s \in Server |->
                 IF s \in passed THEN Placed(report.dest, report.payload) ELSE {}]
=============================================================================
