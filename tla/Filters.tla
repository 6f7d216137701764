------------------------------ MODULE Filters ------------------------------
(***************************************************************************)
(* Server-side filters (aprsr-core/src/filter/mod.rs) where they meet the  *)
(* state they read: the dispatch task applies the q algorithm to a packet, *)
(* records its position in the PositionCache and then walks the clients,   *)
(* each with a chain of filters it may replace meanwhile; filters m/, f/   *)
(* and t/ with a radius measure from what the cache holds at that moment.  *)
(*                                                                         *)
(* A filter as typed is a code and its arguments; text is not taken apart: *)
(* what an argument means as a number, as a set of characters or as a      *)
(* pattern for names is given by constants.  A packet is what the parsers  *)
(* make of a line (packet.rs, aprs/mod.rs): its names, its path, the kind  *)
(* its data type identifier announces, and the fields that were decoded.   *)
(* Names stand for their upper-case form.                                  *)
(***************************************************************************)
EXTENDS QConstruct, FiniteSets

CONSTANTS
  Client,          \* logged-in clients of an IGate port
  CallOf,          \* Client -> its callsign
  Me,              \* server_id
  Packet,          \* packets that stations submit
  Expression,      \* filter expressions that clients send
  Place,           \* [lat, lon] positions of packets, in whole degrees
  Distance(_, _),  \* great_circle_distance_km
  Numbers,         \* arguments that parse as a finite number
  Value,           \* Numbers -> the number
  Chars,           \* argument -> the characters it contains
  Fits,            \* argument -> names it matches, a trailing * included
  Begins,          \* argument -> names that begin with it
  NwsNames,        \* names that begin with NWS, SKY or CWA
  MaxFilters,      \* MAX_FILTERS
  MaxListEntries,  \* MAX_LIST_ENTRIES
  MaxAreaFilters,  \* MAX_AREA_FILTERS
  MaxTime          \* bound: seconds the wall clock shows

Nowhere == [lat |-> 0, lon |-> 0, none |-> TRUE]     \* no position
NoSymbol == [table |-> "", code |-> ""]
NoName == ""

ASSUME FiltersConstants ==
  /\ CallOf \in [Client -> Station]
  /\ Me \in Server
  /\ Value \in [Numbers -> Int]
  /\ {MaxFilters, MaxListEntries, MaxAreaFilters, MaxTime} \subseteq Nat
  /\ \A x \in Expression : \A i \in DOMAIN x : x[i].args \in Seq(DOMAIN Chars)
  /\ \A p \in Packet :
       /\ {"source", "login", "path", "digis", "kind", "place"} \subseteq DOMAIN p
       /\ p.path \in Seq(Hop) /\ p.digis \subseteq Hop
       /\ {p.source, p.login} \subseteq Station
       /\ p.place \in Place \cup {Nowhere}
  /\ Nowhere \notin Place
  /\ \A place \in Place : Distance(place, place) = 0

VARIABLES
  now,        \* now_secs
  cache,      \* PositionCache: Station -> [heard, place]
  chain,      \* Client -> its FilterChain
  current,    \* the packet being broadcast, as rewritten, or NoPacket
  verdict,    \* Client -> "open" until the walk comes by, then "in" or "out"
  held,       \* history: Client -> the chain it was judged by
  reported,   \* history: Station -> where its last position report was from
  misled      \* history: stations whose cached position is not that report

walkVars == <<current, verdict, held>>
posVars == <<cache, reported, misled>>
vars == <<now, chain, walkVars, posVars>>

-----------------------------------------------------------------------------
(* Filter::parse and FilterChain::parse.  A filter is [negated, code, args].*)

ListCodes == {"p", "b", "o", "d", "e", "g", "u"}

TypeLetters == {"p", "o", "i", "m", "q", "s", "t", "u", "n", "w"}

InRange(arg, low, high) == arg \in Numbers /\ Value[arg] \in low .. high
Latitude(arg) == InRange(arg, -90, 90)
Longitude(arg) == InRange(arg, -180, 180)
Kilometres(arg) == arg \in Numbers /\ Value[arg] > 0

(* Where a list has its entries: empty ones are left out.                  *)
Listed(args) == {i \in DOMAIN args : args[i] # ""}

(* The arguments a filter of this code accepts.  The radius of t/ is read  *)
(* when there are two arguments or more behind its letters.                *)
WellFormed(code, args) ==
  \/ code \in ListCodes /\ Listed(args) # {} /\ Len(args) <= MaxListEntries
  \/ /\ code = "r" /\ Len(args) = 3
     /\ Latitude(args[1]) /\ Longitude(args[2]) /\ Kilometres(args[3])
  \/ /\ code = "a" /\ Len(args) = 4
     /\ Latitude(args[1]) /\ Longitude(args[2])
     /\ Latitude(args[3]) /\ Longitude(args[4])
  \/ code = "s" /\ Len(args) \in 1 .. 3
  \/ code = "q" /\ Len(args) \in 1 .. 2
  \/ code = "m" /\ Len(args) = 1 /\ Kilometres(args[1])
  \/ code = "f" /\ Len(args) = 2 /\ Kilometres(args[2])
  \/ /\ code = "t" /\ args # <<>> /\ args[1] # ""
     /\ Chars[args[1]] \subseteq TypeLetters
     /\ Len(args) = 1 \/ (Len(args) >= 3 /\ Kilometres(args[3]))

AreasOf(expression) == {i \in DOMAIN expression : expression[i].code = "a"}

ParsesAlmost(expression) ==    \* mutant: one filter more than the limit
  /\ Len(expression) <= MaxFilters + 1
  /\ \A i \in DOMAIN expression : WellFormed(expression[i].code, expression[i].args)
  /\ Cardinality(AreasOf(expression)) <= MaxAreaFilters

ParsesAsChain(expression) ==
  /\ Len(expression) <= MaxFilters
  /\ \A i \in DOMAIN expression : WellFormed(expression[i].code, expression[i].args)
  /\ Cardinality(AreasOf(expression)) <= MaxAreaFilters

Arg(filter, i) == IF i \in DOMAIN filter.args THEN filter.args[i] ELSE ""

-----------------------------------------------------------------------------
(* aprs::parse: the categories of a packet.                                *)

KindLetter ==
  [position |-> "p", object |-> "o", item |-> "i", message |-> "m",
   query |-> "q", status |-> "s", telemetry |-> "t", user |-> "u", weather |-> "w"]

NamesOf(p) == {p.source, p.name, p.addressee}

Types(p) ==
  {KindLetter[k] : k \in {p.kind} \cap DOMAIN KindLetter}
    \cup (IF p.symbol.code = "_" THEN {"w"} ELSE {})
    \cup (IF NamesOf(p) \cap NwsNames # {} THEN {"n"} ELSE {})

-----------------------------------------------------------------------------
(* Filter::matches, for a packet p and the client called me.               *)

Unknown == [heard |-> -1, place |-> Nowhere]

Within(p, place, km) == p.place # Nowhere /\ Distance(p.place, place) <= km

NearStation(p, call, km) ==
  /\ call \in Station
  /\ cache[call] # Unknown
  /\ Within(p, cache[call].place, km)

Point(lat, lon) == [lat |-> Value[lat], lon |-> Value[lon]]

(* within_area; a box may cross the antimeridian.                          *)
InArea(place, north, west, south, east) ==
  /\ place.lat \in south .. north
  /\ IF west <= east THEN place.lon \in west .. east
     ELSE place.lon >= west \/ place.lon <= east

AnyFits(filter, names) ==
  \E i \in Listed(filter.args) : Fits[filter.args[i]] \cap names # {}

Construct == [qAC |-> "C", qAX |-> "X", qAU |-> "U", qAo |-> "o", qAO |-> "O",
              qAS |-> "S", qAr |-> "r", qAR |-> "R", qAZ |-> "Z", qAI |-> "I"]

MatchesSymbol(filter, symbol) ==
  \/ symbol.table = "/" /\ symbol.code \in Chars[Arg(filter, 1)]
  \/ symbol.table = "\\" /\ symbol.code \in Chars[Arg(filter, 2)]
  \/ /\ symbol.table \in Chars[Arg(filter, 3)]
     /\ symbol.table \notin {"/", "\\"}
     /\ Arg(filter, 2) = "" \/ symbol.code \in Chars[Arg(filter, 2)]

MatchesConstruct(filter, p) ==
  /\ Tagged(p.path)
  /\ \/ Construct[Found(p.path)] \in Chars[Arg(filter, 1)]
     \/ /\ "I" \in Chars[Arg(filter, 2)]
        /\ "p" \in Types(p)
        /\ Found(p.path) \in {"qAR", "qAr"}

EntryStation(path) == {path[i] : i \in {FoundAt(path) + 1} \cap DOMAIN path}

Friend(filter, p, me) ==
  NearStation(p, filter.args[1], Value[filter.args[2]])

MatchesFilter(filter, p, me) ==
  LET args == filter.args
      code == filter.code IN
  \/ code = "r" /\ Within(p, Point(args[1], args[2]), Value[args[3]])
  \/ code = "p" /\ \E i \in Listed(args) : p.source \in Begins[args[i]]
  \/ code = "b" /\ AnyFits(filter, {p.source})
  \/ code = "o" /\ p.kind \in {"object", "item"} /\ AnyFits(filter, {p.name} \ {NoName})
  \/ code = "d" /\ AnyFits(filter, p.digis)
  \/ code = "e" /\ Tagged(p.path) /\ AnyFits(filter, EntryStation(p.path))
  \/ code = "g" /\ p.kind = "message" /\ AnyFits(filter, {p.addressee} \ {NoName})
  \/ code = "u" /\ AnyFits(filter, {p.dest})
  \/ /\ code = "t" /\ Types(p) \cap Chars[args[1]] # {}
     /\ Len(args) = 1 \/ NearStation(p, args[2], Value[args[3]])
  \/ code = "s" /\ p.symbol # NoSymbol /\ MatchesSymbol(filter, p.symbol)
  \/ /\ code = "a" /\ p.place # Nowhere
     /\ InArea(p.place, Value[args[1]], Value[args[2]], Value[args[3]], Value[args[4]])
  \/ code = "q" /\ MatchesConstruct(filter, p)
  \/ code = "m" /\ NearStation(p, me, Value[args[1]])
  \/ code = "f" /\ Friend(filter, p, me)

(* FilterChain::matches: a negated match ends the loop, any other passes.  *)
Matching(filters, p, me) == {i \in DOMAIN filters : MatchesFilter(filters[i], p, me)}

MatchesChain(filters, p, me) ==
  /\ Matching(filters, p, me) # {}
  /\ \A i \in Matching(filters, p, me) : ~ filters[i].negated

-----------------------------------------------------------------------------

NoPacket == [kind |-> "none"]

(* initial_filter: an expression that does not parse leaves an empty chain.*)
InitialChain(expression) ==
  IF ParsesAsChain(expression) THEN expression ELSE <<>>

Init ==
  /\ now \in 1 .. MaxTime
  /\ cache = [s \in Station |-> Unknown]
  /\ chain \in [Client -> {InitialChain(x) : x \in Expression}]
  /\ current = NoPacket
  /\ verdict = [c \in Client |-> "open"]
  /\ held = chain
  /\ reported = [s \in Station |-> Nowhere]
  /\ misled = {}

(* The wall clock moves on, or is set back.                                *)
Clock ==
  /\ now' \in (1 .. MaxTime) \ {now}
  /\ UNCHANGED <<chain, walkVars, posVars>>

(* apply_filter_command: one that does not parse changes nothing.          *)
FilterCommand(c, expression) ==
  /\ ParsesAsChain(expression)
  /\ chain' = [chain EXCEPT ![c] = expression]
  /\ UNCHANGED <<now, walkVars, posVars>>

(* PositionCache::record: an older report never replaces a newer one.      *)
StaleNow(s) == cache[s].heard > now

RecordedLater(p) ==    \* mutant: nor one of the same second
  IF p.place = Nowhere \/ cache[p.source].heard >= now THEN cache
  ELSE [cache EXCEPT ![p.source] = [heard |-> now, place |-> p.place]]

RecordedNever(p) == cache    \* mutant: nothing is recorded

Recorded(p) ==
  IF p.place = Nowhere \/ StaleNow(p.source) THEN cache
  ELSE [cache EXCEPT ![p.source] = [heard |-> now, place |-> p.place]]

Context(p) == [server |-> Me, login |-> p.login, verified |-> TRUE,
               udp |-> FALSE, sendOnly |-> FALSE]

(* process, for a packet the detector lets through: the q algorithm, the   *)
(* position, and the walk begins.                                          *)
Process(p) ==
  /\ current = NoPacket
  /\ ~ Rejected(p.path, Me)
  /\ current' = [p EXCEPT !.path = Applied(p.path, p.source, Context(p)),
                          !.digis = @ \cap Range(Applied(p.path, p.source, Context(p)))]
  /\ verdict' = [c \in Client |-> "open"]
  /\ held' = [c \in Client |-> <<>>]
  /\ cache' = Recorded(p)
  /\ reported' = IF p.kind = "position" /\ p.place # Nowhere
                   THEN [reported EXCEPT ![p.source] = p.place] ELSE reported
  /\ misled' =
       IF p.place = Nowhere \/ (p.kind # "position" /\ StaleNow(p.source)) THEN misled
       ELSE IF p.kind # "position" \/ StaleNow(p.source) THEN misled \cup {p.source}
       ELSE misled \ {p.source}
  /\ UNCHANGED <<now, chain>>

(* accepts, for one client: its chain is read once.                        *)
Visit(c) ==
  /\ current # NoPacket
  /\ verdict[c] = "open"
  /\ verdict' = [verdict EXCEPT
       ![c] = IF MatchesChain(chain[c], current, CallOf[c]) THEN "in" ELSE "out"]
  /\ held' = [held EXCEPT ![c] = chain[c]]
  /\ UNCHANGED <<now, chain, current, posVars>>

EndWalk ==
  /\ current # NoPacket
  /\ \A c \in Client : verdict[c] # "open"
  /\ current' = NoPacket
  /\ verdict' = [c \in Client |-> "open"]
  /\ held' = [c \in Client |-> <<>>]
  /\ UNCHANGED <<now, chain, posVars>>

Next ==
  \/ Clock
  \/ \E c \in Client, x \in Expression : FilterCommand(c, x)
  \/ \E p \in Packet : Process(p)
  \/ \E c \in Client : Visit(c)
  \/ EndWalk

Spec == Init /\ [][Next]_vars

-----------------------------------------------------------------------------

Bounded(filters) ==
  /\ Len(filters) <= MaxFilters
  /\ Cardinality(AreasOf(filters)) <= MaxAreaFilters
  /\ \A i \in DOMAIN filters : filters[i].code \in ListCodes =>
       Cardinality(Listed(filters[i].args)) \in 1 .. MaxListEntries

(* Among the types: whatever clients send, a chain in force is bounded.    *)
TypeOK ==
  /\ now \in 1 .. MaxTime
  /\ cache \in [Station -> [heard : 1 .. MaxTime, place : Place] \cup {Unknown}]
  /\ DOMAIN chain = Client /\ DOMAIN held = Client
  /\ \A c \in Client : Bounded(chain[c])
  /\ current # NoPacket => current.path \in Seq(Hop)
  /\ verdict \in [Client -> {"open", "in", "out"}]
  /\ reported \in [Station -> Place \cup {Nowhere}]
  /\ misled \in SUBSET Station

(* Filters measure from where a station was last: unless it sent an object *)
(* or an item since, whose position is taken for its own, or the clock was *)
(* set back under it, the cached position is that of its latest report,    *)
(* also when several came within one second.                               *)
CentreIsLastReport ==
  \A s \in Station \ misled : cache[s].place = reported[s]

(* A station's report passes the filters centred on it, m/ of its own      *)
(* client and f/ of another's: it is recorded before it is offered.  Not   *)
(* so when a negated filter matches, or the clock was set back, or for an  *)
(* object or item, which the station may place anywhere.                   *)
CentredOn(s, c) ==
  \E i \in DOMAIN held[c] :
    /\ \/ held[c][i].code = "m" /\ CallOf[c] = s
       \/ held[c][i].code = "f" /\ held[c][i].args[1] = s
    /\ \A j \in DOMAIN held[c] : ~ held[c][j].negated

OwnReportIsNear ==
  \A c \in Client :
    verdict[c] = "out" /\ current.kind = "position"
      /\ current.place # Nowhere /\ current.source \notin misled
      => ~ CentredOn(current.source, c)

(* What the three properties above rest on: chains are as the parser lets  *)
(* them be, a report that is broadcast is the last of its station, and a   *)
(* client that is passed over is so by the chain it held and the positions *)
(* there still are.                                                        *)
ChainsParsed ==
  \A c \in Client :
    /\ chain[c] = <<>> \/ (chain[c] \in Expression /\ ParsesAsChain(chain[c]))
    /\ held[c] = <<>> \/ (held[c] \in Expression /\ ParsesAsChain(held[c]))

BroadcastIsLast ==
  current # NoPacket =>
    /\ current.source \in Station /\ current.place \in Place \cup {Nowhere}
    /\ current.kind = "position" /\ current.place # Nowhere
         => reported[current.source] = current.place

JudgedByHeld ==
  \A c \in Client :
    verdict[c] = "out" =>
      current # NoPacket /\ ~ MatchesChain(held[c], current, CallOf[c])

FiltersInv == TypeOK /\ CentreIsLastReport /\ ChainsParsed /\ BroadcastIsLast /\ JudgedByHeld
=============================================================================
