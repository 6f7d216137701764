--------------------------- MODULE FiltersProofs ---------------------------
(***************************************************************************)
(* A station's own report passes the filters centred on it, and chains in  *)
(* force are bounded, for every set of clients, packets and expressions,   *)
(* every distance and every pace of the walk.                              *)
(***************************************************************************)
EXTENDS Filters, FiniteSetTheorems, WellFoundedInduction, TLAPS

-----------------------------------------------------------------------------
(* The path of a packet that is broadcast is one of hops.                  *)

Less == {pair \in Nat \X Nat : pair[1] < pair[2]}

(* A set of numbers that is not empty has a smallest one.                  *)
LEMMA Smallest ==
  ASSUME NEW S, S \subseteq Nat, S # {}
  PROVE  \E m \in S : \A n \in S : m <= n
<1>1. IsWellFoundedOn(Less, Nat)
  BY NatLessThanWellFounded DEF OpToRel, Less
<1>2. PICK m \in S : \A n \in S : <<n, m>> \notin Less
  BY <1>1, WFMin
<1>3. \A n \in S : ~ (n < m)
  BY <1>2 DEF Less
<1> QED
  BY <1>3

(* The first construct is a place in the path.                             *)
LEMMA FoundInPath ==
  ASSUME NEW path \in Seq(Hop), Tagged(path)
  PROVE  FoundAt(path) \in 1 .. Len(path)
<1>1. Constructs(path) \subseteq Nat /\ Constructs(path) # {}
  BY DEF Constructs, Tagged
<1>2. \E i \in Constructs(path) : \A j \in Constructs(path) : i <= j
  BY <1>1, Smallest
<1>3. FoundAt(path) \in Constructs(path)
  BY <1>2 DEF FoundAt
<1> QED
  BY <1>3 DEF Constructs

(* append and replace_at make paths.                                       *)
LEMMA Rewritten ==
  ASSUME NEW path \in Seq(Hop), NEW i \in 1 .. Len(path), NEW code \in Code, NEW call \in Hop
  PROVE  Replaced(path, i, code, call) \in Seq(Hop) /\ Appended(path, code, call) \in Seq(Hop)
<1>1. <<code, call>> \in Seq(Hop)
  BY DEF Hop
<1>2. SubSeq(path, 1, i - 1) \in Seq(Hop)
  OBVIOUS
<1> QED
  BY <1>1, <1>2 DEF Replaced, Appended

(* So does every rule of the algorithm.                                    *)
LEMMA AppliedIsPath ==
  ASSUME NEW p \in Packet
  PROVE  Applied(p.path, p.source, Context(p)) \in Seq(Hop)
<1> DEFINE path == p.path
           ctx == Context(p)
<1>1. path \in Seq(Hop) /\ Me \in Hop /\ p.login \in Hop
  BY FiltersConstants DEF Hop
<1>2. ~ ctx.udp /\ ctx.verified /\ ctx.login = p.login /\ ctx.server = Me /\ ~ ctx.sendOnly
  BY DEF Context
<1>3. ASSUME EndsInI(path) PROVE RewrittenI(path, p.login) \in Seq(Hop)
  <2>1. Len(path) - 1 \in 1 .. Len(path) /\ path[Len(path) - 1] \in Hop
    BY <1>1, <1>3 DEF EndsInI
  <2> QED
    BY <1>1, <2>1, Rewritten DEF RewrittenI, Code
<1>4. Relayed(path, p.login) \in Seq(Hop)
  <2>1. CASE ~ Tagged(path)
    <3>1. Appended(path, "qAO", p.login) \in Seq(Hop)
      <4>1. <<"qAO", p.login>> \in Seq(Hop)
        BY <1>1 DEF Hop, Code
      <4> QED
        BY <1>1, <4>1 DEF Appended
    <3> QED
      BY <2>1, <3>1 DEF Relayed
  <2>2. CASE Tagged(path) /\ Downgraded(Found(path)) # Found(path)
    <3>1. Downgraded(Found(path)) \in Code
      BY <2>2 DEF Downgraded, Code
    <3>2. FoundAt(path) \in 1 .. Len(path)
      BY <1>1, <2>2, FoundInPath
    <3> QED
      BY <1>1, <2>2, <3>1, <3>2, Rewritten DEF Relayed
  <2> QED
    BY <1>1, <2>1, <2>2 DEF Relayed
<1>5. Own(path, ctx) \in Seq(Hop)
  <2>1. <<"qAC", Me>> \in Seq(Hop)
    BY <1>1 DEF Hop, Code
  <2> QED
    BY <1>1, <1>2, <2>1 DEF Own, Appended
<1> QED
  BY <1>2, <1>3, <1>4, <1>5 DEF Applied

-----------------------------------------------------------------------------
(* A list has at most as many entries as arguments.                        *)
LEMMA ListedCount ==
  ASSUME NEW args \in Seq(DOMAIN Chars), Listed(args) # {}
  PROVE  Cardinality(Listed(args)) \in 1 .. Len(args)
<1>1. PICK n \in Nat : n = Len(args)
  OBVIOUS
<1>2. Listed(args) \in SUBSET (1 .. n)
  <2>1. DOMAIN args = 1 .. n
    BY <1>1
  <2> QED
    BY <2>1 DEF Listed
<1>3. IsFiniteSet(1 .. n) /\ Cardinality(1 .. n) = n
  BY FS_Interval
<1>4. /\ IsFiniteSet(Listed(args)) /\ Cardinality(Listed(args)) \in Nat
      /\ Cardinality(Listed(args)) <= n
  BY <1>2, <1>3, FS_Subset, FS_CardinalityType
<1>5. Cardinality(Listed(args)) # 0
  BY <1>4, FS_EmptySet
<1> QED
  BY <1>1, <1>4, <1>5

(* What the parser lets be a chain is bounded.                             *)
LEMMA ParsedIsBounded ==
  ASSUME NEW filters, filters = <<>> \/ (filters \in Expression /\ ParsesAsChain(filters))
  PROVE  Bounded(filters)
<1>1. CASE filters = <<>>
  <2>1. AreasOf(filters) = {} /\ Len(filters) = 0 /\ DOMAIN filters = {}
    BY <1>1 DEF AreasOf
  <2>2. Cardinality(AreasOf(filters)) = 0
    BY <2>1, FS_EmptySet
  <2> QED
    BY <2>1, <2>2, FiltersConstants DEF Bounded
<1>2. CASE filters \in Expression /\ ParsesAsChain(filters)
  <2>1. ASSUME NEW i \in DOMAIN filters, filters[i].code \in ListCodes
        PROVE  Cardinality(Listed(filters[i].args)) \in 1 .. MaxListEntries
    <3>1. WellFormed(filters[i].code, filters[i].args)
      BY <1>2 DEF ParsesAsChain
    <3>2. Listed(filters[i].args) # {} /\ Len(filters[i].args) <= MaxListEntries
      BY <2>1, <3>1 DEF WellFormed, ListCodes
    <3>3. filters[i].args \in Seq(DOMAIN Chars)
      BY <1>2, FiltersConstants
    <3>4. Cardinality(Listed(filters[i].args)) \in 1 .. Len(filters[i].args)
      BY <3>2, <3>3, ListedCount
    <3>5. Len(filters[i].args) \in Nat /\ MaxListEntries \in Nat
      BY <3>3, FiltersConstants
    <3> QED
      BY <3>2, <3>4, <3>5
  <2> QED
    BY <1>2, <2>1 DEF Bounded, ParsesAsChain
<1> QED
  BY <1>1, <1>2

-----------------------------------------------------------------------------
(* One lemma for each part of the invariant.                               *)

(* It holds before the first command.                                      *)
LEMMA InvInit == Init => FiltersInv
<1> SUFFICES ASSUME Init PROVE FiltersInv
  OBVIOUS
<1>1. ChainsParsed
  BY DEF Init, ChainsParsed, InitialChain
<1>2. TypeOK
  <2>1. \A c \in Client : Bounded(chain[c])
    BY <1>1, ParsedIsBounded DEF ChainsParsed
  <2> QED
    BY <2>1 DEF Init, TypeOK
<1>3. CentreIsLastReport
  BY DEF Init, CentreIsLastReport, Unknown
<1> QED
  BY <1>1, <1>2, <1>3 DEF Init, FiltersInv, BroadcastIsLast, JudgedByHeld

(* A chain is replaced as a whole, by one that parses; a client is judged  *)
(* by one that was in force.                                               *)
LEMMA ChainsStep == FiltersInv /\ [Next]_vars => ChainsParsed'
<1> SUFFICES ASSUME FiltersInv, [Next]_vars PROVE ChainsParsed'
  OBVIOUS
<1> USE DEF FiltersInv, ChainsParsed
<1>1. ASSUME UNCHANGED <<chain, held>> PROVE ChainsParsed'
  BY <1>1
<1>2. CASE Clock
  BY <1>1, <1>2 DEF Clock, walkVars
<1>3. ASSUME NEW c \in Client, NEW x \in Expression, FilterCommand(c, x) PROVE ChainsParsed'
  BY <1>3 DEF FilterCommand, walkVars
<1>4. ASSUME NEW p \in Packet, Process(p) PROVE ChainsParsed'
  BY <1>4 DEF Process
<1>5. ASSUME NEW c \in Client, Visit(c) PROVE ChainsParsed'
  BY <1>5 DEF Visit
<1>6. CASE EndWalk
  BY <1>6 DEF EndWalk
<1>7. CASE UNCHANGED vars
  BY <1>1, <1>7 DEF vars, walkVars
<1> QED
  BY <1>2, <1>3, <1>4, <1>5, <1>6, <1>7 DEF Next

(* A packet that is broadcast keeps what its line says of it.              *)
LEMMA Rewriting ==
  ASSUME NEW p \in Packet, Process(p)
  PROVE  /\ current'.path = Applied(p.path, p.source, Context(p))
         /\ current'.source = p.source /\ current'.place = p.place
         /\ current'.kind = p.kind
<1> DEFINE q == [p EXCEPT !.path = Applied(p.path, p.source, Context(p))]
<1>1. {"source", "login", "path", "digis", "kind", "place"} \subseteq DOMAIN p
  BY FiltersConstants
<1>2. DOMAIN q = DOMAIN p /\ q.path = Applied(p.path, p.source, Context(p))
      /\ q.source = p.source /\ q.place = p.place /\ q.kind = p.kind
  BY <1>1
<1>3. \E d : current' = [q EXCEPT !.digis = d]
  BY DEF Process
<1> HIDE DEF q
<1> QED
  BY <1>1, <1>2, <1>3

(* The cache is on the whole what was reported, and the types are kept.    *)
LEMMA CacheStep ==
  ASSUME FiltersInv, NEW p \in Packet, Process(p)
  PROVE  /\ cache' \in [Station -> [heard : 1 .. MaxTime, place : Place] \cup {Unknown}]
         /\ reported' \in [Station -> Place \cup {Nowhere}]
         /\ misled' \in SUBSET Station
         /\ CentreIsLastReport'
         /\ BroadcastIsLast'
<1> USE DEF FiltersInv, TypeOK
<1>1. p.source \in Station /\ p.place \in Place \cup {Nowhere}
  BY FiltersConstants
<1>2. cache' \in [Station -> [heard : 1 .. MaxTime, place : Place] \cup {Unknown}]
  BY <1>1 DEF Process, Recorded
<1>3. reported' \in [Station -> Place \cup {Nowhere}]
  BY <1>1 DEF Process
<1>4. misled' \in SUBSET Station
  BY <1>1 DEF Process
<1>5. CentreIsLastReport'
  <2> SUFFICES ASSUME NEW s \in Station, s \notin misled' PROVE cache'[s].place = reported'[s]
    BY DEF CentreIsLastReport
  <2>1. CASE s # p.source
    <3>1. s \notin misled /\ cache'[s] = cache[s] /\ reported'[s] = reported[s]
      BY <1>1, <2>1 DEF Process, Recorded
    <3> QED
      BY <3>1 DEF CentreIsLastReport
  <2>2. CASE s = p.source /\ p.place = Nowhere
    <3>1. misled' = misled /\ cache' = cache /\ reported' = reported
      BY <2>2 DEF Process, Recorded
    <3> QED
      BY <3>1 DEF CentreIsLastReport
  <2>3. CASE s = p.source /\ p.place # Nowhere /\ p.kind = "position"
    <3>1. ~ StaleNow(s)
      BY <1>1, <2>3 DEF Process
    <3>2. cache' = [cache EXCEPT ![s] = [heard |-> now, place |-> p.place]]
      BY <2>3, <3>1 DEF Process, Recorded
    <3>3. reported' = [reported EXCEPT ![s] = p.place]
      BY <2>3 DEF Process
    <3> QED
      BY <3>2, <3>3
  <2>4. CASE s = p.source /\ p.place # Nowhere /\ p.kind # "position"
    <3>1. StaleNow(s) /\ misled' = misled
      BY <2>4 DEF Process
    <3>2. cache' = cache /\ reported' = reported
      BY <2>4, <3>1 DEF Process, Recorded
    <3> QED
      BY <3>1, <3>2 DEF CentreIsLastReport
  <2> QED
    BY <2>1, <2>2, <2>3, <2>4
<1>6. BroadcastIsLast'
  <2>1. p.kind = "position" /\ p.place # Nowhere => reported'[p.source] = p.place
    BY <1>1 DEF Process
  <2> QED
    BY <1>1, <2>1, Rewriting DEF BroadcastIsLast
<1> QED
  BY <1>2, <1>3, <1>4, <1>5, <1>6

(* What a chain says of a packet changes with the cache only.              *)
LEMMA SameCacheSameMatch ==
  ASSUME UNCHANGED cache, NEW filters, NEW p, NEW me
  PROVE  MatchesChain(filters, p, me)' <=> MatchesChain(filters, p, me)
<1>1. \A f : MatchesFilter(f, p, me)' <=> MatchesFilter(f, p, me)
  <2>1. \A q, call, km : NearStation(q, call, km)' <=> NearStation(q, call, km)
    BY DEF NearStation
  <2>2. \A f : Friend(f, p, me)' <=> Friend(f, p, me)
    BY DEF NearStation, Friend
  <2> QED
    BY <2>1, <2>2 DEF MatchesFilter, NearStation, Friend
<1>2. Matching(filters, p, me)' = Matching(filters, p, me)
  BY <1>1 DEF Matching
<1> QED
  BY <1>2 DEF MatchesChain

(* Nobody's judgement is touched while the walk goes on.                   *)
LEMMA JudgedStep == FiltersInv /\ [Next]_vars => JudgedByHeld'
<1> SUFFICES ASSUME FiltersInv, [Next]_vars, NEW c \in Client, verdict'[c] = "out"
             PROVE  current' # NoPacket /\ ~ MatchesChain(held[c], current, CallOf[c])'
  BY DEF JudgedByHeld
<1> USE DEF FiltersInv, JudgedByHeld, TypeOK
<1>1. ASSUME UNCHANGED <<current, cache>>, verdict[c] = "out", held'[c] = held[c]
      PROVE  current' # NoPacket /\ ~ MatchesChain(held[c], current, CallOf[c])'
  <2>1. current # NoPacket /\ ~ MatchesChain(held[c], current, CallOf[c])
    BY <1>1
  <2> QED
    BY <1>1, <2>1, SameCacheSameMatch
<1>2. CASE Clock
  BY <1>1, <1>2 DEF Clock, walkVars, posVars
<1>3. ASSUME NEW d \in Client, NEW x \in Expression, FilterCommand(d, x)
      PROVE  current' # NoPacket /\ ~ MatchesChain(held[c], current, CallOf[c])'
  BY <1>1, <1>3 DEF FilterCommand, walkVars, posVars
<1>4. ASSUME NEW p \in Packet, Process(p)
      PROVE  FALSE
  BY <1>4 DEF Process
<1>5. ASSUME NEW d \in Client, Visit(d)
      PROVE  current' # NoPacket /\ ~ MatchesChain(held[c], current, CallOf[c])'
  <2>1. CASE d = c
    <3>1. held'[c] = chain[c] /\ current' = current /\ cache' = cache /\ current # NoPacket
      BY <1>5, <2>1 DEF Visit, posVars
    <3>2. ~ MatchesChain(chain[c], current, CallOf[c])
      BY <1>5, <2>1 DEF Visit
    <3> QED
      BY <3>1, <3>2, SameCacheSameMatch
  <2>2. CASE d # c
    BY <1>1, <1>5, <2>2 DEF Visit, posVars
  <2> QED
    BY <2>1, <2>2
<1>6. CASE EndWalk
  BY <1>6 DEF EndWalk
<1>7. CASE UNCHANGED vars
  BY <1>1, <1>7 DEF vars, walkVars, posVars
<1> QED
  BY <1>2, <1>3, <1>4, <1>5, <1>6, <1>7 DEF Next

(* Every action keeps the types, and chains within their limits.           *)
LEMMA TypeStep == FiltersInv /\ [Next]_vars => TypeOK'
<1> SUFFICES ASSUME FiltersInv, [Next]_vars PROVE TypeOK'
  OBVIOUS
<1>1. \A c \in Client : Bounded(chain'[c])
  BY ChainsStep, ParsedIsBounded DEF ChainsParsed
<1> USE DEF FiltersInv, TypeOK
<1>2. CASE Clock
  BY <1>1, <1>2 DEF Clock, walkVars, posVars
<1>3. ASSUME NEW c \in Client, NEW x \in Expression, FilterCommand(c, x) PROVE TypeOK'
  BY <1>1, <1>3 DEF FilterCommand, walkVars, posVars
<1>4. ASSUME NEW p \in Packet, Process(p) PROVE TypeOK'
  <2>1. current'.path \in Seq(Hop)
    BY <1>4, Rewriting, AppliedIsPath
  <2>2. /\ now' = now /\ chain' = chain
        /\ held' = [c \in Client |-> <<>>] /\ verdict' = [c \in Client |-> "open"]
    BY <1>4 DEF Process
  <2> QED
    BY <1>1, <1>4, <2>1, <2>2, CacheStep
<1>5. ASSUME NEW c \in Client, Visit(c) PROVE TypeOK'
  BY <1>1, <1>5 DEF Visit, posVars
<1>6. CASE EndWalk
  BY <1>1, <1>6 DEF EndWalk, posVars
<1>7. CASE UNCHANGED vars
  BY <1>1, <1>7 DEF vars, walkVars, posVars
<1> QED
  BY <1>2, <1>3, <1>4, <1>5, <1>6, <1>7 DEF Next

(* Nothing but the next packet touches the positions.                      *)
LEMMA PositionsStep == FiltersInv /\ [Next]_vars => CentreIsLastReport' /\ BroadcastIsLast'
<1> SUFFICES ASSUME FiltersInv, [Next]_vars PROVE CentreIsLastReport' /\ BroadcastIsLast'
  OBVIOUS
<1>1. ASSUME NEW p \in Packet, Process(p) PROVE CentreIsLastReport' /\ BroadcastIsLast'
  BY <1>1, CacheStep
<1>2. CASE EndWalk
  BY <1>2 DEF EndWalk, posVars, FiltersInv, CentreIsLastReport, BroadcastIsLast
<1>3. ASSUME UNCHANGED <<posVars, current>> PROVE CentreIsLastReport' /\ BroadcastIsLast'
  BY <1>3 DEF posVars, FiltersInv, CentreIsLastReport, BroadcastIsLast
<1>4. ASSUME NEW c \in Client, NEW x \in Expression, FilterCommand(c, x)
      PROVE  UNCHANGED <<posVars, current>>
  BY <1>4 DEF FilterCommand, walkVars
<1>5. ASSUME Clock PROVE UNCHANGED <<posVars, current>>
  BY <1>5 DEF Clock, walkVars
<1>6. ASSUME NEW c \in Client, Visit(c) PROVE UNCHANGED <<posVars, current>>
  BY <1>6 DEF Visit
<1>7. ASSUME UNCHANGED vars PROVE UNCHANGED <<posVars, current>>
  BY <1>7 DEF vars, walkVars
<1> QED
  BY <1>1, <1>2, <1>3, <1>4, <1>5, <1>6, <1>7 DEF Next

(* No action disturbs the invariant.                                       *)
LEMMA InvStep == FiltersInv /\ [Next]_vars => FiltersInv'
BY TypeStep, PositionsStep, ChainsStep, JudgedStep DEF FiltersInv

-----------------------------------------------------------------------------
(* A client that is passed over held no filter that is centred on the      *)
(* station: the station's own position, just recorded, lies within it.     *)
LEMMA NearIsMatched == FiltersInv => OwnReportIsNear
<1> SUFFICES ASSUME FiltersInv, NEW c \in Client, verdict[c] = "out",
                    current.kind = "position", current.place # Nowhere,
                    current.source \notin misled, CentredOn(current.source, c)
             PROVE  FALSE
  BY DEF OwnReportIsNear
<1> DEFINE s == current.source
<1> USE DEF FiltersInv
<1>1. current # NoPacket /\ ~ MatchesChain(held[c], current, CallOf[c])
  BY DEF JudgedByHeld
<1>2. s \in Station /\ current.place \in Place /\ reported[s] = current.place
  BY <1>1 DEF BroadcastIsLast
<1>3. cache[s].place = current.place
  BY <1>2 DEF CentreIsLastReport
<1>4. cache[s] # Unknown /\ Distance(current.place, cache[s].place) = 0
  BY <1>2, <1>3, FiltersConstants DEF Unknown
<1>5. PICK i \in DOMAIN held[c] :
        /\ \/ held[c][i].code = "m" /\ CallOf[c] = s
           \/ held[c][i].code = "f" /\ held[c][i].args[1] = s
        /\ \A j \in DOMAIN held[c] : ~ held[c][j].negated
  BY DEF CentredOn
<1>6. ~ MatchesFilter(held[c][i], current, CallOf[c])
  <2>1. \A j \in Matching(held[c], current, CallOf[c]) : j \in DOMAIN held[c]
    BY DEF Matching
  <2>2. Matching(held[c], current, CallOf[c]) = {}
    BY <1>1, <1>5, <2>1 DEF MatchesChain
  <2> QED
    BY <2>2 DEF Matching
<1>7. WellFormed(held[c][i].code, held[c][i].args)
  BY <1>5 DEF ChainsParsed, ParsesAsChain
<1>8. \A km \in Int : km > 0 => NearStation(current, s, km)
  BY <1>2, <1>4 DEF NearStation, Within
<1>9. CASE held[c][i].code = "m" /\ CallOf[c] = s
  <2>1. Kilometres(held[c][i].args[1])
    BY <1>7, <1>9 DEF WellFormed, ListCodes
  <2>2. NearStation(current, CallOf[c], Value[held[c][i].args[1]])
    BY <1>8, <1>9, <2>1, FiltersConstants DEF Kilometres
  <2> QED
    BY <1>6, <1>9, <2>2 DEF MatchesFilter
<1>10. CASE held[c][i].code = "f" /\ held[c][i].args[1] = s
  <2>1. Kilometres(held[c][i].args[2])
    BY <1>7, <1>10 DEF WellFormed, ListCodes
  <2>2. NearStation(current, held[c][i].args[1], Value[held[c][i].args[2]])
    BY <1>8, <1>10, <2>1, FiltersConstants DEF Kilometres
  <2> QED
    BY <1>6, <1>10, <2>2 DEF MatchesFilter, Friend
<1> QED
  BY <1>5, <1>9, <1>10

-----------------------------------------------------------------------------

(* Chains in force are as the parser lets them be, positions as they were  *)
(* reported, and verdicts as the chains and the positions say.             *)
THEOREM FiltersInvariant == Spec => []FiltersInv
BY InvInit, InvStep, PTL DEF Spec

(* Whatever clients send as filters, the chain in force is within the      *)
(* limits of FilterChain::parse.                                           *)
THEOREM ChainsAreBounded == Spec => []TypeOK
<1>1. FiltersInv => TypeOK
  BY DEF FiltersInv
<1> QED
  BY <1>1, FiltersInvariant, PTL

(* PositionCache::record keeps the last report of every station, unless    *)
(* the clock was set back or it sent an object or item since.              *)
THEOREM CentresAreReports == Spec => []CentreIsLastReport
<1>1. FiltersInv => CentreIsLastReport
  BY DEF FiltersInv
<1> QED
  BY <1>1, FiltersInvariant, PTL

(* dispatch records a position before it offers the packet, so a filter    *)
(* with a radius around a station lets its own report pass.                *)
THEOREM OwnReportsPass == Spec => []OwnReportIsNear
BY NearIsMatched, FiltersInvariant, PTL
=============================================================================
