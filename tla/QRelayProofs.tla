---------------------------- MODULE QRelayProofs ----------------------------
(***************************************************************************)
(* A packet relayed by servers keeps one construct and its radio hops for  *)
(* every set of stations, servers and aliases, every path it sets out with *)
(* and every order in which servers take it; and each server that relays   *)
(* it puts its station where its report says, whatever bytes that has.     *)
(***************************************************************************)
EXTENDS QRelay, SequenceTheorems, WellFoundedInduction, TLAPS

-----------------------------------------------------------------------------
(* The first construct of a path.                                          *)

Less == {pair \in Nat \X Nat : pair[1] < pair[2]}

(* A set of numbers that is not empty has a smallest one.                  *)
LEMMA Smallest ==
  ASSUME NEW S, S \subseteq Nat, S # {}
  PROVE  \E m \in S : \A n \in S : m <= n
<1>1. IsWellFoundedOn(Less, Nat)
  BY NatLessThanWellFounded DEF OpToRel, Less
<1>2. PICK m \in S : \A n \in S : <<n, m>> \notin Less
  BY <1>1, WFMin
<1>3. \A n \in S : ~ (n < m)
  BY <1>2 DEF Less
<1> QED
  BY <1>3

(* The construct that is found is the first.                               *)
LEMMA FoundFirst ==
  ASSUME NEW p \in Seq(Hop), Tagged(p)
  PROVE  /\ FoundAt(p) \in 1 .. Len(p) /\ p[FoundAt(p)] \in Code
         /\ \A i \in 1 .. Len(p) : i < FoundAt(p) => p[i] \notin Code
<1>1. Constructs(p) \subseteq Nat /\ Constructs(p) # {}
  BY DEF Constructs, Tagged
<1>2. \E i \in Constructs(p) : \A j \in Constructs(p) : i <= j
  BY <1>1, Smallest
<1>3. FoundAt(p) \in Constructs(p) /\ \A j \in Constructs(p) : FoundAt(p) <= j
  BY <1>2 DEF FoundAt
<1> QED
  BY <1>3 DEF Constructs

(* Whatever first hop is a code, is the one that is found.                 *)
LEMMA FoundThere ==
  ASSUME NEW p \in Seq(Hop), NEW i \in 1 .. Len(p), p[i] \in Code,
         \A j \in 1 .. i - 1 : p[j] \notin Code
  PROVE  Tagged(p) /\ FoundAt(p) = i
<1>1. Tagged(p)
  BY DEF Tagged, Constructs
<1> QED
  BY <1>1, FoundFirst

-----------------------------------------------------------------------------
(* What the algorithm makes of a path.                                     *)

(* replace_at, and append as its case at the end of the path.              *)
LEMMA ReplacedShape ==
  ASSUME NEW p \in Seq(Hop), NEW i \in 1 .. Len(p) + 1, NEW code \in Code, NEW call \in Hop
  PROVE  /\ Replaced(p, i, code, call) \in Seq(Hop)
         /\ Len(Replaced(p, i, code, call)) = i + 1
         /\ \A j \in 1 .. i - 1 : Replaced(p, i, code, call)[j] = p[j]
         /\ Replaced(p, i, code, call)[i] = code
         /\ Replaced(p, i, code, call)[i + 1] = call
<1>1. SubSeq(p, 1, i - 1) \in Seq(Hop) /\ Len(SubSeq(p, 1, i - 1)) = i - 1
      /\ \A j \in 1 .. i - 1 : SubSeq(p, 1, i - 1)[j] = p[j]
  OBVIOUS
<1>2. code \in Hop
  BY DEF Hop
<1>3. <<code, call>> \in Seq(Hop) /\ Len(<<code, call>>) = 2
  BY <1>2
<1> QED
  BY <1>1, <1>3 DEF Replaced

(* Appending a construct is replacing one behind the last hop.             *)
LEMMA AppendedAsReplaced ==
  ASSUME NEW p \in Seq(Hop), NEW code, NEW call
  PROVE  Appended(p, code, call) = Replaced(p, Len(p) + 1, code, call)
<1>1. SubSeq(p, 1, Len(p)) = p
  OBVIOUS
<1> QED
  BY <1>1 DEF Appended, Replaced

(* Every rule keeps a path with a construct, puts one at the end of a path *)
(* without, replaces the construct that is found and what follows it, by   *)
(* one that vouches for nothing, or replaces an IGate and the I behind it. *)
LEMMA AppliedForms ==
  ASSUME NEW p \in Seq(Hop), NEW server \in Server, NEW login \in Station,
         NEW q, q = Applied(p, From, Context(server, login))
  PROVE  \/ Tagged(p) /\ q = p
         \/ \E code \in Code, call \in Station \cup Server :
              ~ Tagged(p) /\ q = Replaced(p, Len(p) + 1, code, call)
         \/ \E code \in Code \ Vouched, call \in Station \cup Server :
              Tagged(p) /\ q = Replaced(p, FoundAt(p), code, call)
         \/ \E code \in Code : EndsInI(p) /\ q = Replaced(p, Len(p) - 1, code, p[Len(p) - 1])
<1> DEFINE ctx == Context(server, login)
<1>0. ctx.verified /\ ctx.login = login /\ ctx.server = server
  BY DEF Context
<1>1. CASE ctx.udp
  <2>1. q = ReplacedOrAppended(p, "qAU", server)
    BY <1>0, <1>1 DEF Applied
  <2>2. "qAU" \in Code \ Vouched
    BY DEF Code, Vouched
  <2> QED
    BY <2>1, <2>2, AppendedAsReplaced DEF ReplacedOrAppended
<1>2. CASE ~ ctx.udp /\ EndsInI(p)
  <2>1. q = RewrittenI(p, login)
    BY <1>0, <1>2 DEF Applied
  <2>2. {"qAR", "qAr"} \subseteq Code
    BY DEF Code
  <2> QED
    BY <1>2, <2>1, <2>2 DEF RewrittenI
<1>3. CASE ~ ctx.udp /\ ~ EndsInI(p) /\ From # login
  <2>1. q = Relayed(p, login)
    BY <1>0, <1>3 DEF Applied
  <2>2. CASE ~ Tagged(p)
    <3>1. "qAO" \in Code
      BY DEF Code
    <3> QED
      BY <2>1, <2>2, <3>1, AppendedAsReplaced DEF Relayed
  <2>3. CASE Tagged(p) /\ Downgraded(Found(p)) = Found(p)
    BY <2>1, <2>3 DEF Relayed
  <2>4. CASE Tagged(p) /\ Downgraded(Found(p)) # Found(p)
    <3>1. Downgraded(Found(p)) \in Code \ Vouched
      BY <2>4 DEF Downgraded, Code, Vouched
    <3> QED
      BY <2>1, <2>4, <3>1 DEF Relayed
  <2> QED
    BY <2>2, <2>3, <2>4
<1>4. CASE ~ ctx.udp /\ ~ EndsInI(p) /\ From = login
  <2>1. q = Own(p, ctx)
    BY <1>0, <1>4 DEF Applied
  <2>2. {"qAO", "qAC"} \subseteq Code
    BY DEF Code
  <2> QED
    BY <1>0, <2>1, <2>2, AppendedAsReplaced DEF Own
<1> QED
  BY <1>1, <1>2, <1>3, <1>4

-----------------------------------------------------------------------------
(* What a broadcast does to the path.                                      *)

(* Calls and codes are hops, and no code is a call.                        *)
LEMMA CallsAreHops ==
  /\ Station \cup Server \cup Alias \subseteq Hop
  /\ Hop = Station \cup Server \cup Alias \cup Code \cup {"I"}
  /\ (Code \cup {"I"}) \cap (Station \cup Server \cup Alias) = {}
  /\ "I" \notin Code
BY QConstants DEF Hop, Code

(* The place a construct is put is in the path or right behind it.         *)
LEMMA AppliedShape ==
  ASSUME NEW p \in Seq(Hop), NEW server \in Server, NEW login \in Station,
         NEW q, q = Applied(p, From, Context(server, login))
  PROVE  \/ Tagged(p) /\ q = p
         \/ \E i \in 1 .. Len(p) + 1, code \in Code, call \in Hop :
              /\ q = Replaced(p, i, code, call)
              /\ \/ i = Len(p) + 1 /\ ~ Tagged(p) /\ call \in Station \cup Server
                 \/ /\ Tagged(p) /\ i = FoundAt(p) /\ call \in Station \cup Server
                    /\ code \notin Vouched
                 \/ i = Len(p) - 1 /\ EndsInI(p) /\ call = p[i]
<1>1. ASSUME EndsInI(p) PROVE Len(p) - 1 \in 1 .. Len(p) + 1 /\ p[Len(p) - 1] \in Hop
  BY <1>1 DEF EndsInI
<1>2. Len(p) + 1 \in 1 .. Len(p) + 1
  OBVIOUS
<1>3. ASSUME Tagged(p) PROVE FoundAt(p) \in 1 .. Len(p) + 1
  BY <1>3, FoundFirst
<1> QED
  BY <1>1, <1>2, <1>3, AppliedForms, CallsAreHops

(* A broadcast leaves the path as it is or with a construct.               *)
LEMMA PathTypeStep ==
  ASSUME QRelayInv, NEW server \in Server, NEW login \in Station, Broadcast(server, login)
  PROVE  path' \in Seq(Hop) /\ (path' = path \/ Constructed(path'))
<1>1. CASE path' = path
  BY <1>1 DEF QRelayInv
<1>2. CASE path' # path
  <2>1. PICK i \in 1 .. Len(path) + 1, code \in Code, call \in Hop :
          path' = Replaced(path, i, code, call)
    BY <1>2, AppliedShape DEF QRelayInv, Broadcast
  <2>2. path' \in Seq(Hop) /\ Len(path') = i + 1 /\ path'[i] = code
    BY <2>1, ReplacedShape DEF QRelayInv
  <2> QED
    BY <2>2 DEF Constructed
<1> QED
  BY <1>1, <1>2

(* A construct that is in the path is replaced with what follows it.       *)
LEMMA PathFollowsStep ==
  ASSUME QRelayInv, NEW server \in Server, NEW login \in Station, Broadcast(server, login)
  PROVE  PathFollows'
<1> USE DEF QRelayInv
<1>1. origin' = origin /\ passed' # {}
  BY DEF Broadcast
<1>2. CASE path' = path
  <2>1. path # origin => Constructed(path)
    BY DEF PathFollows
  <2> QED
    BY <1>1, <1>2, <2>1 DEF PathFollows, Constructed
<1>3. CASE path' # path
  <2>1. PICK i \in 1 .. Len(path) + 1, code \in Code, call \in Hop :
          /\ path' = Replaced(path, i, code, call)
          /\ \/ i = Len(path) + 1 /\ ~ Tagged(path)
             \/ Tagged(path) /\ i = FoundAt(path)
             \/ i = Len(path) - 1 /\ EndsInI(path)
    BY <1>3, AppliedShape DEF Broadcast
  <2>2. Len(path') = i + 1
    BY <2>1, ReplacedShape
  <2>3. Constructed(path) => Tagged(path) /\ FoundAt(path) < Len(path)
    <3> SUFFICES ASSUME NEW j \in 1 .. Len(path) - 1, path[j] \in Code
                 PROVE  Tagged(path) /\ FoundAt(path) < Len(path)
      BY DEF Constructed
    <3>1. Tagged(path)
      BY DEF Tagged, Constructs
    <3>2. FoundAt(path) \in 1 .. Len(path) /\ ~ (j < FoundAt(path))
      BY <3>1, FoundFirst
    <3> QED
      BY <3>1, <3>2
  <2>4. Len(path') <= Len(path) \/ (path = origin /\ Len(path') <= Len(path) + 2)
    <3>1. Len(path) \in Nat /\ i + 1 <= Len(path) + 2
      OBVIOUS
    <3>2. path = origin \/ Constructed(path)
      BY DEF PathFollows
    <3> QED
      BY <2>1, <2>2, <2>3, <3>1, <3>2
  <2>5. Len(path') <= Len(origin) + 2
    <3>1. Len(path) \in Nat /\ Len(origin) \in Nat /\ Len(path) <= Len(origin) + 2
      BY DEF PathFollows
    <3> QED
      BY <2>2, <2>4, <3>1
  <2> QED
    BY <1>1, <1>3, <2>5, PathTypeStep DEF PathFollows
<1> QED
  BY <1>2, <1>3

(* The hops in front of an appended construct stay.                        *)
LEMMA HopsKeptStep ==
  ASSUME QRelayInv, NEW server \in Server, NEW login \in Station, Broadcast(server, login)
  PROVE  HopsKept'
<1> USE DEF QRelayInv
<1> SUFFICES ASSUME ~ Tagged(origin), ~ EndsInI(origin), path' # path
             PROVE  \E code \in Code, call \in Station \cup Server :
                      path' = origin \o <<code, call>>
  BY DEF HopsKept, Broadcast
<1>1. PICK i \in 1 .. Len(path) + 1, code \in Code, call \in Hop :
        /\ path' = Replaced(path, i, code, call)
        /\ \/ i = Len(path) + 1 /\ ~ Tagged(path) /\ call \in Station \cup Server
           \/ Tagged(path) /\ i = FoundAt(path) /\ call \in Station \cup Server
           \/ i = Len(path) - 1 /\ EndsInI(path)
  BY AppliedShape DEF Broadcast
<1>2. CASE path = origin
  <2>1. path' = Appended(path, code, call) /\ call \in Station \cup Server
    BY <1>1, <1>2, AppendedAsReplaced
  <2> QED
    BY <1>2, <2>1 DEF Appended
<1>3. CASE path # origin
  <2>1. PICK c \in Code, x \in Station \cup Server : path = origin \o <<c, x>>
    BY <1>3 DEF HopsKept
  <2>2. c \in Hop /\ x \in Hop /\ x # "I"
    BY CallsAreHops
  <2>3. /\ Len(path) = Len(origin) + 2 /\ path[Len(origin) + 1] = c /\ path[Len(path)] = x
        /\ \A j \in 1 .. Len(origin) : path[j] = origin[j]
    BY <2>1, <2>2
  <2>4. Tagged(path) /\ FoundAt(path) = Len(origin) + 1
    <3>1. \A j \in 1 .. Len(origin) : path[j] \notin Code
      BY <2>3 DEF Tagged, Constructs
    <3> QED
      BY <2>3, <3>1, FoundThere
  <2>5. ~ EndsInI(path)
    BY <2>2, <2>3 DEF EndsInI, Last
  <2>6. i = Len(origin) + 1 /\ call \in Station \cup Server
    BY <1>1, <2>4, <2>5
  <2>7. SubSeq(path, 1, Len(origin)) = origin
    BY <2>1, <2>2
  <2>8. i - 1 = Len(origin)
    BY <2>6
  <2> QED
    BY <1>1, <2>6, <2>7, <2>8 DEF Replaced
<1> QED
  BY <1>2, <1>3

(* A path whose only code is last but one keeps this shape, and a path     *)
(* without one gets it, an I in its end or not.                            *)
LEMMA OneConstructStep ==
  ASSUME QRelayInv, NEW server \in Server, NEW login \in Station, Broadcast(server, login)
  PROVE  OneConstruct'
<1>a. path \in Seq(Hop) /\ PathFollows /\ OneConstruct
  BY DEF QRelayInv
<1> SUFFICES ASSUME WellTagged PROVE EndsInConstruct(path')
  BY DEF OneConstruct, Broadcast, WellTagged
<1>0. ~ Tagged(path) \/ EndsInConstruct(path)
  <2>1. CASE passed = {}
    <3>1. path = origin
      BY <1>a, <2>1 DEF PathFollows
    <3>2. ASSUME Tagged(path) PROVE EndsInConstruct(path)
      <4>1. Constructs(path) = {Len(path) - 1} /\ ~ EndsInI(path)
        BY <3>1, <3>2 DEF WellTagged
      <4>2. Len(path) - 1 \in 1 .. Len(path)
        <5>1. Len(path) - 1 \in Constructs(path)
          BY <4>1
        <5> QED
          BY <1>a, <5>1 DEF Constructs
      <4>3. Len(path) \in 1 .. Len(path) /\ Len(path) >= 2
        BY <4>2
      <4>4. path[Len(path)] \notin Code /\ path[Len(path)] # "I"
        BY <1>a, <4>1, <4>3 DEF Constructs, EndsInI, Last
      <4> QED
        BY <1>a, <4>1, <4>3, <4>4, CallsAreHops DEF EndsInConstruct
    <3> QED
      BY <3>2
  <2>2. CASE passed # {}
    BY <1>a, <2>2 DEF OneConstruct
  <2> QED
    BY <2>1, <2>2
<1>1. CASE Tagged(path) /\ path' = path
  BY <1>1, <1>0
<1>2. CASE ~ (Tagged(path) /\ path' = path)
  <2>1. PICK i \in 1 .. Len(path) + 1, code \in Code, call \in Hop :
          /\ path' = Replaced(path, i, code, call)
          /\ \/ i = Len(path) + 1 /\ ~ Tagged(path) /\ call \in Station \cup Server
             \/ Tagged(path) /\ i = FoundAt(path) /\ call \in Station \cup Server
             \/ i = Len(path) - 1 /\ EndsInI(path) /\ call = path[i]
    BY <1>a, <1>2, AppliedShape DEF Broadcast
  <2>2. /\ path' \in Seq(Hop) /\ Len(path') = i + 1
        /\ \A j \in 1 .. i - 1 : path'[j] = path[j]
        /\ path'[i] = code /\ path'[i + 1] = call
    <3>1. path' = Replaced(path, i, code, call)
      BY <2>1
    <3> QED
      BY <1>a, <3>1, ReplacedShape
  <2>3. \A j \in 1 .. i - 1 : path[j] \notin Code
    <3>1. CASE ~ Tagged(path)
      BY <1>a, <2>1, <3>1 DEF Tagged, Constructs
    <3>2. CASE Tagged(path)
      <4>1. Constructs(path) = {Len(path) - 1}
        BY <1>0, <3>2 DEF EndsInConstruct
      <4>2. i <= Len(path) - 1
        BY <1>a, <2>1, <3>2, <4>1, FoundFirst DEF Constructs
      <4> QED
        BY <1>a, <4>1, <4>2 DEF Constructs
    <3> QED
      BY <3>1, <3>2
  <2>4. call \in Station \cup Server \cup Alias
    <3>1. CASE i = Len(path) - 1 /\ EndsInI(path) /\ call = path[i]
      <4>1. i \in 1 .. Len(path) /\ path[Len(path)] = "I" /\ Len(path) >= 2
        BY <1>a, <3>1 DEF EndsInI, Last
      <4>2. ~ Tagged(path)
        BY <1>0, <4>1, CallsAreHops DEF EndsInConstruct
      <4>3. call \notin Code
        BY <1>a, <3>1, <4>1, <4>2 DEF Tagged, Constructs
      <4>4. call # "I"
        <5>1. ~ Repeats(path)
          BY DEF Broadcast, Rejected
        <5>2. "I" \notin Alias
          BY CallsAreHops
        <5> QED
          BY <1>a, <3>1, <4>1, <5>1, <5>2 DEF Repeats, SameHop
      <4> QED
        BY <1>a, <3>1, <4>1, <4>3, <4>4, CallsAreHops
    <3> QED
      BY <2>1, <3>1
  <2>5. Constructs(path') = {i}
    <3>1. call \notin Code
      BY <2>4, CallsAreHops
    <3> QED
      BY <2>2, <2>3, <3>1 DEF Constructs
  <2> QED
    BY <2>2, <2>4, <2>5 DEF EndsInConstruct
<1> QED
  BY <1>1, <1>2

-----------------------------------------------------------------------------

(* A packet sets out within the limits.                                    *)
LEMMA InvInit == Init => QRelayInv
BY QRelayConstants DEF Init, QRelayInv, PathFollows, HopsKept, OneConstruct

(* No server's step disturbs the invariant.                                *)
LEMMA InvStep == QRelayInv /\ [Next]_vars => QRelayInv'
<1> SUFFICES ASSUME QRelayInv, [Next]_vars PROVE QRelayInv'
  OBVIOUS
<1>1. ASSUME UNCHANGED <<origin, path, passed>> PROVE QRelayInv'
  BY <1>1 DEF QRelayInv, PathFollows, HopsKept, OneConstruct, WellTagged
<1>2. ASSUME NEW server \in Server, NEW login \in Station,
             RefuseLoop(server) \/ RefuseOverlong(server, login)
      PROVE  QRelayInv'
  BY <1>1, <1>2 DEF RefuseLoop, RefuseOverlong
<1>3. ASSUME NEW server \in Server, NEW login \in Station, Broadcast(server, login)
      PROVE  QRelayInv'
  <2>1. origin' \in Seq(Hop) /\ passed' \in SUBSET Server
    BY <1>3 DEF QRelayInv, Broadcast
  <2> QED
    BY <1>3, <2>1, PathTypeStep, PathFollowsStep, HopsKeptStep, OneConstructStep DEF QRelayInv
<1> QED
  BY <1>1, <1>2, <1>3 DEF Next, vars

(* The path is the one the packet set out with or has a construct, and its *)
(* radio hops stay: wherever it was relayed.                               *)
THEOREM RelayInvariant == Spec => []QRelayInv
BY InvInit, InvStep, PTL DEF Spec

(* apply_client leaves one construct at the end of the path, whichever     *)
(* servers and ports it went through, in whichever order.                  *)
THEOREM OneConstructKept == Spec => []OneConstruct
<1>1. QRelayInv => OneConstruct
  BY DEF QRelayInv
<1> QED
  BY <1>1, RelayInvariant, PTL

(* A packet grows by one construct at most, however often it is relayed,   *)
(* and what it was digipeated by stays in front.                           *)
THEOREM PathStaysBounded == Spec => []PathIsBounded
<1>1. QRelayInv => PathIsBounded
  <2> SUFFICES ASSUME QRelayInv, ~ Tagged(origin), ~ EndsInI(origin)
               PROVE  IsPrefix(origin, path)
    BY DEF QRelayInv, PathFollows, PathIsBounded
  <2>1. CASE path = origin
    BY <2>1 DEF QRelayInv, IsPrefix
  <2>2. CASE path # origin
    <3>1. PICK c \in Code, x \in Station \cup Server : path = origin \o <<c, x>>
      BY <2>2 DEF QRelayInv, HopsKept
    <3>2. c \in Hop /\ x \in Hop
      BY CallsAreHops
    <3>3. SubSeq(path, 1, Len(origin)) = origin /\ SubSeq(origin, 1, Len(origin)) = origin
      BY <3>1, <3>2 DEF QRelayInv
    <3>4. Len(path) = Len(origin) + 2 /\ Len(origin) \in Nat
      BY <3>1, <3>2 DEF QRelayInv
    <3> QED
      BY <3>3, <3>4 DEF IsPrefix
  <2> QED
    BY <2>1, <2>2
<1> QED
  BY <1>1, RelayInvariant, PTL

(* No rule turns a construct that vouches for nothing into one that does.  *)
LEMMA VouchStep ==
  ASSUME QRelayInv, [Next]_vars, Tagged(path), Found(path) \notin Vouched, ~ CodeBeforeI(path)
  PROVE  Found(path') \notin Vouched
<1>a. path \in Seq(Hop)
  BY DEF QRelayInv
<1>1. CASE path' = path
  BY <1>1 DEF Found, FoundAt, Constructs
<1>2. CASE path' # path
  <2>1. PICK server \in Server, login \in Station : Broadcast(server, login)
    BY <1>2 DEF Next, vars, RefuseLoop, RefuseOverlong
  <2>2. PICK i \in 1 .. Len(path) + 1, code \in Code, call \in Hop :
          /\ path' = Replaced(path, i, code, call)
          /\ \/ i = FoundAt(path) /\ code \notin Vouched
             \/ i = Len(path) - 1 /\ EndsInI(path)
    BY <1>a, <1>2, <2>1, AppliedShape DEF Broadcast
  <2>3. /\ path' \in Seq(Hop) /\ Len(path') = i + 1
        /\ \A j \in 1 .. i - 1 : path'[j] = path[j]
        /\ path'[i] = code
    <3>1. path' = Replaced(path, i, code, call)
      BY <2>2
    <3> QED
      BY <1>a, <3>1, ReplacedShape
  <2>4. /\ FoundAt(path) \in 1 .. Len(path) /\ path[FoundAt(path)] \in Code
        /\ \A j \in 1 .. Len(path) : j < FoundAt(path) => path[j] \notin Code
    BY <1>a, FoundFirst
  <2>5. CASE i = FoundAt(path) /\ code \notin Vouched
    <3>1. \A j \in 1 .. i - 1 : path'[j] \notin Code
      <4>1. \A j \in 1 .. i - 1 : j \in 1 .. Len(path) /\ j < FoundAt(path)
        BY <1>a, <2>4, <2>5
      <4> QED
        BY <2>3, <2>4, <4>1
    <3>2. FoundAt(path') = i
      BY <2>3, <3>1, FoundThere
    <3> QED
      BY <2>3, <2>5, <3>2 DEF Found
  <2>6. CASE i = Len(path) - 1 /\ EndsInI(path)
    <3>1. /\ path[Len(path)] = "I" /\ Len(path) >= 2
          /\ path[Len(path) - 1] \notin Code
      BY <1>a, <2>6 DEF EndsInI, Last, CodeBeforeI
    <3>2. FoundAt(path) < Len(path) - 1
      BY <1>a, <2>4, <3>1, CallsAreHops
    <3>3. path'[FoundAt(path)] = path[FoundAt(path)]
      BY <2>3, <2>4, <2>6, <3>2
    <3>4. FoundAt(path') = FoundAt(path)
      <4>1. FoundAt(path) \in 1 .. Len(path')
        BY <2>3, <2>4, <2>6, <3>2
      <4>2. \A j \in 1 .. FoundAt(path) - 1 : path'[j] \notin Code
        BY <2>3, <2>4, <2>6, <3>2
      <4> QED
        BY <2>3, <2>4, <3>3, <4>1, <4>2, FoundThere
    <3> QED
      BY <3>3, <3>4 DEF Found
  <2> QED
    BY <2>2, <2>5, <2>6
<1> QED
  BY <1>1, <1>2

(* Downgrading is for good (rule 5): what a relay no longer vouches for,   *)
(* no later server does.                                                   *)
THEOREM NeverVouched == Spec => NeverVouchedAgain
<1>1. QRelayInv /\ [Next]_vars =>
        [Tagged(path) /\ Found(path) \notin Vouched /\ ~ CodeBeforeI(path)
           => Found(path') \notin Vouched]_vars
  BY VouchStep
<1> QED
  BY <1>1, RelayInvariant, PTL DEF Spec, NeverVouchedAgain

-----------------------------------------------------------------------------
(* Positions: the parsers against what a report says.                      *)

LeastOf(v, S) == v \in S /\ \A n \in S : v <= n

(* Two characters: blanks read as zeros give the least of the numbers that *)
(* they may stand for.                                                     *)
LEMMA TwoSpelled ==
  ASSUME NEW a \in Int, NEW b \in Int
  PROVE  /\ Numbers(<<a, b>>) \subseteq Nat
         /\ IF a \in Digits \cup {Space} /\ b \in Digits \cup {Space}
            THEN LeastOf(10 * DigitOf(a) + DigitOf(b), Numbers(<<a, b>>))
            ELSE Numbers(<<a, b>>) = {}
<1>1. \A n : n \in Numbers(<<a, b>>) <=>
               n \in 0 .. 99 /\ a \in {Space, 48 + (n \div 10)} /\ b \in {Space, 48 + (n % 10)}
  <2>1. /\ Len(<<a, b>>) = 2 /\ DOMAIN <<a, b>> = {1, 2} /\ <<a, b>>[1] = a /\ <<a, b>>[2] = b
        /\ Power[3] = 100 /\ Power[2] = 10 /\ Power[1] = 1
    BY DEF Power
  <2>2. \A n \in 0 .. 99 : Digit(n, 2) = n \div 10 /\ Digit(n, 1) = n % 10
    BY <2>1 DEF Digit
  <2>3. Numbers(<<a, b>>) = {n \in 0 .. 99 : /\ a \in {Space, 48 + Digit(n, 2)}
                                             /\ b \in {Space, 48 + Digit(n, 1)}}
    BY <2>1 DEF Numbers
  <2> QED BY <2>2, <2>3
<1>2. CASE a \in Digits \cup {Space} /\ b \in Digits \cup {Space}
  <2>1. 10 * DigitOf(a) + DigitOf(b) \in Numbers(<<a, b>>)
    BY <1>1, <1>2 DEF DigitOf, Digits, Space
  <2>2. \A n \in Numbers(<<a, b>>) : 10 * DigitOf(a) + DigitOf(b) <= n
    BY <1>1, <1>2 DEF DigitOf, Digits, Space
  <2> QED BY <1>1, <1>2, <2>1, <2>2 DEF LeastOf
<1>3. CASE ~ (a \in Digits \cup {Space} /\ b \in Digits \cup {Space})
  <2>1. \A n \in 0 .. 99 : ~ (a \in {Space, 48 + (n \div 10)} /\ b \in {Space, 48 + (n % 10)})
    BY <1>3 DEF Digits, Space
  <2> QED BY <1>1, <1>3, <2>1
<1> QED BY <1>2, <1>3

(* The digits of a number of three.                                        *)
Apart(v, x, y, z) ==
  /\ v \in Nat /\ v <= 999
  /\ v \div 100 = x /\ (v \div 10) % 10 = y /\ v % 10 = z

LEMMA DigitsApart ==
  ASSUME NEW x \in 0 .. 9, NEW y \in 0 .. 9, NEW z \in 0 .. 9
  PROVE  Apart(10 * (10 * x + y) + z, x, y, z)
<1> DEFINE u == 10 * x + y
           v == 10 * u + z
<1>1. u \in Nat /\ u <= 99 /\ u \div 10 = x /\ u % 10 = y
  OBVIOUS
<1>2. v = 100 * x + (10 * y + z) /\ 10 * y + z \in 0 .. 99
  OBVIOUS
<1>3. v \div 100 = x
  BY <1>2
<1> HIDE DEF u
<1>4. v \in Nat /\ v <= 999 /\ v \div 10 = u /\ v % 10 = z
  BY <1>1
<1> HIDE DEF v
<1>5. Apart(v, x, y, z)
  BY <1>1, <1>3, <1>4 DEF Apart
<1> QED BY <1>5, Zenon DEF v, u

(* Three characters, as the degrees of a longitude have them.              *)
LEMMA ThreeSpelled ==
  ASSUME NEW a \in Int, NEW b \in Int, NEW c \in Int
  PROVE  /\ Numbers(<<a, b, c>>) \subseteq Nat
         /\ IF /\ a \in Digits \cup {Space} /\ b \in Digits \cup {Space}
               /\ c \in Digits \cup {Space}
            THEN LeastOf(10 * (10 * DigitOf(a) + DigitOf(b)) + DigitOf(c), Numbers(<<a, b, c>>))
            ELSE Numbers(<<a, b, c>>) = {}
<1>1. \A n : n \in Numbers(<<a, b, c>>) <=>
               /\ n \in Nat /\ n <= 999 /\ a \in {Space, 48 + (n \div 100)}
               /\ b \in {Space, 48 + ((n \div 10) % 10)} /\ c \in {Space, 48 + (n % 10)}
  <2> DEFINE t == <<a, b, c>>
             top == Power[Len(t) + 1] - 1
             Spells(n) == \A i \in DOMAIN t : t[i] \in {Space, 48 + Digit(n, Len(t) + 1 - i)}
  <2>1. /\ Len(t) = 3 /\ DOMAIN t = {1, 2, 3} /\ t[1] = a /\ t[2] = b /\ t[3] = c
        /\ Power[4] = 1000 /\ Power[3] = 100 /\ Power[2] = 10 /\ Power[1] = 1
    BY DEF Power
  <2>2. \A n \in Nat : /\ Digit(n, 3) = (n \div 100) % 10 /\ Digit(n, 2) = (n \div 10) % 10
                      /\ Digit(n, 1) = n % 10
    BY <2>1 DEF Digit
  <2>3. Numbers(t) = {n \in 0 .. top : Spells(n)}
    BY Zenon DEF Numbers
  <2>4. \A n : Spells(n) <=> /\ a \in {Space, 48 + Digit(n, 3)}
                            /\ b \in {Space, 48 + Digit(n, 2)}
                            /\ c \in {Space, 48 + Digit(n, 1)}
    BY <2>1
  <2>5. top = 999
    BY <2>1
  <2> HIDE DEF t, top, Spells
  <2>6. \A n : n \in Numbers(t) <=> n \in Nat /\ n <= top /\ Spells(n)
    BY <2>3, <2>5
  <2>7. \A n \in Nat : n <= 999 => (n \div 100) % 10 = n \div 100
    OBVIOUS
  <2>8. \A n : n \in Numbers(t) <=>
               /\ n \in Nat /\ n <= 999 /\ a \in {Space, 48 + (n \div 100)}
               /\ b \in {Space, 48 + ((n \div 10) % 10)} /\ c \in {Space, 48 + (n % 10)}
    <3>1. ASSUME NEW n \in Nat, n <= 999
          PROVE  Spells(n) <=> /\ a \in {Space, 48 + (n \div 100)}
                               /\ b \in {Space, 48 + ((n \div 10) % 10)}
                               /\ c \in {Space, 48 + (n % 10)}
      <4>1. /\ Digit(n, 3) = n \div 100 /\ Digit(n, 2) = (n \div 10) % 10
            /\ Digit(n, 1) = n % 10
        BY <2>2, <2>7, <3>1
      <4> QED BY <2>4, <4>1, Zenon
    <3> QED BY <2>5, <2>6, <3>1
  <2> QED BY <2>8 DEF t
<1>2. CASE a \in Digits \cup {Space} /\ b \in Digits \cup {Space} /\ c \in Digits \cup {Space}
  <2> DEFINE v == 10 * (10 * DigitOf(a) + DigitOf(b)) + DigitOf(c)
  <2>1. /\ DigitOf(a) \in 0 .. 9 /\ DigitOf(b) \in 0 .. 9 /\ DigitOf(c) \in 0 .. 9
        /\ a \in {Space, 48 + DigitOf(a)} /\ b \in {Space, 48 + DigitOf(b)}
        /\ c \in {Space, 48 + DigitOf(c)}
    BY <1>2 DEF DigitOf, Digits, Space
  <2>2. /\ v \in Nat /\ v <= 999 /\ v \div 100 = DigitOf(a) /\ (v \div 10) % 10 = DigitOf(b)
        /\ v % 10 = DigitOf(c)
    <3>1. Apart(v, DigitOf(a), DigitOf(b), DigitOf(c))
      <4>1. \A x, y, z \in 0 .. 9 : Apart(10 * (10 * x + y) + z, x, y, z)
        BY DigitsApart
      <4> QED BY <2>1, <4>1, Zenon
    <3> HIDE DEF v
    <3> QED BY <3>1, Zenon DEF Apart
  <2>3. v \in Numbers(<<a, b, c>>)
    <3> HIDE DEF v
    <3> QED BY <1>1, <2>1, <2>2
  <2>4. ASSUME NEW n \in Numbers(<<a, b, c>>) PROVE v <= n
    <3>1. /\ n \in Nat /\ n <= 999 /\ DigitOf(a) <= n \div 100 /\ DigitOf(b) <= (n \div 10) % 10
          /\ DigitOf(c) <= n % 10
      BY <1>1, <1>2, <2>4 DEF DigitOf, Digits, Space
    <3>2. n = 100 * (n \div 100) + 10 * ((n \div 10) % 10) + (n % 10)
      BY <3>1
    <3> QED BY <2>1, <3>1, <3>2
  <2> QED BY <1>1, <1>2, <2>3, <2>4 DEF LeastOf
<1>3. CASE ~ (a \in Digits \cup {Space} /\ b \in Digits \cup {Space} /\ c \in Digits \cup {Space})
  <2>1. \A n \in Nat : n <= 999 => ~ (/\ a \in {Space, 48 + (n \div 100)}
                               /\ b \in {Space, 48 + ((n \div 10) % 10)}
                               /\ c \in {Space, 48 + (n % 10)})
    BY <1>3 DEF Digits, Space
  <2> QED BY <1>1, <1>3, <2>1
<1> QED BY <1>2, <1>3

(* The least degrees, minutes and hundredths make the least angle.         *)
LEMMA AnglesLeast ==
  ASSUME NEW D, D \subseteq Nat, NEW M, M \subseteq Nat, NEW H, H \subseteq Nat
  PROVE  /\ Angles(D, M, H) \subseteq Nat
         /\ D = {} \/ M = {} \/ H = {} => Angles(D, M, H) = {}
         /\ \A d, m, h : LeastOf(d, D) /\ LeastOf(m, M) /\ LeastOf(h, H) =>
              LeastOf(d * Degree + m * MinuteOf + h, Angles(D, M, H))
<1>1. \A x : x \in Angles(D, M, H) <=>
               \E d \in D, m \in M, h \in H : x = d * Degree + m * MinuteOf + h
  BY DEF Angles
<1>2. Angles(D, M, H) \subseteq Nat
  BY <1>1 DEF Degree, MinuteOf
<1>3. ASSUME NEW d, NEW m, NEW h, LeastOf(d, D), LeastOf(m, M), LeastOf(h, H)
      PROVE  LeastOf(d * Degree + m * MinuteOf + h, Angles(D, M, H))
  <2>1. d \in D /\ m \in M /\ h \in H /\ d \in Nat /\ m \in Nat /\ h \in Nat
    BY <1>3 DEF LeastOf
  <2>2. ASSUME NEW x \in Angles(D, M, H) PROVE d * Degree + m * MinuteOf + h <= x
    <3>1. PICK e \in D, n \in M, i \in H : x = e * Degree + n * MinuteOf + i
      BY <1>1, <2>2
    <3>2. d <= e /\ m <= n /\ h <= i /\ e \in Nat /\ n \in Nat /\ i \in Nat
      BY <1>3 DEF LeastOf
    <3> QED BY <2>1, <3>1, <3>2 DEF Degree, MinuteOf
  <2> QED BY <1>1, <2>1, <2>2 DEF LeastOf
<1> QED BY <1>1, <1>2, <1>3, Zenon

(* Where the parsers put a blanked report: on either side of the equator   *)
(* and of the meridian at the angle nearest to it.  North and east that is *)
(* the corner in the south and west.                                       *)
Away(angle) == Signed(angle >= 0, angle)

Nearest(angle, said) == angle \in said /\ \A a \in said : Away(angle) <= Away(a)

LEMMA NearestIsCorner ==
  ASSUME NEW said, NEW angle, Nearest(angle, said)
  PROVE  Cornered(angle, said)
BY DEF Nearest, Cornered, Away, Signed

(* The least angle is the nearest, unless it is off the earth.             *)
Reached(v, positive, A, limit) ==
  /\ v <= limit * Degree =>
       /\ Nearest(Signed(positive, v), Within(positive, A, limit))
       /\ Signed(positive, v) \in -limit * Degree .. limit * Degree
  /\ ~ (v <= limit * Degree) =>
       /\ Within(positive, A, limit) = {}
       /\ Signed(positive, v) \notin -limit * Degree .. limit * Degree

LEMMA LeastIsNearest ==
  ASSUME NEW A, A \subseteq Nat, NEW v, LeastOf(v, A), NEW positive \in BOOLEAN, NEW limit \in Nat
  PROVE  Reached(v, positive, A, limit)
<1> DEFINE bound == limit * Degree
           W == Within(positive, A, limit)
<1>0. bound \in Nat /\ -limit * Degree = -bound
  BY DEF Degree
<1>1. \A x : x \in W <=> x \in -bound .. bound /\ \E n \in A : x = Signed(positive, n)
  BY <1>0 DEF Within
<1> HIDE DEF W, bound
<1>2. v \in A /\ v \in Nat /\ \A n \in A : v <= n /\ n \in Nat
  BY DEF LeastOf
<1>3. CASE v <= bound
  <2>1. Signed(positive, v) \in -bound .. bound /\ Signed(positive, v) \in W
    BY <1>0, <1>1, <1>2, <1>3 DEF Signed
  <2>2. ASSUME NEW x \in W PROVE Away(Signed(positive, v)) <= Away(x)
    <3>1. PICK n \in A : x = Signed(positive, n)
      BY <1>1, <2>2
    <3>2. v <= n /\ n \in Nat
      BY <1>2
    <3>3. Away(x) = n /\ Away(Signed(positive, v)) = v
      BY <1>2, <3>1, <3>2 DEF Away, Signed
    <3> QED BY <3>2, <3>3
  <2>3. Nearest(Signed(positive, v), W)
    BY <2>1, <2>2, Zenon DEF Nearest
  <2> QED BY <1>0, <1>3, <2>1, <2>3, Zenon DEF Reached, W, bound
<1>4. CASE ~ (v <= bound)
  <2>1. \A n \in A : Signed(positive, n) \notin -bound .. bound
    BY <1>0, <1>2, <1>4 DEF Signed
  <2>2. W = {}
    BY <1>1, <2>1, Zenon
  <2>3. Signed(positive, v) \notin -bound .. bound
    BY <1>2, <2>1, Zenon
  <2> QED BY <1>0, <1>4, <2>2, <2>3, Zenon DEF Reached, W, bound
<1> QED BY <1>3, <1>4

(* Where a parser puts a report, against what the report says.             *)
Agree(places, said) ==
  IF said.lat = {} \/ said.lon = {} THEN places = {}
  ELSE \E p \in places : /\ places = {p}
                         /\ Nearest(p.lat, said.lat) /\ Nearest(p.lon, said.lon)

(* Position::new takes what is on the earth.                               *)
LEMMA Positioned ==
  ASSUME NEW lat \in Int, NEW lon \in Int
  PROVE  Position(lat, lon) =
           IF lat \in -90 * Degree .. 90 * Degree /\ lon \in -180 * Degree .. 180 * Degree
           THEN {Point(lat, lon)} ELSE {}
BY DEF Position, InRange, Point

(* Two angles, each the nearest of those that may be meant, agree.         *)
Spoken(said, A, v, north, B, w, east) ==
  /\ A \subseteq Nat /\ LeastOf(v, A) /\ north \in BOOLEAN /\ said.lat = Within(north, A, 90)
  /\ B \subseteq Nat /\ LeastOf(w, B) /\ east \in BOOLEAN /\ said.lon = Within(east, B, 180)

LEMMA BothAgree ==
  ASSUME NEW said, NEW A, NEW v, NEW north, NEW B, NEW w, NEW east,
         Spoken(said, A, v, north, B, w, east)
  PROVE  Agree(Position(Signed(north, v), Signed(east, w)), said)
<1>b. /\ A \subseteq Nat /\ LeastOf(v, A) /\ north \in BOOLEAN /\ said.lat = Within(north, A, 90)
      /\ B \subseteq Nat /\ LeastOf(w, B) /\ east \in BOOLEAN /\ said.lon = Within(east, B, 180)
  BY Zenon DEF Spoken
<1> DEFINE lat == Signed(north, v)
           lon == Signed(east, w)
<1>0. 90 \in Nat /\ 180 \in Nat
  OBVIOUS
<1>1. lat \in Int /\ lon \in Int
  <2>1. v \in Nat /\ w \in Nat
    BY <1>b DEF LeastOf
  <2> QED BY <2>1 DEF Signed
<1>2. /\ v <= 90 * Degree =>
           Nearest(lat, said.lat) /\ lat \in -90 * Degree .. 90 * Degree
      /\ ~ (v <= 90 * Degree) =>
           said.lat = {} /\ lat \notin -90 * Degree .. 90 * Degree
  <2>1. \A limit \in Nat : Reached(v, north, A, limit)
    BY <1>b, LeastIsNearest, Zenon
  <2>2. Reached(v, north, A, 90)
    BY <1>0, <2>1, SMT
  <2> QED BY <1>b, <2>2, Zenon DEF Reached
<1>3. /\ w <= 180 * Degree =>
           Nearest(lon, said.lon) /\ lon \in -180 * Degree .. 180 * Degree
      /\ ~ (w <= 180 * Degree) =>
           said.lon = {} /\ lon \notin -180 * Degree .. 180 * Degree
  <2>1. \A limit \in Nat : Reached(w, east, B, limit)
    BY <1>b, LeastIsNearest, Zenon
  <2>2. Reached(w, east, B, 180)
    BY <1>0, <2>1, SMT
  <2> QED BY <1>b, <2>2, Zenon DEF Reached
<1> HIDE DEF lat, lon
<1>a. Position(lat, lon) =
        IF lat \in -90 * Degree .. 90 * Degree /\ lon \in -180 * Degree .. 180 * Degree
        THEN {Point(lat, lon)} ELSE {}
  BY <1>1, Positioned, Zenon
<1>4. CASE v <= 90 * Degree /\ w <= 180 * Degree
  <2>1. Position(lat, lon) = {Point(lat, lon)}
    BY <1>a, <1>2, <1>3, <1>4, Zenon
  <2>2. Point(lat, lon).lat = lat /\ Point(lat, lon).lon = lon
    BY DEF Point
  <2>3. Nearest(lat, said.lat) /\ Nearest(lon, said.lon) /\ said.lat # {} /\ said.lon # {}
    <3>1. Nearest(lat, said.lat) /\ Nearest(lon, said.lon)
      BY <1>2, <1>3, <1>4
    <3> QED BY <3>1, Zenon DEF Nearest
  <2> HIDE DEF Point
  <2>4. Agree(Position(lat, lon), said)
    BY <2>1, <2>2, <2>3, Zenon DEF Agree
  <2> QED BY <2>4, Zenon DEF lat, lon
<1>5. CASE ~ (v <= 90 * Degree /\ w <= 180 * Degree)
  <2>1. Position(lat, lon) = {}
    BY <1>a, <1>2, <1>3, <1>5, Zenon
  <2>2. said.lat = {} \/ said.lon = {}
    BY <1>2, <1>3, <1>5, Zenon
  <2>3. Agree(Position(lat, lon), said)
    BY <2>1, <2>2, Zenon DEF Agree
  <2> QED BY <2>3, Zenon DEF lat, lon
<1> QED BY <1>4, <1>5

(* parse_uncompressed reads what the digits spell.                         *)
LEMMA UncompressedAgrees ==
  ASSUME NEW b \in Seq(Int)
  PROVE  Agree(ParseUncompressed(b), SaysUncompressed(b))
<1> DEFINE Read(i) == b[i] \in Digits \cup {Space}
           degrees == \A i \in {1, 2} : b[i] \in Digits
           D == Numbers(<<b[1], b[2]>>)
           M == Numbers(<<b[3], b[4]>>)
           H == Numbers(<<b[6], b[7]>>)
           E == Numbers(<<b[10], b[11], b[12]>>)
           N == Numbers(<<b[13], b[14]>>)
           I == Numbers(<<b[16], b[17]>>)
           latitude == TwoDigits(b, 1) * Degree + TwoDigits(b, 3) * MinuteOf + TwoDigits(b, 6)
           longitude == ThreeDigits(b, 10) * Degree + TwoDigits(b, 13) * MinuteOf + TwoDigits(b, 16)
           north == b[8] = 78
           east == b[18] = 69
           spelled == /\ AllIn(b, {1, 2, 10, 11, 12}, Digits)
                      /\ AllIn(b, {3, 4, 6, 7, 13, 14, 16, 17}, Digits \cup {Space})
<1>1. CASE ~ FormedUncompressed(b)
  <2>1. ParseUncompressed(b) = {}
    <3> SUFFICES ASSUME ParseUncompressed(b) # {} PROVE FALSE
      OBVIOUS
    <3>1. /\ Len(b) >= 19 /\ AllIn(b, {1, 2, 10, 11, 12}, Digits)
          /\ b[5] = Dot /\ b[15] = Dot /\ b[8] \in {78, 83} /\ b[18] \in {69, 87}
          /\ b[9] \in ValidTables
      BY Zenon DEF ParseUncompressed
    <3>2. \A i \in {1, 2, 10, 11, 12} : b[i] # Space
      <4>1. Space \notin Digits
        BY DEF Digits, Space
      <4> QED BY <3>1, <4>1, Zenon DEF AllIn
    <3> QED BY <1>1, <3>1, <3>2, Zenon DEF FormedUncompressed
  <2>2. SaysUncompressed(b).lat = {}
    BY <1>1 DEF SaysUncompressed, Nothing
  <2> QED BY <2>1, <2>2 DEF Agree
<1>2. CASE FormedUncompressed(b)
  <2>0. Len(b) >= 19 /\ Len(b) \in Nat
    BY <1>2 DEF FormedUncompressed
  <2>1. /\ b[1] \in Int /\ b[2] \in Int /\ b[3] \in Int /\ b[4] \in Int
        /\ b[6] \in Int /\ b[7] \in Int
        /\ b[10] \in Int /\ b[11] \in Int /\ b[12] \in Int
        /\ b[13] \in Int /\ b[14] \in Int /\ b[16] \in Int /\ b[17] \in Int
    <3>1. \A i \in 1 .. Len(b) : b[i] \in Int
      OBVIOUS
    <3>2. \A i \in {1, 2, 3, 4, 6, 7, 10, 11, 12, 13, 14, 16, 17} : i \in 1 .. Len(b)
      BY <2>0
    <3> QED BY <3>1, <3>2, Zenon
  <2>2. /\ SaysUncompressed(b).lat = Within(north, Angles(D, M, H), 90)
        /\ SaysUncompressed(b).lon = Within(east, Angles(E, N, I), 180)
    BY <1>2, Zenon DEF SaysUncompressed
  <2>3. ParseUncompressed(b) =
          IF spelled THEN Position(Signed(north, latitude), Signed(east, longitude))
          ELSE {}
    BY <1>2, Zenon DEF ParseUncompressed, FormedUncompressed
  <2>4. /\ D \subseteq Nat /\ M \subseteq Nat /\ H \subseteq Nat
        /\ E \subseteq Nat /\ N \subseteq Nat /\ I \subseteq Nat
    BY <2>1, TwoSpelled, ThreeSpelled, Zenon
  <2>5. spelled <=> /\ Read(1) /\ Read(2) /\ Read(3) /\ Read(4) /\ Read(6) /\ Read(7)
                    /\ Read(10) /\ Read(11) /\ Read(12)
                    /\ Read(13) /\ Read(14) /\ Read(16) /\ Read(17)
    <3>1. AllIn(b, {1, 2, 10, 11, 12}, Digits) <=>
            /\ b[1] \in Digits /\ b[2] \in Digits /\ b[10] \in Digits
            /\ b[11] \in Digits /\ b[12] \in Digits
      BY DEF AllIn
    <3>2. AllIn(b, {3, 4, 6, 7, 13, 14, 16, 17}, Digits \cup {Space}) <=>
            /\ Read(3) /\ Read(4) /\ Read(6) /\ Read(7)
            /\ Read(13) /\ Read(14) /\ Read(16) /\ Read(17)
      BY DEF AllIn
    <3>3. /\ b[1] # Space /\ b[2] # Space /\ b[10] # Space
          /\ b[11] # Space /\ b[12] # Space
      BY <1>2 DEF FormedUncompressed
    <3>4. \A x : x # Space => (x \in Digits <=> x \in Digits \cup {Space})
      OBVIOUS
    <3> QED BY <3>1, <3>2, <3>3, <3>4, Zenon
  <2>a. /\ TwoDigits(b, 1) = 10 * DigitOf(b[1]) + DigitOf(b[2])
        /\ TwoDigits(b, 3) = 10 * DigitOf(b[3]) + DigitOf(b[4])
        /\ TwoDigits(b, 6) = 10 * DigitOf(b[6]) + DigitOf(b[7])
        /\ ThreeDigits(b, 10) = 10 * (10 * DigitOf(b[10]) + DigitOf(b[11])) + DigitOf(b[12])
        /\ TwoDigits(b, 13) = 10 * DigitOf(b[13]) + DigitOf(b[14])
        /\ TwoDigits(b, 16) = 10 * DigitOf(b[16]) + DigitOf(b[17])
    BY DEF TwoDigits, ThreeDigits
  <2>6. /\ IF Read(1) /\ Read(2) THEN LeastOf(TwoDigits(b, 1), D) ELSE D = {}
        /\ IF Read(3) /\ Read(4) THEN LeastOf(TwoDigits(b, 3), M) ELSE M = {}
        /\ IF Read(6) /\ Read(7) THEN LeastOf(TwoDigits(b, 6), H) ELSE H = {}
        /\ IF Read(10) /\ Read(11) /\ Read(12) THEN LeastOf(ThreeDigits(b, 10), E) ELSE E = {}
        /\ IF Read(13) /\ Read(14) THEN LeastOf(TwoDigits(b, 13), N) ELSE N = {}
        /\ IF Read(16) /\ Read(17) THEN LeastOf(TwoDigits(b, 16), I) ELSE I = {}
    <3>1. IF Read(1) /\ Read(2) THEN LeastOf(TwoDigits(b, 1), D) ELSE D = {}
      BY <2>1, <2>a, TwoSpelled, Zenon
    <3>2. IF Read(3) /\ Read(4) THEN LeastOf(TwoDigits(b, 3), M) ELSE M = {}
      BY <2>1, <2>a, TwoSpelled, Zenon
    <3>3. IF Read(6) /\ Read(7) THEN LeastOf(TwoDigits(b, 6), H) ELSE H = {}
      BY <2>1, <2>a, TwoSpelled, Zenon
    <3>4. IF Read(10) /\ Read(11) /\ Read(12) THEN LeastOf(ThreeDigits(b, 10), E) ELSE E = {}
      <4>1. b[10] \in Int /\ b[11] \in Int /\ b[12] \in Int
        BY <2>1
      <4>2. ThreeDigits(b, 10) = 10 * (10 * DigitOf(b[10]) + DigitOf(b[11])) + DigitOf(b[12])
        BY <2>a
      <4>3. IF Read(10) /\ Read(11) /\ Read(12)
            THEN LeastOf(10 * (10 * DigitOf(b[10]) + DigitOf(b[11])) + DigitOf(b[12]), E)
            ELSE E = {}
        BY <4>1, ThreeSpelled, Zenon
      <4> QED BY <4>2, <4>3, Zenon
    <3>5. IF Read(13) /\ Read(14) THEN LeastOf(TwoDigits(b, 13), N) ELSE N = {}
      BY <2>1, <2>a, TwoSpelled, Zenon
    <3>6. IF Read(16) /\ Read(17) THEN LeastOf(TwoDigits(b, 16), I) ELSE I = {}
      BY <2>1, <2>a, TwoSpelled, Zenon
    <3> QED BY <3>1, <3>2, <3>3, <3>4, <3>5, <3>6, Zenon
  <2>b. north \in BOOLEAN /\ east \in BOOLEAN
    BY Zenon
  <2> HIDE DEF D, M, H, E, N, I, latitude, longitude, spelled, Read, north, east
  <2>7. Angles(D, M, H) \subseteq Nat /\ Angles(E, N, I) \subseteq Nat
    BY <2>4, AnglesLeast
  <2>8. CASE spelled
    <3>1. LeastOf(latitude, Angles(D, M, H)) /\ LeastOf(longitude, Angles(E, N, I))
      BY <2>4, <2>5, <2>6, <2>8, AnglesLeast DEF latitude, longitude
    <3>2. Agree(Position(Signed(north, latitude), Signed(east, longitude)),
                SaysUncompressed(b))
      <4> DEFINE A == Angles(D, M, H)
                 B == Angles(E, N, I)
                 said == SaysUncompressed(b)
      <4>1. Spoken(said, A, latitude, north, B, longitude, east)
        BY <2>2, <2>7, <2>b, <3>1, Zenon DEF Spoken
      <4> HIDE DEF A, B, said
      <4>2. Agree(Position(Signed(north, latitude), Signed(east, longitude)), said)
        BY <4>1, BothAgree, Zenon
      <4> QED BY <4>2 DEF said
    <3> QED BY <2>3, <2>8, <3>2
  <2>9. CASE ~ spelled
    <3>1. Angles(D, M, H) = {} \/ Angles(E, N, I) = {}
      BY <2>4, <2>5, <2>6, <2>9, AnglesLeast
    <3>2. SaysUncompressed(b).lat = {} \/ SaysUncompressed(b).lon = {}
      BY <2>2, <3>1 DEF Within
    <3> QED BY <2>3, <2>9, <3>2 DEF Agree
  <2> QED BY <2>8, <2>9
<1> QED BY <1>1, <1>2

(* Multiplying keeps an order.                                             *)
LEMMA TimesOrder ==
  ASSUME NEW a \in Int, NEW b \in Int, NEW k \in Nat, a <= b
  PROVE  a * k <= b * k
<1>1. (b - a) * k >= 0
  OBVIOUS
<1> QED BY <1>1

(* A quotient is the only one that leaves a rest below the divisor.        *)
LEMMA Quotient ==
  ASSUME NEW v \in Nat, NEW k \in Nat \ {0}
  PROVE  /\ v \div k \in Nat /\ v % k \in 0 .. k - 1
         /\ v = (v \div k) * k + (v % k)
         /\ v - (v \div k) * k \in 0 .. k - 1
         /\ \A p \in Int : v - p * k \in 0 .. k - 1 <=> p = v \div k
<1>1. /\ v \div k \in Nat /\ v % k \in 0 .. k - 1
      /\ v = (v \div k) * k + (v % k)
  OBVIOUS
<1> DEFINE q == v \div k
           rest == v % k
<1> HIDE DEF q, rest
<1>a. q \in Nat /\ rest \in 0 .. k - 1 /\ v = q * k + rest
  BY <1>1 DEF q, rest
<1>2. ASSUME NEW p \in Int PROVE v - p * k \in 0 .. k - 1 <=> p = q
  <2>1. CASE p < q
    <3>1. (p + 1) * k <= q * k
      BY <1>a, <2>1, TimesOrder
    <3> QED BY <1>a, <2>1, <3>1
  <2>2. CASE p > q
    <3>1. (q + 1) * k <= p * k
      BY <1>a, <2>2, TimesOrder
    <3> QED BY <1>a, <2>2, <3>1
  <2>3. CASE p = q
    BY <1>a, <2>3
  <2> QED BY <1>a, <2>1, <2>2, <2>3
<1> QED BY <1>1, <1>a, <1>2 DEF q

(* What is less than a degree is fewer hundredths than a degree has.       *)
LEMMA PartOfDegree ==
  ASSUME NEW x \in Nat, NEW r \in Nat, NEW factor \in Nat \ {0},
         x + factor <= Degree * LonDivisor, r * LonDivisor <= x
  PROVE  r < Degree
BY DEF Degree, LonDivisor

(* A rest, as a difference or as two bounds.                               *)
LEMMA RestBetween ==
  ASSUME NEW x \in Nat, NEW k \in Nat, NEW s \in Int
  PROVE  s * k <= x /\ x < (s + 1) * k <=> x - s * k \in 0 .. k - 1
<1>1. (s + 1) * k = s * k + k /\ s * k \in Int
  OBVIOUS
<1>2. \A m \in Int : m <= x /\ x < m + k <=> x - m \in 0 .. k - 1
  OBVIOUS
<1> QED BY <1>1, <1>2, Zenon

(* Up to a limit, the quotient is below it or nothing is left.             *)
LEMMA WholeOrLess ==
  ASSUME NEW q \in Nat, NEW rest \in Nat, NEW limit \in Nat, NEW k \in Nat \ {0},
         q * k + rest <= limit * k
  PROVE  q < limit \/ (q = limit /\ rest = 0)
<1>1. CASE q >= limit + 1
  <2>1. (limit + 1) * k <= q * k
    BY <1>1, TimesOrder
  <2> QED BY <2>1
<1>2. CASE q = limit
  BY <1>2
<1> QED BY <1>1, <1>2

(* Fewer degrees, and a part of one, are within the limit.                 *)
LEMMA DegreesWithin ==
  ASSUME NEW q \in Nat, NEW r \in Nat, NEW limit \in Nat, q < limit, r < Degree
  PROVE  q * Degree + r <= limit * Degree
BY DEF Degree

(* raw / divisor degrees: the parser's quotients are the one angle that    *)
(* the number says.                                                        *)
LEMMA TurnedOnce ==
  ASSUME NEW v \in Nat, NEW parts \in Nat \ {0}, NEW factor \in Nat \ {0}, NEW limit \in Nat,
         parts * factor = Degree * LonDivisor
  PROVE  IF v <= limit * parts
         THEN /\ Hundredths(v, parts, factor) \in 0 .. limit * Degree
              /\ Turned(v, parts, factor, limit) = {Hundredths(v, parts, factor)}
         ELSE Turned(v, parts, factor, limit) = {}
<1> DEFINE q == v \div parts
           rest == v % parts
           x == rest * factor
           r == x \div LonDivisor
           T == Turned(v, parts, factor, limit)
           whole == {p \in 0 .. limit : v - p * parts \in 0 .. parts - 1}
           part == {s \in 0 .. Degree - 1 : s * LonDivisor <= x /\ x < (s + 1) * LonDivisor}
           W == {p * Degree + s : p \in whole, s \in part}
<1>1. Hundredths(v, parts, factor) = q * Degree + r
  BY Zenon DEF Hundredths
<1>2. \A y : y \in T <=> v <= limit * parts /\ \E p \in whole, s \in part : y = p * Degree + s
  <2>1. T = {y \in W : v <= limit * parts}
    BY DEF Turned
  <2> HIDE DEF T, whole, part
  <2>2. \A y : y \in W <=> \E p \in whole, s \in part : y = p * Degree + s
    OBVIOUS
  <2> HIDE DEF W
  <2> QED BY <2>1, <2>2
<1>3. /\ q \in Nat /\ rest \in 0 .. parts - 1 /\ v = q * parts + rest
      /\ \A p \in Int : v - p * parts \in 0 .. parts - 1 <=> p = q
  BY Quotient
<1>4. x \in Nat /\ LonDivisor \in Nat \ {0} /\ Degree \in Nat \ {0}
  BY <1>3 DEF LonDivisor, Degree
<1> HIDE DEF q, rest, x
<1>5. /\ r \in Nat /\ x - r * LonDivisor \in 0 .. LonDivisor - 1
      /\ \A s \in Int : x - s * LonDivisor \in 0 .. LonDivisor - 1 <=> s = r
  BY <1>4, Quotient, Zenon
<1> HIDE DEF r
<1>6. r < Degree
  <2>1. x + factor <= Degree * LonDivisor
    <3>1. x + factor = (rest + 1) * factor
      BY <1>3 DEF x
    <3>2. (rest + 1) * factor <= parts * factor
      BY <1>3, TimesOrder
    <3> QED BY <3>1, <3>2, Zenon
  <2>2. r * LonDivisor <= x
    <3>1. r \in Int /\ LonDivisor \in Nat
      BY <1>4, <1>5
    <3> QED BY <1>4, <1>5, <3>1, RestBetween, Zenon
  <2> QED BY <1>3, <1>4, <1>5, <2>1, <2>2, PartOfDegree, Zenon
<1>7. \A p : p \in whole <=> p = q /\ q <= limit
  <2>1. \A p : p \in whole <=> p \in 0 .. limit /\ v - p * parts \in 0 .. parts - 1
    BY Zenon
  <2>2. /\ \A p \in 0 .. limit : p \in Int /\ p <= limit
        /\ q \in Int /\ (q <= limit => q \in 0 .. limit)
    BY <1>3
  <2> QED BY <1>3, <2>1, <2>2, Zenon
<1>8. \A s : s \in part <=> s = r
  <2>1. \A s : s \in part <=>
          s \in 0 .. Degree - 1 /\ s * LonDivisor <= x /\ x < (s + 1) * LonDivisor
    BY Zenon
  <2>2. /\ \A s \in 0 .. Degree - 1 : s \in Int
        /\ r \in Int /\ r \in 0 .. Degree - 1 /\ LonDivisor \in Nat
    BY <1>4, <1>5, <1>6
  <2> QED BY <1>4, <1>5, <2>1, <2>2, RestBetween, Zenon
<1> HIDE DEF whole, part, T
<1>9. CASE v <= limit * parts
  <2>1. q <= limit /\ q * Degree + r <= limit * Degree
    <3>1. q < limit \/ (q = limit /\ rest = 0)
      <4>1. rest \in Nat /\ q * parts + rest <= limit * parts
        BY <1>3, <1>9
      <4> QED BY <1>3, <4>1, WholeOrLess, Zenon
    <3>2. CASE q < limit
      <4>1. q <= limit
        BY <1>3, <3>2
      <4> QED BY <1>3, <1>5, <1>6, <3>2, <4>1, DegreesWithin, Zenon
    <3>3. CASE q = limit /\ rest = 0
      <4>1. x = 0
        BY <3>3 DEF x
      <4>2. r = 0
        BY <4>1 DEF r, LonDivisor
      <4>3. \A n \in Nat : n <= n /\ n * Degree + 0 <= n * Degree
        BY DEF Degree
      <4> QED BY <3>3, <4>2, <4>3, Zenon
    <3> QED BY <3>1, <3>2, <3>3
  <2>2. \A y : y \in T <=> y = q * Degree + r
    BY <1>2, <1>7, <1>8, <1>9, <2>1
  <2>3. T = {q * Degree + r}
    BY <2>2
  <2>4. q * Degree + r \in 0 .. limit * Degree
    BY <1>3, <1>5, <2>1 DEF Degree
  <2> QED BY <1>1, <1>9, <2>3, <2>4, Zenon DEF T
<1>10. CASE ~ (v <= limit * parts)
  BY <1>2, <1>10 DEF T
<1> QED BY <1>9, <1>10

(* The two divisors of the code.                                           *)
LEMMA LatTurned ==
  ASSUME NEW v \in Nat
  PROVE  IF v <= 180 * LatDivisor
         THEN /\ Hundredths(v, LatDivisor, LatFactor) \in 0 .. 180 * Degree
              /\ Turned(v, LatDivisor, LatFactor, 180) = {Hundredths(v, LatDivisor, LatFactor)}
         ELSE Turned(v, LatDivisor, LatFactor, 180) = {}
<1> DEFINE Once(limit) ==
             IF v <= limit * LatDivisor
             THEN /\ Hundredths(v, LatDivisor, LatFactor) \in 0 .. limit * Degree
                  /\ Turned(v, LatDivisor, LatFactor, limit)
                       = {Hundredths(v, LatDivisor, LatFactor)}
             ELSE Turned(v, LatDivisor, LatFactor, limit) = {}
<1>1. /\ LatDivisor \in Nat \ {0} /\ LatFactor \in Nat \ {0}
      /\ LatDivisor * LatFactor = Degree * LonDivisor
  BY DEF LatDivisor, LatFactor, Degree, LonDivisor
<1>2. \A limit \in Nat : Once(limit)
  BY <1>1, TurnedOnce, Zenon
<1> HIDE DEF Once
<1>3. Once(180)
  BY <1>2
<1> QED BY <1>3, Zenon DEF Once

LEMMA LonTurned ==
  ASSUME NEW v \in Nat
  PROVE  IF v <= 360 * LonDivisor
         THEN /\ Hundredths(v, LonDivisor, LonFactor) \in 0 .. 360 * Degree
              /\ Turned(v, LonDivisor, LonFactor, 360) = {Hundredths(v, LonDivisor, LonFactor)}
         ELSE Turned(v, LonDivisor, LonFactor, 360) = {}
<1> DEFINE Once(limit) ==
             IF v <= limit * LonDivisor
             THEN /\ Hundredths(v, LonDivisor, LonFactor) \in 0 .. limit * Degree
                  /\ Turned(v, LonDivisor, LonFactor, limit)
                       = {Hundredths(v, LonDivisor, LonFactor)}
             ELSE Turned(v, LonDivisor, LonFactor, limit) = {}
<1>1. /\ LonDivisor \in Nat \ {0} /\ LonFactor \in Nat \ {0}
      /\ LonDivisor * LonFactor = Degree * LonDivisor
  BY DEF LonFactor, Degree, LonDivisor
<1>2. \A limit \in Nat : Once(limit)
  BY <1>1, TurnedOnce, Zenon
<1> HIDE DEF Once
<1>3. Once(360)
  BY <1>2
<1> QED BY <1>3, Zenon DEF Once

(* parse_compressed reads what the numbers in base 91 say.                 *)
LEMMA CompressedAgrees ==
  ASSUME NEW b \in Seq(Int), Len(b) >= 1, b[1] \notin Digits
  PROVE  Agree(ParseCompressed(b), SaysCompressed(b))
<1>1. CASE ~ FormedCompressed(b)
  <2>1. ParseCompressed(b) = {}
    <3>1. ASSUME \A i \in 2 .. 9 : b[i] \in 33 .. 124
          PROVE  \A i \in 2 .. 9 : b[i] - 33 \in 0 .. 91
      <4>1. \A c \in 33 .. 124 : c - 33 \in 0 .. 91
        OBVIOUS
      <4> QED BY <3>1, <4>1, Zenon
    <3>2. b[1] \in ValidTables => b[1] \in ValidTables \ Digits
      OBVIOUS
    <3> QED BY <1>1, <3>1, <3>2, Zenon DEF ParseCompressed, FormedCompressed, AllIn
  <2>2. SaysCompressed(b).lat = {}
    BY <1>1 DEF SaysCompressed, Nothing
  <2> QED BY <2>1, <2>2 DEF Agree
<1>2. CASE FormedCompressed(b)
  <2> DEFINE v == Base91(b, 2)
             w == Base91(b, 6)
             A == Turned(v, LatDivisor, LatFactor, 180)
             B == Turned(w, LonDivisor, LonFactor, 360)
             lat == 90 * Degree - Hundredths(v, LatDivisor, LatFactor)
             lon == -180 * Degree + Hundredths(w, LonDivisor, LonFactor)
  <2>1. Len(b) >= 13 /\ Len(b) \in Nat /\ \A i \in 2 .. 9 : b[i] \in 33 .. 124
    <3>1. Len(b) >= 13 /\ \A i \in 2 .. 9 : b[i] - 33 \in 0 .. 91
      BY <1>2 DEF FormedCompressed
    <3>2. \A i \in 2 .. 9 : b[i] \in Int
      <4>1. \A i \in 2 .. 9 : i \in 1 .. Len(b)
        BY <3>1
      <4>2. \A i \in 1 .. Len(b) : b[i] \in Int
        OBVIOUS
      <4> QED BY <4>1, <4>2, Zenon
    <3>3. \A c \in Int : c - 33 \in 0 .. 91 => c \in 33 .. 124
      OBVIOUS
    <3>4. \A i \in 2 .. 9 : b[i] \in 33 .. 124
      BY <3>1, <3>2, <3>3, Zenon
    <3> QED BY <3>1, <3>4
  <2>a. \A i \in 2 .. 9 : b[i] \in Int /\ b[i] >= 33
    <3>1. \A c \in 33 .. 124 : c \in Int /\ c >= 33
      OBVIOUS
    <3> QED BY <2>1, <3>1, Zenon
  <2>2. /\ v \in Nat /\ v = Number91(b[2], b[3], b[4], b[5])
        /\ w \in Nat /\ w = Number91(b[6], b[7], b[8], b[9])
    <3>1. v \in Nat /\ v = Number91(b[2], b[3], b[4], b[5])
      <4> DEFINE b1 == b[2]  b2 == b[3]  b3 == b[4]  b4 == b[5]
      <4>1. /\ b1 \in Int /\ b2 \in Int /\ b3 \in Int /\ b4 \in Int
            /\ b1 >= 33 /\ b2 >= 33 /\ b3 >= 33 /\ b4 >= 33
        BY <2>a
      <4>2. v = 91 * (91 * (91 * (b1 - 33) + (b2 - 33)) + (b3 - 33)) + (b4 - 33)
        BY DEF Base91
      <4> HIDE DEF v, b1, b2, b3, b4
      <4>3. v \in Nat /\ v = Number91(b1, b2, b3, b4)
        BY <4>1, <4>2 DEF Number91
      <4> QED BY <4>3 DEF b1, b2, b3, b4
    <3>2. w \in Nat /\ w = Number91(b[6], b[7], b[8], b[9])
      <4> DEFINE b1 == b[6]  b2 == b[7]  b3 == b[8]  b4 == b[9]
      <4>1. /\ b1 \in Int /\ b2 \in Int /\ b3 \in Int /\ b4 \in Int
            /\ b1 >= 33 /\ b2 >= 33 /\ b3 >= 33 /\ b4 >= 33
        BY <2>a
      <4>2. w = 91 * (91 * (91 * (b1 - 33) + (b2 - 33)) + (b3 - 33)) + (b4 - 33)
        BY DEF Base91
      <4> HIDE DEF w, b1, b2, b3, b4
      <4>3. w \in Nat /\ w = Number91(b1, b2, b3, b4)
        BY <4>1, <4>2 DEF Number91
      <4> QED BY <4>3 DEF b1, b2, b3, b4
    <3> QED BY <3>1, <3>2
  <2> HIDE DEF v, w
  <2>3. SaysCompressed(b) =
          [lat |-> {90 * Degree - a : a \in A}, lon |-> {a - 180 * Degree : a \in B}]
    BY <1>2, <2>2, Zenon DEF SaysCompressed
  <2>4. ParseCompressed(b) =
          {p \in Position(lat, lon) : v <= 180 * LatDivisor /\ w <= 360 * LonDivisor}
    <3>1. Len(b) >= 13 /\ b[1] \in ValidTables
      BY <1>2 DEF FormedCompressed
    <3>2. AllIn(b, 2 .. 9, 33 .. 124)
      BY <2>1, Zenon DEF AllIn
    <3> QED BY <3>1, <3>2, Zenon DEF ParseCompressed, v, w
  <2>5. CASE v <= 180 * LatDivisor /\ w <= 360 * LonDivisor
    <3>a. /\ Hundredths(v, LatDivisor, LatFactor) \in 0 .. 180 * Degree
          /\ A = {Hundredths(v, LatDivisor, LatFactor)}
      <4>1. v \in Nat /\ v <= 180 * LatDivisor
        BY <2>2, <2>5, Zenon
      <4> QED BY <4>1, LatTurned, Zenon
    <3>b. /\ Hundredths(w, LonDivisor, LonFactor) \in 0 .. 360 * Degree
          /\ B = {Hundredths(w, LonDivisor, LonFactor)}
      <4>1. w \in Nat /\ w <= 360 * LonDivisor
        BY <2>2, <2>5, Zenon
      <4> QED BY <4>1, LonTurned, Zenon
    <3>1. /\ Hundredths(v, LatDivisor, LatFactor) \in 0 .. 180 * Degree
          /\ A = {Hundredths(v, LatDivisor, LatFactor)}
          /\ Hundredths(w, LonDivisor, LonFactor) \in 0 .. 360 * Degree
          /\ B = {Hundredths(w, LonDivisor, LonFactor)}
      BY <3>a, <3>b
    <3>2. /\ lat \in Int /\ lon \in Int
          /\ lat \in -90 * Degree .. 90 * Degree /\ lon \in -180 * Degree .. 180 * Degree
          /\ Hundredths(w, LonDivisor, LonFactor) - 180 * Degree = lon
      <4> DEFINE h == Hundredths(v, LatDivisor, LatFactor)
                 k == Hundredths(w, LonDivisor, LonFactor)
      <4>1. /\ h \in 0 .. 180 * Degree /\ k \in 0 .. 360 * Degree /\ Degree \in Nat
            /\ lat = 90 * Degree - h /\ lon = -180 * Degree + k
        <5>1. Degree \in Nat
          BY DEF Degree
        <5> QED BY <3>1, <5>1
      <4> HIDE DEF h, k, lat, lon
      <4>2. /\ lat \in Int /\ lon \in Int
            /\ lat \in -90 * Degree .. 90 * Degree /\ lon \in -180 * Degree .. 180 * Degree
            /\ k - 180 * Degree = lon
        BY <4>1
      <4> QED BY <4>2 DEF k
    <3>3. ParseCompressed(b) = {Point(lat, lon)}
      BY <2>4, <2>5, <3>2, Positioned
    <3>4. SaysCompressed(b).lat = {lat} /\ SaysCompressed(b).lon = {lon}
      BY <2>3, <3>1, <3>2
    <3>5. Point(lat, lon).lat = lat /\ Point(lat, lon).lon = lon
      BY DEF Point
    <3> HIDE DEF lat, lon
    <3>6. Nearest(lat, {lat}) /\ Nearest(lon, {lon})
      BY <3>2 DEF Nearest, Away, Signed
    <3> QED BY <3>3, <3>4, <3>5, <3>6 DEF Agree
  <2>6. CASE ~ (v <= 180 * LatDivisor /\ w <= 360 * LonDivisor)
    <3>1. A = {} \/ B = {}
      BY <2>2, <2>6, LatTurned, LonTurned
    <3>2. ParseCompressed(b) = {}
      BY <2>4, <2>6
    <3>3. SaysCompressed(b).lat = {} \/ SaysCompressed(b).lon = {}
      BY <2>3, <3>1
    <3> QED BY <3>2, <3>3 DEF Agree
  <2> QED BY <2>5, <2>6
<1> QED BY <1>1, <1>2

(* A character of a Mic-E destination.                                     *)
DigitRead(c) == CHOOSE d \in MicEDigit(c) : TRUE

LEMMA MicEDigits ==
  ASSUME NEW c \in Int
  PROVE  /\ MicEDigit(c) # {} => DigitRead(c) \in 0 .. 9
         /\ \A d \in 0 .. 9 :
              c \in {48 + d, 65 + d, 80 + d} \cup Blank <=>
                MicEDigit(c) # {} /\ (d = DigitRead(c) \/ c \in Blank)
         /\ c \in Blank => MicEDigit(c) # {} /\ DigitRead(c) = 0
<1>1. MicEDigit(c) = IF c \in 48 .. 57 THEN {c - 48}
                     ELSE IF c \in 65 .. 74 THEN {c - 65}
                     ELSE IF c \in 80 .. 89 THEN {c - 80}
                     ELSE IF c \in {75, 76, 90} THEN {0} ELSE {}
  BY DEF MicEDigit, Digits
<1>2. \A x : MicEDigit(c) = {x} => DigitRead(c) = x
  BY DEF DigitRead
<1>3. MicEDigit(c) # {} =>
        DigitRead(c) = IF c \in 48 .. 57 THEN c - 48
                       ELSE IF c \in 65 .. 74 THEN c - 65
                       ELSE IF c \in 80 .. 89 THEN c - 80 ELSE 0
  BY <1>1, <1>2
<1>4. CASE c \in 48 .. 57
  BY <1>1, <1>3, <1>4 DEF Blank
<1>5. CASE c \in 65 .. 74
  BY <1>1, <1>3, <1>5 DEF Blank
<1>6. CASE c \in 80 .. 89
  BY <1>1, <1>3, <1>6 DEF Blank
<1>7. CASE c \in {75, 76, 90}
  BY <1>1, <1>3, <1>7 DEF Blank
<1>8. CASE ~ (c \in 48 .. 57 \/ c \in 65 .. 74 \/ c \in 80 .. 89 \/ c \in {75, 76, 90})
  BY <1>1, <1>8 DEF Blank
<1> QED BY <1>4, <1>5, <1>6, <1>7, <1>8

(* Two of them.                                                            *)
LEMMA MicESpelled ==
  ASSUME NEW a \in Int, NEW b \in Int
  PROVE  /\ MicENumbers(<<a, b>>) \subseteq Nat
         /\ IF MicEDigit(a) # {} /\ MicEDigit(b) # {}
            THEN LeastOf(10 * DigitRead(a) + DigitRead(b), MicENumbers(<<a, b>>))
            ELSE MicENumbers(<<a, b>>) = {}
<1>1. \A n : n \in MicENumbers(<<a, b>>) <=>
        /\ n \in 0 .. 99
        /\ MicEDigit(a) # {} /\ (n \div 10 = DigitRead(a) \/ a \in Blank)
        /\ MicEDigit(b) # {} /\ (n % 10 = DigitRead(b) \/ b \in Blank)
  <2>1. <<a, b>>[1] = a /\ <<a, b>>[2] = b /\ Power[2] = 10 /\ Power[1] = 1
    BY DEF Power
  <2>2. \A n \in 0 .. 99 : /\ Digit(n, 2) = n \div 10 /\ Digit(n, 1) = n % 10
                           /\ n \div 10 \in 0 .. 9 /\ n % 10 \in 0 .. 9
    BY <2>1 DEF Digit
  <2>3. \A n : n \in MicENumbers(<<a, b>>) <=>
          /\ n \in 0 .. 99
          /\ a \in {48 + Digit(n, 2), 65 + Digit(n, 2), 80 + Digit(n, 2)} \cup Blank
          /\ b \in {48 + Digit(n, 1), 65 + Digit(n, 1), 80 + Digit(n, 1)} \cup Blank
    BY <2>1 DEF MicENumbers
  <2>4. /\ \A d \in 0 .. 9 : a \in {48 + d, 65 + d, 80 + d} \cup Blank <=>
             MicEDigit(a) # {} /\ (d = DigitRead(a) \/ a \in Blank)
        /\ \A d \in 0 .. 9 : b \in {48 + d, 65 + d, 80 + d} \cup Blank <=>
             MicEDigit(b) # {} /\ (d = DigitRead(b) \/ b \in Blank)
    BY MicEDigits
  <2> QED BY <2>2, <2>3, <2>4
<1>2. CASE MicEDigit(a) # {} /\ MicEDigit(b) # {}
  <2>1. /\ DigitRead(a) \in 0 .. 9 /\ DigitRead(b) \in 0 .. 9
        /\ a \in Blank => DigitRead(a) = 0
        /\ b \in Blank => DigitRead(b) = 0
    BY <1>2, MicEDigits
  <2>2. 10 * DigitRead(a) + DigitRead(b) \in MicENumbers(<<a, b>>)
    BY <1>1, <1>2, <2>1
  <2>3. \A n \in MicENumbers(<<a, b>>) : 10 * DigitRead(a) + DigitRead(b) <= n
    BY <1>1, <2>1
  <2> QED BY <1>1, <1>2, <2>2, <2>3 DEF LeastOf
<1>3. CASE ~ (MicEDigit(a) # {} /\ MicEDigit(b) # {})
  BY <1>1, <1>3
<1> QED BY <1>2, <1>3

(* The three bytes of a Mic-E longitude.                                   *)
LEMMA MicELonRead ==
  ASSUME NEW b, b[1] \in Int, b[2] \in Int, b[3] \in Int, NEW offset \in BOOLEAN
  PROVE  LET d == MicEDegrees(b[1], offset)
             m == MicEMinutes(b[2])
             h == b[3] - 28
         IN /\ d \in Int /\ m \in Int /\ h \in Int
            /\ MicELons(b, offset) =
                 IF d \in 0 .. 179 /\ m \in 0 .. 59 /\ h \in 0 .. 99
                 THEN {d * Degree + m * MinuteOf + h} ELSE {}
<1> DEFINE d == MicEDegrees(b[1], offset)
           m == MicEMinutes(b[2])
           h == b[3] - 28
           D == {e \in 0 .. 179 :
                   b[1] - 28 + (IF offset THEN 100 ELSE 0) \in
                     {e} \cup (IF e \in 0 .. 9 THEN {e + 190} ELSE {})
                         \cup (IF e \in 100 .. 109 THEN {e + 80} ELSE {})}
           M == {n \in 0 .. 59 : b[2] - 28 \in {n, n + 60}}
           H == {i \in 0 .. 99 : b[3] - 28 = i}
<1>1. d \in Int /\ m \in Int /\ h \in Int
  BY DEF MicEDegrees, MicEMinutes
<1>2. \A e : e \in D <=> e = d /\ d \in 0 .. 179
  <2>1. PICK x \in Int : x = b[1] - 28 + (IF offset THEN 100 ELSE 0)
    OBVIOUS
  <2>2. d = IF x \in 180 .. 189 THEN x - 80 ELSE IF x \in 190 .. 199 THEN x - 190 ELSE x
    BY <2>1 DEF MicEDegrees
  <2>3. \A e : e \in D <=> /\ e \in 0 .. 179
                           /\ \/ x = e
                              \/ e \in 0 .. 9 /\ x = e + 190
                              \/ e \in 100 .. 109 /\ x = e + 80
    BY <2>1
  <2> HIDE DEF d, D
  <2> QED BY <2>2, <2>3
<1>3. \A n : n \in M <=> n = m /\ m \in 0 .. 59
  BY DEF MicEMinutes
<1>4. \A i : i \in H <=> i = h /\ h \in 0 .. 99
  OBVIOUS
<1>5. \A x : x \in MicELons(b, offset) <=>
               \E e \in D, n \in M, i \in H : x = e * Degree + n * MinuteOf + i
  <2>1. MicELons(b, offset) = Angles(D, M, H)
    BY Zenon DEF MicELons
  <2> HIDE DEF D, M, H
  <2> QED BY <2>1 DEF Angles
<1> HIDE DEF d, m, h, D, M, H
<1>6. MicELons(b, offset) =
        IF d \in 0 .. 179 /\ m \in 0 .. 59 /\ h \in 0 .. 99
        THEN {d * Degree + m * MinuteOf + h} ELSE {}
  BY <1>2, <1>3, <1>4, <1>5
<1> QED BY <1>1, <1>6 DEF d, m, h
(* The first bytes of a packet that is long enough.                        *)
LEMMA FirstBytes ==
  ASSUME NEW Byte, NEW b \in Seq(Byte)
  PROVE  /\ Len(b) >= 6 => /\ b[1] \in Byte /\ b[2] \in Byte /\ b[3] \in Byte
                           /\ b[4] \in Byte /\ b[5] \in Byte /\ b[6] \in Byte
         /\ Len(b) >= 6 => \A i \in 1 .. 6 : b[i] \in Byte
<1> SUFFICES ASSUME Len(b) >= 6
             PROVE  /\ b[1] \in Byte /\ b[2] \in Byte /\ b[3] \in Byte
                    /\ b[4] \in Byte /\ b[5] \in Byte /\ b[6] \in Byte
  OBVIOUS
<1> QED OBVIOUS

(* A destination with six readable characters spells the latitude that     *)
(* parse_mic_e reads in it, with any other it spells none.                 *)
LEMMA MicELatitude ==
  ASSUME NEW dest \in Seq(Int), Len(dest) >= 6
  PROVE  LET A == Angles(MicENumbers(<<dest[1], dest[2]>>), MicENumbers(<<dest[3], dest[4]>>),
                         MicENumbers(<<dest[5], dest[6]>>))
             v == (10 * DigitRead(dest[1]) + DigitRead(dest[2])) * Degree
                    + (10 * DigitRead(dest[3]) + DigitRead(dest[4])) * MinuteOf
                    + (10 * DigitRead(dest[5]) + DigitRead(dest[6]))
         IN /\ A \subseteq Nat
            /\ IF \A i \in 1 .. 6 : MicEDigit(dest[i]) # {} THEN LeastOf(v, A) ELSE A = {}
<1> DEFINE D == MicENumbers(<<dest[1], dest[2]>>)
           M == MicENumbers(<<dest[3], dest[4]>>)
           H == MicENumbers(<<dest[5], dest[6]>>)
           d == 10 * DigitRead(dest[1]) + DigitRead(dest[2])
           m == 10 * DigitRead(dest[3]) + DigitRead(dest[4])
           h == 10 * DigitRead(dest[5]) + DigitRead(dest[6])
           Read(i) == MicEDigit(dest[i]) # {}
<1>1. /\ dest[1] \in Int /\ dest[2] \in Int /\ dest[3] \in Int
      /\ dest[4] \in Int /\ dest[5] \in Int /\ dest[6] \in Int
  BY FirstBytes, Zenon
<1>2. /\ D \subseteq Nat /\ IF Read(1) /\ Read(2) THEN LeastOf(d, D) ELSE D = {}
  BY <1>1, MicESpelled, Zenon
<1>3. /\ M \subseteq Nat /\ IF Read(3) /\ Read(4) THEN LeastOf(m, M) ELSE M = {}
  BY <1>1, MicESpelled, Zenon
<1>4. /\ H \subseteq Nat /\ IF Read(5) /\ Read(6) THEN LeastOf(h, H) ELSE H = {}
  BY <1>1, MicESpelled, Zenon
<1>5. (\A i \in 1 .. 6 : MicEDigit(dest[i]) # {})
        <=> Read(1) /\ Read(2) /\ Read(3) /\ Read(4) /\ Read(5) /\ Read(6)
  OBVIOUS
<1> HIDE DEF D, M, H, d, m, h, Read
<1>6. /\ Angles(D, M, H) \subseteq Nat
      /\ IF Read(1) /\ Read(2) /\ Read(3) /\ Read(4) /\ Read(5) /\ Read(6)
         THEN LeastOf(d * Degree + m * MinuteOf + h, Angles(D, M, H)) ELSE Angles(D, M, H) = {}
  BY <1>2, <1>3, <1>4, AnglesLeast
<1> QED BY <1>5, <1>6, Zenon DEF D, M, H, d, m, h

(* An angle that is on the earth is the only one that its bytes say.       *)
LEMMA OneWithin ==
  ASSUME NEW w \in Nat, NEW limit \in Nat, w <= limit * Degree, NEW positive \in BOOLEAN
  PROVE  {Signed(positive, n) : n \in {w}} = Within(positive, {w}, limit)
<1> DEFINE bound == limit * Degree
<1>1. bound \in Nat /\ -limit * Degree = -bound /\ w <= bound
  BY DEF Degree
<1> HIDE DEF bound
<1>2. Signed(positive, w) \in -bound .. bound
  BY <1>1 DEF Signed
<1>3. {Signed(positive, n) : n \in {w}} = {Signed(positive, w)}
  OBVIOUS
<1>4. Within(positive, {w}, limit) =
        {a \in {Signed(positive, n) : n \in {w}} : a \in -bound .. bound}
  BY <1>1, Zenon DEF Within, bound
<1> QED BY <1>2, <1>3, <1>4, Zenon

(* parse_mic_e reads what the destination and the first bytes say.         *)
LEMMA MicEAgrees ==
  ASSUME NEW dest \in Seq(Int), NEW b \in Seq(Int)
  PROVE  Agree(ParseMicE(dest, b), SaysMicE(dest, b))
<1> DEFINE readable == \A i \in 1 .. 6 : MicEDigit(dest[i]) # {}
           digit == [i \in 1 .. 6 |-> CHOOSE d \in MicEDigit(dest[i]) : TRUE]
           degrees == MicEDegrees(b[1], Custom(dest[5]))
           minutes == MicEMinutes(b[2])
           hundredths == b[3] - 28
           ranged == degrees \in 0 .. 179 /\ minutes \in 0 .. 59 /\ hundredths \in 0 .. 99
           lat == (10 * digit[1] + digit[2]) * Degree + (10 * digit[3] + digit[4]) * MinuteOf
                    + 10 * digit[5] + digit[6]
           v == (10 * DigitRead(dest[1]) + DigitRead(dest[2])) * Degree
                  + (10 * DigitRead(dest[3]) + DigitRead(dest[4])) * MinuteOf
                  + (10 * DigitRead(dest[5]) + DigitRead(dest[6]))
           w == degrees * Degree + minutes * MinuteOf + hundredths
           A == Angles(MicENumbers(<<dest[1], dest[2]>>), MicENumbers(<<dest[3], dest[4]>>),
                       MicENumbers(<<dest[5], dest[6]>>))
           L == MicELons(b, Custom(dest[5]))
           north == Custom(dest[4])
           east == ~ Custom(dest[6])
           places == ParseMicE(dest, b)
           said == SaysMicE(dest, b)
<1>1. CASE Len(dest) < 6 \/ Len(b) < 8 \/ b[8] \notin ValidTables
  <2>1. places = {}
    BY <1>1, Zenon DEF ParseMicE
  <2>2. said.lat = {}
    BY <1>1 DEF SaysMicE, Nothing
  <2> QED BY <2>1, <2>2 DEF Agree
<1>2. CASE ~ (Len(dest) < 6 \/ Len(b) < 8 \/ b[8] \notin ValidTables)
  <2>1. /\ Len(dest) >= 6 /\ Len(b) >= 8 /\ Len(b) \in Nat
        /\ b[1] \in Int /\ b[2] \in Int /\ b[3] \in Int
    <3>1. Len(dest) \in Nat /\ Len(b) \in Nat /\ Len(dest) >= 6 /\ Len(b) >= 8
      BY <1>2
    <3>2. Len(b) >= 6
      BY <3>1
    <3> QED BY <3>1, <3>2, FirstBytes, Zenon
  <2>2. /\ said.lat = Within(north, A, 90)
        /\ said.lon = {Signed(east, n) : n \in L}
    <3>1. said = [lat |-> Within(dest[4] \in 80 .. 90, A, 90),
                  lon |-> {Signed(dest[6] \notin 80 .. 90, n) :
                             n \in MicELons(b, dest[5] \in 80 .. 90)}]
      BY <1>2, Zenon DEF SaysMicE
    <3>2. /\ said.lat = Within(dest[4] \in 80 .. 90, A, 90)
          /\ said.lon = {Signed(dest[6] \notin 80 .. 90, n) :
                           n \in MicELons(b, dest[5] \in 80 .. 90)}
      <4> HIDE DEF said, A
      <4> QED BY <3>1, Zenon
    <3> QED BY <3>2, Zenon DEF Custom
  <2>3. places = IF ~ readable THEN {}
                 ELSE {p \in Position(Signed(north, lat), Signed(east, w)) : ranged}
    BY <1>2, Zenon DEF ParseMicE
  <2>4. /\ A \subseteq Nat /\ IF readable THEN LeastOf(v, A) ELSE A = {}
    BY <2>1, MicELatitude, Zenon
  <2>5. readable => lat = v
    <3> SUFFICES ASSUME readable PROVE lat = v
      OBVIOUS
    <3>1. \A i \in 1 .. 6 : digit[i] = DigitRead(dest[i])
      BY Zenon DEF DigitRead
    <3>2. \A i \in 1 .. 6 : dest[i] \in Int
      BY <2>1, FirstBytes, Zenon
    <3>3. \A i \in 1 .. 6 : DigitRead(dest[i]) \in 0 .. 9
      BY <3>2, MicEDigits, Zenon
    <3> HIDE DEF digit
    <3>4. /\ digit[1] = DigitRead(dest[1]) /\ digit[2] = DigitRead(dest[2])
          /\ digit[3] = DigitRead(dest[3]) /\ digit[4] = DigitRead(dest[4])
          /\ digit[5] = DigitRead(dest[5]) /\ digit[6] = DigitRead(dest[6])
      BY <3>1
    <3>5. /\ DigitRead(dest[1]) \in Int /\ DigitRead(dest[2]) \in Int
          /\ DigitRead(dest[3]) \in Int /\ DigitRead(dest[4]) \in Int
          /\ DigitRead(dest[5]) \in Int /\ DigitRead(dest[6]) \in Int
      <4>1. \A d \in 0 .. 9 : d \in Int
        OBVIOUS
      <4>2. \A i \in 1 .. 6 : DigitRead(dest[i]) \in Int
        BY <3>3, <4>1, Zenon
      <4> QED BY <4>2
    <3>6. (10 * DigitRead(dest[1]) + DigitRead(dest[2])) * Degree
            + (10 * DigitRead(dest[3]) + DigitRead(dest[4])) * MinuteOf \in Int
      <4>1. \A x, y, z, t \in Int : (10 * x + y) * Degree + (10 * z + t) * MinuteOf \in Int
        BY DEF Degree, MinuteOf
      <4> QED BY <3>5, <4>1, Zenon
    <3>7. \A x, y, z \in Int : x + 10 * y + z = x + (10 * y + z)
      OBVIOUS
    <3> DEFINE whole == (10 * DigitRead(dest[1]) + DigitRead(dest[2])) * Degree
                          + (10 * DigitRead(dest[3]) + DigitRead(dest[4])) * MinuteOf
    <3>8. lat = whole + 10 * DigitRead(dest[5]) + DigitRead(dest[6])
      BY <3>4, Zenon
    <3>9. v = whole + (10 * DigitRead(dest[5]) + DigitRead(dest[6])) /\ whole \in Int
      BY <3>6, Zenon
    <3> HIDE DEF whole, lat, v
    <3>10. DigitRead(dest[5]) \in Int /\ DigitRead(dest[6]) \in Int
      BY <3>5
    <3> QED BY <3>7, <3>8, <3>9, <3>10, Zenon
  <2>6. /\ north \in BOOLEAN /\ east \in BOOLEAN /\ Custom(dest[5]) \in BOOLEAN
    BY DEF Custom
  <2>7. L = IF ranged THEN {w} ELSE {}
    BY <2>1, <2>6, MicELonRead, Zenon
  <2>8. ranged => w \in Nat /\ w <= 180 * Degree
    <3> HIDE DEF degrees, minutes, hundredths
    <3> QED BY DEF Degree, MinuteOf
  <2> HIDE DEF readable, digit, ranged, lat, v, w, A, L, north, east, places, said
  <2>9. CASE readable /\ ranged
    <3>1. places = Position(Signed(north, v), Signed(east, w))
      BY <2>3, <2>5, <2>9
    <3>2. /\ {w} \subseteq Nat /\ LeastOf(w, {w})
      BY <2>8, <2>9 DEF LeastOf
    <3>3. said.lon = Within(east, {w}, 180)
      <4> DEFINE Upto(limit) == {Signed(east, n) : n \in {w}} = Within(east, {w}, limit)
      <4>1. \A limit \in Nat : w <= limit * Degree => Upto(limit)
        <5>1. w \in Nat /\ east \in BOOLEAN
          BY <2>6, <2>8, <2>9
        <5> QED BY <5>1, OneWithin, Zenon
      <4> HIDE DEF Upto
      <4>2. Upto(180)
        BY <2>8, <2>9, <4>1
      <4> QED BY <2>2, <2>7, <2>9, <4>2, Zenon DEF Upto
    <3>4. LeastOf(v, A) /\ A \subseteq Nat
      BY <2>4, <2>9
    <3>5. Agree(Position(Signed(north, v), Signed(east, w)), said)
      <4> DEFINE B == {w}
      <4>1. Spoken(said, A, v, north, B, w, east)
        BY <2>2, <2>6, <3>2, <3>3, <3>4, Zenon DEF Spoken
      <4> HIDE DEF B
      <4> QED BY <4>1, BothAgree, Zenon
    <3> QED BY <3>1, <3>5 DEF places, said
  <2>10. CASE ~ readable
    <3>1. places = {} /\ A = {}
      BY <2>3, <2>4, <2>10
    <3>2. said.lat = {}
      BY <2>2, <3>1 DEF Within
    <3>3. Agree(places, said)
      BY <3>1, <3>2 DEF Agree
    <3> QED BY <3>3 DEF places, said
  <2>11. CASE ~ ranged
    <3>1. places = {} /\ L = {}
      BY <2>3, <2>7, <2>11
    <3>2. said.lon = {}
      BY <2>2, <3>1
    <3>3. Agree(places, said)
      BY <3>1, <3>2 DEF Agree
    <3> QED BY <3>3 DEF places, said
  <2> QED BY <2>9, <2>10, <2>11
<1> QED BY <1>1, <1>2

(* What is behind the first bytes: nothing, or the rest of them.           *)
LEMMA BehindIs ==
  ASSUME NEW Byte, NEW b \in Seq(Byte), NEW n \in Nat \ {0}
  PROVE  /\ Behind(b, n) \in Seq(Byte)
         /\ Len(Behind(b, n)) = IF n <= Len(b) THEN Len(b) - n + 1 ELSE 0
         /\ \A k \in 1 .. Len(Behind(b, n)) : Behind(b, n)[k] = b[k + n - 1]
BY DEF Behind

(* The rest of the rest.                                                   *)
LEMMA BehindBehind ==
  ASSUME NEW Byte, NEW b \in Seq(Byte), NEW n \in Nat \ {0}, NEW m \in Nat \ {0}
  PROVE  Behind(Behind(b, n), m) = Behind(b, n + m - 1)
<1> DEFINE x == Behind(Behind(b, n), m)
           y == Behind(b, n + m - 1)
<1>1. n + m - 1 \in Nat \ {0} /\ Len(b) \in Nat
  OBVIOUS
<1>2. /\ Behind(b, n) \in Seq(Byte)
      /\ Len(Behind(b, n)) = IF n <= Len(b) THEN Len(b) - n + 1 ELSE 0
      /\ \A k \in 1 .. Len(Behind(b, n)) : Behind(b, n)[k] = b[k + n - 1]
  BY BehindIs
<1>3. /\ x \in Seq(Byte)
      /\ Len(x) = IF m <= Len(Behind(b, n)) THEN Len(Behind(b, n)) - m + 1 ELSE 0
      /\ \A k \in 1 .. Len(x) : x[k] = Behind(b, n)[k + m - 1]
  BY <1>2, BehindIs, Zenon
<1>4. /\ y \in Seq(Byte)
      /\ Len(y) = IF n + m - 1 <= Len(b) THEN Len(b) - (n + m - 1) + 1 ELSE 0
      /\ \A k \in 1 .. Len(y) : y[k] = b[k + (n + m - 1) - 1]
  BY <1>1, BehindIs, Zenon
<1> DEFINE L == Len(Behind(b, n))
<1>a. L \in Nat
  BY <1>2
<1> HIDE DEF x, y, L
<1>5. Len(x) = Len(y) /\ Len(x) \in Nat
  BY <1>1, <1>2, <1>3, <1>4
<1>6. ASSUME NEW k \in 1 .. Len(x) PROVE x[k] = y[k]
  <2>1. k + m - 1 \in 1 .. Len(Behind(b, n))
    <3>1. Len(x) = (IF m <= L THEN L - m + 1 ELSE 0)
      BY <1>3, Zenon DEF L
    <3>2. k + m - 1 \in 1 .. L
      BY <1>a, <3>1
    <3> QED BY <3>2 DEF L
  <2>2. x[k] = b[(k + m - 1) + n - 1]
    BY <1>2, <1>3, <2>1, Zenon
  <2>3. y[k] = b[k + (n + m - 1) - 1]
    BY <1>4, <1>5
  <2>4. (k + m - 1) + n - 1 = k + (n + m - 1) - 1
    BY <1>5
  <2> QED BY <2>2, <2>3, <2>4
<1>7. x = y
  BY <1>3, <1>4, <1>5, <1>6, SeqEqual
<1> QED BY <1>7 DEF x, y

(* Nothing is read in nothing.                                             *)
LEMMA NoData ==
  ASSUME NEW b, Len(b) = 0
  PROVE  ApplyPosition(b) = {}
<1>1. ParseUncompressed(b) = {} /\ ParseCompressed(b) = {}
  BY DEF ParseUncompressed, ParseCompressed
<1> QED BY <1>1 DEF ApplyPosition

(* One position in a report, read both ways.                               *)
LEMMA ReadAsSaid ==
  ASSUME NEW b \in Seq(Int), Len(b) >= 1, b[1] \in Digits => ParseUncompressed(b) # {}
  PROVE  LET said == {s \in {SaysUncompressed(b), SaysCompressed(b)} : s.lat # {} /\ s.lon # {}}
         IN IF said = {} THEN ApplyPosition(b) = {}
            ELSE \E s \in said, p \in ApplyPosition(b) :
                   /\ ApplyPosition(b) = {p}
                   /\ Nearest(p.lat, s.lat) /\ Nearest(p.lon, s.lon)
<1> DEFINE U == ParseUncompressed(b)
           C == ParseCompressed(b)
           su == SaysUncompressed(b)
           sc == SaysCompressed(b)
           said == {s \in {su, sc} : s.lat # {} /\ s.lon # {}}
           places == ApplyPosition(b)
<1>1. Agree(U, su)
  BY UncompressedAgrees, Zenon
<1>2. b[1] \notin Digits => Agree(C, sc)
  BY CompressedAgrees, Zenon
<1>3. places = IF U # {} THEN U ELSE C
  BY Zenon DEF ApplyPosition
<1> HIDE DEF U, C, su, sc, places
<1>4. CASE su.lat = {} \/ su.lon = {}
  <2>1. U = {}
    BY <1>1, <1>4, Zenon DEF Agree
  <2>2. Agree(places, sc)
    BY <1>2, <1>3, <2>1, Zenon DEF U
  <2>3. CASE sc.lat = {} \/ sc.lon = {}
    <3>1. said = {} /\ places = {}
      BY <1>4, <2>2, <2>3, Zenon DEF Agree
    <3> QED BY <3>1, Zenon DEF su, sc, places
  <2>4. CASE ~ (sc.lat = {} \/ sc.lon = {})
    <3>1. sc \in said
      BY <2>4, Zenon
    <3>2. PICK p \in places : /\ places = {p}
                              /\ Nearest(p.lat, sc.lat) /\ Nearest(p.lon, sc.lon)
      BY <2>2, <2>4, Zenon DEF Agree
    <3> QED BY <3>1, <3>2, Zenon DEF su, sc, places
  <2> QED BY <2>3, <2>4
<1>5. CASE ~ (su.lat = {} \/ su.lon = {})
  <2>1. su \in said
    BY <1>5, Zenon
  <2>2. PICK p \in U : /\ U = {p}
                       /\ Nearest(p.lat, su.lat) /\ Nearest(p.lon, su.lon)
    BY <1>1, <1>5, Zenon DEF Agree
  <2>3. places = U
    BY <1>3, <2>2, Zenon
  <2> QED BY <2>1, <2>2, <2>3, Zenon DEF su, sc, places
<1> QED BY <1>4, <1>5

(* A digit in front is no compressed position.                             *)
LEMMA DigitFirst ==
  ASSUME NEW b \in Seq(Int), b[1] \in Digits, ParseUncompressed(b) = {}
  PROVE  {s \in {SaysUncompressed(b), SaysCompressed(b)} : s.lat # {} /\ s.lon # {}} = {}
<1>1. SaysUncompressed(b).lat = {} \/ SaysUncompressed(b).lon = {}
  <2>1. Agree({}, SaysUncompressed(b))
    BY UncompressedAgrees, Zenon
  <2> QED BY <2>1, Zenon DEF Agree
<1>2. SaysCompressed(b).lat = {}
  BY DEF SaysCompressed, FormedCompressed, Nothing
<1> QED BY <1>1, <1>2, Zenon

(* Where a report has its position, as its type has it: nowhere, or in one *)
(* place, which is also where the parsers look.                            *)
OneData(payload, places) ==
  \/ PositionAt(payload) = {} /\ places = {}
  \/ \E i \in 2 .. Len(payload) :
       PositionAt(payload) = {i} /\ places = ApplyPosition(Behind(payload, i))

(* A position that begins at a fixed byte.                                 *)
LEMMA FixedData ==
  ASSUME NEW Byte, NEW payload \in Seq(Byte), NEW n \in Nat, n >= 2,
         PositionAt(payload) = {i \in 2 .. Len(payload) : i = n}
  PROVE  OneData(payload, ApplyPosition(Behind(payload, n)))
<1>1. Len(payload) \in Nat
  OBVIOUS
<1>2. CASE n <= Len(payload)
  <2>1. n \in 2 .. Len(payload) /\ PositionAt(payload) = {n}
    BY <1>1, <1>2
  <2> QED BY <2>1, Zenon DEF OneData
<1>3. CASE ~ (n <= Len(payload))
  <2>1. PositionAt(payload) = {}
    BY <1>1, <1>3
  <2>2. Len(Behind(payload, n)) = 0
    BY <1>3, BehindIs
  <2> QED BY <2>1, <2>2, NoData, Zenon DEF OneData
<1> QED BY <1>2, <1>3

(* The position of an item is behind the first character that ends its     *)
(* name.                                                                   *)
LEMMA ItemAt ==
  ASSUME NEW Byte, NEW payload \in Seq(Byte), payload # <<>>, payload[1] = 41
  PROVE  OneData(payload, ApplyPosition(ItemData(Behind(payload, 2))))
<1> DEFINE rest == Behind(payload, 2)
           ends == {i \in DOMAIN rest : rest[i] \in {33, 95}}
           first == CHOOSE i \in ends : \A j \in ends : i <= j
           places == ApplyPosition(ItemData(rest))
<1>1. /\ rest \in Seq(Byte) /\ Len(payload) \in Nat /\ Len(payload) >= 1
      /\ Len(rest) = Len(payload) - 1
      /\ \A k \in 1 .. Len(rest) : rest[k] = payload[k + 1]
  <2>1. /\ rest \in Seq(Byte)
        /\ Len(rest) = IF 2 <= Len(payload) THEN Len(payload) - 2 + 1 ELSE 0
        /\ \A k \in 1 .. Len(rest) : rest[k] = payload[k + 2 - 1]
    BY BehindIs
  <2>2. Len(payload) \in Nat /\ Len(payload) >= 1
    OBVIOUS
  <2> HIDE DEF rest
  <2> QED BY <2>1, <2>2
<1>2. \A i : i \in PositionAt(payload) <=>
               /\ i \in 2 .. Len(payload) /\ i \in 6 .. 12 /\ payload[i - 1] \in {33, 95}
               /\ \A j \in 2 .. i - 2 : payload[j] \notin {33, 95}
  BY DEF PositionAt
<1>3. ItemData(rest) = IF ends # {} /\ first - 1 \in 3 .. 9 THEN Behind(rest, first + 1) ELSE <<>>
  BY Zenon DEF ItemData
<1> HIDE DEF rest
<1>4. \A i : i \in ends <=> i \in 1 .. Len(rest) /\ rest[i] \in {33, 95}
  BY <1>1
<1> HIDE DEF ends
<1>5. CASE ends = {}
  <2>1. ASSUME NEW i \in PositionAt(payload) PROVE FALSE
    <3>1. i - 2 \in 1 .. Len(rest) /\ rest[i - 2] = payload[i - 1] /\ payload[i - 1] \in {33, 95}
      BY <1>1, <1>2, <2>1
    <3> QED BY <1>4, <1>5, <3>1
  <2>2. ItemData(rest) = <<>>
    BY <1>3, <1>5, Zenon
  <2>3. places = {}
    BY <2>2, NoData
  <2> QED BY <2>1, <2>3, Zenon DEF OneData, rest
<1>6. CASE ends # {}
  <2>1. first \in ends /\ \A j \in ends : first <= j
    <3>1. ends \subseteq Nat
      BY <1>1, <1>4
    <3>2. \E i \in ends : \A j \in ends : i <= j
      BY <1>6, <3>1, Smallest
    <3> QED BY <3>2, Zenon
  <2> HIDE DEF first
  <2>2. /\ first \in 1 .. Len(rest) /\ rest[first] \in {33, 95}
        /\ rest[first] = payload[first + 1]
    BY <1>1, <1>4, <2>1
  <2>3. ASSUME NEW i \in PositionAt(payload) PROVE i = first + 2
    <3>1. /\ i \in Nat /\ i - 2 \in 1 .. Len(rest) /\ rest[i - 2] = payload[i - 1]
          /\ payload[i - 1] \in {33, 95} /\ \A j \in 2 .. i - 2 : payload[j] \notin {33, 95}
      BY <1>1, <1>2, <2>3
    <3>2. first <= i - 2
      BY <1>4, <2>1, <3>1
    <3>3. ~ (first < i - 2)
      <4> SUFFICES ASSUME first < i - 2 PROVE FALSE
        OBVIOUS
      <4>1. first + 1 \in 2 .. i - 2
        BY <1>1, <2>2, <3>1
      <4> QED BY <2>2, <3>1, <4>1
    <3> QED BY <1>1, <2>2, <3>1, <3>2, <3>3
  <2>4. CASE first - 1 \in 3 .. 9
    <3>1. first + 2 \in 2 .. Len(payload) => first + 2 \in PositionAt(payload)
      <4> SUFFICES ASSUME first + 2 \in 2 .. Len(payload) PROVE first + 2 \in PositionAt(payload)
        OBVIOUS
      <4>1. ASSUME NEW j \in 2 .. first PROVE payload[j] \notin {33, 95}
        <5>1. j - 1 \in 1 .. Len(rest) /\ rest[j - 1] = payload[j] /\ ~ (first <= j - 1)
          BY <1>1, <2>2, <4>1
        <5> QED BY <1>4, <2>1, <5>1
      <4>2. first \in Nat /\ (first + 2) - 1 = first + 1 /\ (first + 2) - 2 = first
            /\ first + 2 \in 6 .. 12
        BY <1>1, <2>2, <2>4
      <4> QED BY <1>2, <2>2, <4>1, <4>2
    <3>2. PositionAt(payload) = {i \in 2 .. Len(payload) : i = first + 2}
      BY <1>2, <2>3, <3>1
    <3>3. first + 2 \in Nat /\ first + 2 >= 2 /\ first + 1 \in Nat \ {0} /\ 2 \in Nat \ {0}
          /\ 2 + (first + 1) - 1 = first + 2
      BY <1>1, <2>2
    <3>4. ItemData(rest) = Behind(payload, first + 2)
      <4>1. Behind(rest, first + 1) = Behind(payload, 2 + (first + 1) - 1)
        BY <3>3, BehindBehind, Zenon DEF rest
      <4> QED BY <1>3, <1>6, <2>4, <3>3, <4>1, Zenon
    <3>5. OneData(payload, ApplyPosition(Behind(payload, first + 2)))
      BY <3>2, <3>3, FixedData, Zenon
    <3> QED BY <3>4, <3>5, Zenon DEF rest
  <2>5. CASE ~ (first - 1 \in 3 .. 9)
    <3>1. ASSUME NEW i \in PositionAt(payload) PROVE FALSE
      <4>1. i = first + 2 /\ i \in 6 .. 12
        BY <1>2, <2>3, Zenon
      <4>2. first \in Nat
        BY <1>1, <2>2
      <4> QED BY <2>5, <4>1, <4>2
    <3>2. ItemData(rest) = <<>>
      BY <1>3, <2>5, Zenon
    <3>3. places = {}
      BY <3>2, NoData
    <3> QED BY <3>1, <3>3, Zenon DEF OneData, rest
  <2> QED BY <2>4, <2>5
<1> QED BY <1>5, <1>6

(* aprs::parse looks where the type of the report has its position.        *)
LEMMA PlacesAt ==
  ASSUME NEW Byte, NEW payload \in Seq(Byte), payload # <<>>, NEW dest,
         payload[1] \notin {96, 39, 28, 29}
  PROVE  OneData(payload, Placed(dest, payload))
<1> DEFINE Fixed(n) == OneData(payload, ApplyPosition(Behind(payload, n)))
<1>0. \A n \in Nat : n >= 2 /\ PositionAt(payload) = {i \in 2 .. Len(payload) : i = n} => Fixed(n)
  BY FixedData, Zenon
<1> HIDE DEF Fixed
<1>1. CASE payload[1] \in {33, 61}
  <2>1. Placed(dest, payload) = ApplyPosition(Behind(payload, 2))
    BY <1>1 DEF Placed
  <2>2. PositionAt(payload) = {i \in 2 .. Len(payload) : i = 2}
    BY <1>1 DEF PositionAt
  <2>3. Fixed(2)
    BY <1>0, <2>2
  <2> QED BY <2>1, <2>3, Zenon DEF Fixed
<1>2. CASE payload[1] \in {47, 64}
  <2>1. Placed(dest, payload) = ApplyPosition(Behind(payload, 9))
    BY <1>2 DEF Placed
  <2>2. PositionAt(payload) = {i \in 2 .. Len(payload) : i = 9}
    BY <1>2 DEF PositionAt
  <2>3. Fixed(9)
    BY <1>0, <2>2
  <2> QED BY <2>1, <2>3, Zenon DEF Fixed
<1>3. CASE payload[1] = 59
  <2>1. Placed(dest, payload) = ApplyPosition(Behind(payload, 19))
    BY <1>3 DEF Placed
  <2>2. PositionAt(payload) = {i \in 2 .. Len(payload) : i = 19}
    BY <1>3 DEF PositionAt
  <2>3. Fixed(19)
    BY <1>0, <2>2
  <2> QED BY <2>1, <2>3, Zenon DEF Fixed
<1>4. CASE payload[1] = 41
  <2>1. Placed(dest, payload) = ApplyPosition(ItemData(Behind(payload, 2)))
    <3>1. payload[1] \notin {33, 61} /\ payload[1] \notin {47, 64} /\ payload[1] # 59
      BY <1>4
    <3> QED BY <1>4, <3>1, Zenon DEF Placed
  <2>2. OneData(payload, ApplyPosition(ItemData(Behind(payload, 2))))
    BY <1>4, ItemAt
  <2> QED BY <2>1, <2>2, Zenon
<1>5. CASE payload[1] \notin {33, 61, 47, 64, 59, 41}
  <2>1. Placed(dest, payload) = {}
    BY <1>5 DEF Placed
  <2>2. PositionAt(payload) = {}
    BY <1>5 DEF PositionAt
  <2> QED BY <2>1, <2>2, Zenon DEF OneData
<1> QED BY <1>1, <1>2, <1>3, <1>4, <1>5

(* aprs::parse, of any destination and any information field: where it     *)
(* puts the station is where the report says, and it puts it nowhere when  *)
(* the report says nothing, unless that starts with a digit.               *)
LEMMA PlacesAsSaid ==
  ASSUME NEW dest \in Seq(Int), NEW payload \in Seq(Int)
  PROVE  IF Said(dest, payload) = {}
         THEN \/ Placed(dest, payload) = {}
              \/ \E i \in PositionAt(payload) :
                   payload[i] \in Digits /\ ParseUncompressed(Behind(payload, i)) = {}
         ELSE \E means \in Said(dest, payload), p \in Placed(dest, payload) :
                /\ Placed(dest, payload) = {p}
                /\ Nearest(p.lat, means.lat) /\ Nearest(p.lon, means.lon)
<1> DEFINE said == Said(dest, payload)
           places == Placed(dest, payload)
           mic == payload # <<>> /\ payload[1] \in {96, 39, 28, 29}
           At(i) == {SaysUncompressed(Behind(payload, i)), SaysCompressed(Behind(payload, i))}
<1>1. \A s : s \in said <=>
        /\ s.lat # {} /\ s.lon # {}
        /\ \/ \E i \in PositionAt(payload) : s \in At(i)
           \/ mic /\ s = SaysMicE(dest, Behind(payload, 2))
  <2> DEFINE read == Readings(dest, payload)
             x == SaysMicE(dest, Behind(payload, 2))
             all == UNION {At(i) : i \in PositionAt(payload)}
  <2>1. read = all \cup (IF mic THEN {x} ELSE {})
    BY Zenon DEF Readings
  <2>2. \A s : s \in all <=> \E i \in PositionAt(payload) : s \in At(i)
    BY Zenon
  <2>3. \A s : s \in said <=> s \in read /\ s.lat # {} /\ s.lon # {}
    BY Zenon DEF Said
  <2> HIDE DEF read, all, mic, x, said, At
  <2>4. \A s : s \in read <=> s \in all \/ (mic /\ s = x)
    BY <2>1
  <2> QED BY <2>2, <2>3, <2>4, Zenon DEF x
<1> HIDE DEF said
<1>2. CASE payload = <<>>
  <2>1. places = {} /\ PositionAt(payload) = {} /\ ~ mic
    <3>1. Len(payload) = 0
      BY <1>2
    <3>2. PositionAt(payload) = {}
      BY <3>1 DEF PositionAt
    <3>3. places = {} /\ ~ mic
      BY <1>2, Zenon DEF Placed
    <3> QED BY <3>2, <3>3
  <2>2. said = {}
    BY <1>1, <2>1, Zenon
  <2> QED BY <2>1, <2>2, Zenon DEF said
<1>3. CASE mic
  <2>1. PositionAt(payload) = {}
    <3>1. payload[1] \notin {33, 61, 47, 64, 59, 41}
      BY <1>3
    <3>2. PositionAt(payload) = {i \in 2 .. Len(payload) : FALSE}
      BY <3>1 DEF PositionAt
    <3> QED BY <3>2
  <2>2. places = ParseMicE(dest, Behind(payload, 2))
    <3>1. /\ payload # <<>> /\ payload[1] \in {96, 39, 28, 29}
          /\ payload[1] \notin {33, 61} /\ payload[1] \notin {47, 64} /\ payload[1] # 59
          /\ payload[1] # 41
      BY <1>3
    <3> QED BY <3>1, Zenon DEF Placed
  <2>3. Agree(places, SaysMicE(dest, Behind(payload, 2)))
    <3>1. 2 \in Nat \ {0}
      OBVIOUS
    <3>2. Behind(payload, 2) \in Seq(Int)
      BY <3>1, BehindIs, Zenon
    <3> QED BY <2>2, <3>2, MicEAgrees, Zenon
  <2> DEFINE s == SaysMicE(dest, Behind(payload, 2))
  <2> HIDE DEF places, s, mic
  <2>4. \A t : t \in said <=> t.lat # {} /\ t.lon # {} /\ t = s
    BY <1>1, <1>3, <2>1, Zenon DEF s
  <2>5. CASE s.lat = {} \/ s.lon = {}
    <3>1. said = {} /\ places = {}
      BY <2>3, <2>4, <2>5, Zenon DEF Agree, s
    <3> QED BY <3>1, Zenon DEF said, places
  <2>6. CASE ~ (s.lat = {} \/ s.lon = {})
    <3>1. s \in said
      BY <2>4, <2>6, Zenon
    <3>2. PICK p \in places : places = {p} /\ Nearest(p.lat, s.lat) /\ Nearest(p.lon, s.lon)
      BY <2>3, <2>6, Zenon DEF Agree, s
    <3> QED BY <3>1, <3>2, Zenon DEF said, places
  <2> QED BY <2>5, <2>6
<1>4. CASE payload # <<>> /\ ~ mic
  <2>1. OneData(payload, places)
    BY <1>4, PlacesAt, Zenon
  <2>2. CASE PositionAt(payload) = {} /\ places = {}
    <3>1. said = {}
      BY <1>1, <1>4, <2>2, Zenon
    <3> QED BY <2>2, <3>1, Zenon DEF said
  <2>3. ASSUME NEW i \in 2 .. Len(payload), PositionAt(payload) = {i},
               places = ApplyPosition(Behind(payload, i))
        PROVE  IF said = {}
               THEN \/ places = {}
                    \/ \E j \in PositionAt(payload) :
                         payload[j] \in Digits /\ ParseUncompressed(Behind(payload, j)) = {}
               ELSE \E means \in said, p \in places :
                      /\ places = {p}
                      /\ Nearest(p.lat, means.lat) /\ Nearest(p.lon, means.lon)
    <3> DEFINE b == Behind(payload, i)
               found == {s \in {SaysUncompressed(b), SaysCompressed(b)} : s.lat # {} /\ s.lon # {}}
    <3>1. b \in Seq(Int) /\ Len(b) >= 1 /\ b[1] = payload[i]
      <4>1. i \in Nat \ {0} /\ i <= Len(payload) /\ Len(payload) \in Nat
        OBVIOUS
      <4>2. /\ b \in Seq(Int)
            /\ Len(b) = IF i <= Len(payload) THEN Len(payload) - i + 1 ELSE 0
            /\ \A k \in 1 .. Len(b) : b[k] = payload[k + i - 1]
        BY <4>1, BehindIs, Zenon
      <4> HIDE DEF b
      <4>3. Len(b) >= 1 /\ 1 \in 1 .. Len(b) /\ 1 + i - 1 = i
        BY <4>1, <4>2
      <4> QED BY <4>2, <4>3, Zenon
    <3>2. said = found
      <4>1. \A s : s \in said <=> s \in found
        BY <1>1, <1>4, <2>3, Zenon
      <4> HIDE DEF found
      <4> QED BY <4>1, Zenon
    <3>3. CASE b[1] \in Digits /\ ParseUncompressed(b) = {}
      <4>1. said = {}
        BY <3>1, <3>2, <3>3, DigitFirst, Zenon
      <4> QED BY <2>3, <3>1, <3>3, <4>1, Zenon
    <3>4. CASE ~ (b[1] \in Digits /\ ParseUncompressed(b) = {})
      <4>1. IF found = {} THEN ApplyPosition(b) = {}
            ELSE \E s \in found, p \in ApplyPosition(b) :
                   /\ ApplyPosition(b) = {p}
                   /\ Nearest(p.lat, s.lat) /\ Nearest(p.lon, s.lon)
        BY <3>1, <3>4, ReadAsSaid, Zenon
      <4> HIDE DEF found
      <4> QED BY <2>3, <3>2, <4>1, Zenon
    <3> QED BY <3>3, <3>4
  <2> QED BY <2>1, <2>2, <2>3, Zenon DEF OneData, said
<1> QED BY <1>2, <1>3, <1>4

(* Every server runs the parsers on the bytes of the sender.               *)
LEMMA ParserInit == Init => PlacedByParser
BY DEF Init, PlacedByParser

LEMMA ParserStep == PlacedByParser /\ [Next]_vars => PlacedByParser'
<1> SUFFICES ASSUME PlacedByParser, [Next]_vars PROVE PlacedByParser'
  OBVIOUS
<1> DEFINE P == Placed(report.dest, report.payload)
<1>1. ASSUME NEW server \in Server, NEW login \in Station, Broadcast(server, login)
      PROVE  PlacedByParser'
  <2>1. /\ report' = report /\ passed' = passed \cup {server}
        /\ placed' = [placed EXCEPT ![server] = @ \cup P]
    BY <1>1 DEF Broadcast
  <2>2. /\ \E p \in Sent : report = p.report
        /\ placed = [s \in Server |-> IF s \in passed THEN P ELSE {}]
    BY DEF PlacedByParser
  <2> HIDE DEF P
  <2>3. placed' = [s \in Server |-> IF s \in passed' THEN P ELSE {}]
    BY <2>1, <2>2
  <2>4. (\E p \in Sent : report = p.report)'
    BY <2>1, <2>2
  <2> QED BY <2>1, <2>3, <2>4 DEF PlacedByParser, P
<1>2. ASSUME NEW server \in Server, NEW login \in Station,
             RefuseLoop(server) \/ RefuseOverlong(server, login)
      PROVE  PlacedByParser'
  BY <1>2 DEF PlacedByParser, RefuseLoop, RefuseOverlong
<1>3. CASE UNCHANGED vars
  BY <1>3 DEF vars, PlacedByParser
<1> QED BY <1>1, <1>2, <1>3 DEF Next

(* "A filter that cannot establish a position must not match by accident": *)
(* for every report, each server that relays it has the station where the  *)
(* report says, and in the south-west corner of what blanks leave where    *)
(* that is north or east of zero; and nowhere if it says nothing, unless   *)
(* it is damaged and starts with a digit.                                  *)
THEOREM PlacedWhereSaid == Spec => []PlacedAsSent
<1>1. QRelayInv /\ PlacedByParser => PlacedAsSent
  <2> SUFFICES ASSUME QRelayInv, PlacedByParser, NEW s \in passed
               PROVE  IF report.means = {} THEN placed[s] = {} \/ MisreadAsCompressed
                      ELSE \E means \in report.means, p \in placed[s] :
                             /\ placed[s] = {p}
                             /\ Cornered(p.lat, means.lat) /\ Cornered(p.lon, means.lon)
    BY DEF PlacedAsSent
  <2>1. /\ report.dest \in Seq(Int) /\ report.payload \in Seq(Int)
        /\ report.means = Said(report.dest, report.payload)
    <3>1. PICK p \in Sent : report = p.report
      BY Zenon DEF PlacedByParser
    <3>2. /\ report.dest \in Seq(0 .. 255) /\ report.payload \in Seq(0 .. 255)
          /\ report.means = Said(report.dest, report.payload)
      BY <3>1, ReportsMean, Zenon
    <3>3. ASSUME NEW b \in Seq(0 .. 255) PROVE b \in Seq(Int)
      <4>1. 0 .. 255 \subseteq Int
        OBVIOUS
      <4> QED BY <4>1, SeqMonotonic, Zenon
    <3> QED BY <3>2, <3>3, Zenon
  <2>2. placed[s] = Placed(report.dest, report.payload)
    <3>1. s \in Server
      BY DEF QRelayInv
    <3> QED BY <3>1 DEF PlacedByParser
  <2> DEFINE dest == report.dest
             payload == report.payload
             said == Said(dest, payload)
             places == Placed(dest, payload)
  <2>3. IF said = {} THEN places = {} \/ MisreadAsCompressed
        ELSE \E means \in said, p \in places :
               places = {p} /\ Cornered(p.lat, means.lat) /\ Cornered(p.lon, means.lon)
    <3>1. \A angle, S : Nearest(angle, S) => Cornered(angle, S)
      BY NearestIsCorner, Zenon
    <3>2. IF said = {} THEN places = {} \/ MisreadAsCompressed
          ELSE \E means \in said, p \in places :
                 places = {p} /\ Nearest(p.lat, means.lat) /\ Nearest(p.lon, means.lon)
      BY <2>1, PlacesAsSaid, Zenon DEF MisreadAsCompressed
    <3> HIDE DEF said, places
    <3>3. CASE said = {}
      BY <3>2, <3>3
    <3>4. CASE said # {}
      <4>1. PICK means \in said, p \in places :
              places = {p} /\ Nearest(p.lat, means.lat) /\ Nearest(p.lon, means.lon)
        BY <3>2, <3>4
      <4>2. Cornered(p.lat, means.lat) /\ Cornered(p.lon, means.lon)
        BY <3>1, <4>1
      <4> QED BY <3>4, <4>1, <4>2
    <3> QED BY <3>3, <3>4
  <2>4. report.means = said /\ placed[s] = places
    BY <2>1, <2>2
  <2> HIDE DEF said, places
  <2> QED BY <2>3, <2>4, Zenon
<1> QED BY <1>1, ParserInit, ParserStep, RelayInvariant, PTL DEF Spec
=============================================================================
