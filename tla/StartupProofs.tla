---------------------------- MODULE StartupProofs ----------------------------
(***************************************************************************)
(* From an aprsc.conf to sockets, for every text, every largest integer    *)
(* and every environment: an interval is read back as it was written,      *)
(* nothing that a line means by its grammar is lost silently, an untouched *)
(* file loads as the configuration that was converted, and a server serves *)
(* what was converted or not at all.                                       *)
(***************************************************************************)
EXTENDS Startup, FiniteSetTheorems, WellFoundedInduction, TLAPS

-----------------------------------------------------------------------------
(* Intervals: the total of the groups, turn by turn.                       *)

Less == {pair \in Nat \X Nat : pair[1] < pair[2]}

(* A set of numbers that is not empty has a smallest one.                  *)
LEMMA Smallest ==
  ASSUME NEW S, S \subseteq Nat, S # {}
  PROVE  \E m \in S : \A n \in S : m <= n
<1>1. IsWellFoundedOn(Less, Nat)
  BY NatLessThanWellFounded DEF OpToRel, Less
<1>2. PICK m \in S : \A n \in S : <<n, m>> \notin Less
  BY <1>1, WFMin
<1>3. \A n \in S : ~ (n < m)
  BY <1>2 DEF Less
<1> QED
  BY <1>3

(* What holds of 0 and passes from each number to the next one below n     *)
(* holds up to n: nothing is the least number it fails of.                 *)
LEMMA UpTo ==
  ASSUME NEW n \in Nat, NEW S, 0 \in S,
         \A k \in Nat : k \in S /\ k < n => k + 1 \in S
  PROVE  0 .. n \subseteq S
<1> DEFINE fails == {k \in 0 .. n : k \notin S}
<1> SUFFICES ASSUME fails # {} PROVE FALSE
  OBVIOUS
<1>0. fails \subseteq Nat
  OBVIOUS
<1>1. PICK m \in fails : \A k \in fails : m <= k
  <2> HIDE DEF fails
  <2> QED BY <1>0, Smallest
<1>2. m \in 1 .. n
  BY <1>1
<1>3. m - 1 \in S
  BY <1>1, <1>2
<1> QED BY <1>1, <1>2, <1>3

(* The turns of the loop over a text, if they can be told.                   *)
Turns(groups, total) ==
  total = [i \in 0 .. Len(groups) |-> IF i = 0 THEN {0} ELSE Added(total[i - 1], groups[i])]

(* Two tellings of the same groups agree.                                  *)
LEMMA TurnsAgree ==
  ASSUME NEW G, NEW s \in Seq(G), NEW t \in Seq(G), Len(s) <= Len(t),
         \A i \in 1 .. Len(s) : s[i] = t[i],
         NEW f, NEW g, Turns(s, f), Turns(t, g)
  PROVE  \A i \in 0 .. Len(s) : f[i] = g[i]
<1> DEFINE S == {i \in 0 .. Len(s) : f[i] = g[i]}
<1>1. Len(s) \in Nat /\ Len(t) \in Nat
  OBVIOUS
<1>2. /\ \A i \in 0 .. Len(s) : f[i] = IF i = 0 THEN {0} ELSE Added(f[i - 1], s[i])
      /\ \A i \in 0 .. Len(t) : g[i] = IF i = 0 THEN {0} ELSE Added(g[i - 1], t[i])
  BY DEF Turns
<1>3. 0 \in S
  BY <1>1, <1>2
<1>4. ASSUME NEW k \in Nat, k \in S, k < Len(s) PROVE k + 1 \in S
  <2>1. /\ k + 1 \in 0 .. Len(s) /\ k + 1 \in 0 .. Len(t) /\ k + 1 # 0
        /\ k + 1 \in 1 .. Len(s) /\ (k + 1) - 1 = k
    BY <1>1, <1>4
  <2>2. f[k + 1] = Added(f[k], s[k + 1]) /\ g[k + 1] = Added(g[k], t[k + 1])
    BY <1>2, <2>1
  <2> QED BY <1>4, <2>1, <2>2
<1> HIDE DEF S
<1>5. 0 .. Len(s) \subseteq S
  BY <1>1, <1>3, <1>4, UpTo
<1> QED BY <1>5 DEF S

(* One more group is one more turn.                                        *)
LEMMA TurnsGoOn ==
  ASSUME NEW G, NEW s \in Seq(G), NEW x \in G, NEW f, Turns(s, f)
  PROVE  \E g : Turns(Append(s, x), g) /\ g[Len(s) + 1] = Added(f[Len(s)], x)
<1> DEFINE t == Append(s, x)
           n == Len(s)
           g == [i \in 0 .. n + 1 |-> IF i = n + 1 THEN Added(f[n], x) ELSE f[i]]
<1>1. n \in Nat /\ Len(t) = n + 1 /\ t[n + 1] = x /\ \A i \in 1 .. n : t[i] = s[i]
  OBVIOUS
<1>2. \A i \in 0 .. n : f[i] = IF i = 0 THEN {0} ELSE Added(f[i - 1], s[i])
  BY DEF Turns
<1>3. ASSUME NEW i \in 0 .. n + 1
      PROVE  g[i] = IF i = 0 THEN {0} ELSE Added(g[i - 1], t[i])
  <2>1. CASE i = n + 1
    <3>1. i # 0 /\ i - 1 = n /\ n \in 0 .. n + 1 /\ n # n + 1
      BY <1>1, <2>1
    <3>2. g[i] = Added(f[n], x) /\ g[i - 1] = f[n]
      BY <2>1, <3>1
    <3> QED BY <1>1, <2>1, <3>1, <3>2
  <2>2. CASE i # n + 1
    <3>1. i \in 0 .. n /\ (i # 0 => i - 1 \in 0 .. n + 1 /\ i - 1 # n + 1 /\ i \in 1 .. n)
      BY <1>1, <2>2
    <3>2. g[i] = f[i] /\ (i # 0 => g[i - 1] = f[i - 1] /\ t[i] = s[i])
      BY <1>1, <2>2, <3>1
    <3> QED BY <1>2, <3>1, <3>2
  <2> QED BY <2>1, <2>2
<1>4. g = [i \in 0 .. Len(t) |-> IF i = 0 THEN {0} ELSE Added(g[i - 1], t[i])]
  BY <1>1, <1>3
<1>5. g[n + 1] = Added(f[n], x)
  BY <1>1
<1> QED BY <1>4, <1>5 DEF Turns

(* The turns can be told for every text.                                     *)
LEMMA TurnsExist ==
  ASSUME NEW G, NEW groups \in Seq(G)
  PROVE  \E f : Turns(groups, f)
<1> DEFINE prefix(k) == [i \in 1 .. k |-> groups[i]]
           n == Len(groups)
           S == {k \in 0 .. n : \E f : Turns(prefix(k), f)}
<1>1. n \in Nat
  OBVIOUS
<1>2. 0 \in S
  <2>1. prefix(0) = <<>> /\ Len(prefix(0)) = 0
    OBVIOUS
  <2>2. Turns(prefix(0), [i \in 0 .. 0 |-> {0}])
    BY <2>1 DEF Turns
  <2> QED BY <1>1, <2>2
<1>3. ASSUME NEW k \in Nat, k \in S, k < n PROVE k + 1 \in S
  <2>1. prefix(k) \in Seq(G) /\ Len(prefix(k)) = k /\ groups[k + 1] \in G
    BY <1>1, <1>3
  <2>2. prefix(k + 1) = Append(prefix(k), groups[k + 1])
    BY <1>1, <1>3, <2>1
  <2>3. PICK f : Turns(prefix(k), f)
    BY <1>3
  <2>4. \E g : Turns(prefix(k + 1), g)
    <3> HIDE DEF prefix
    <3>1. \E g : Turns(Append(prefix(k), groups[k + 1]), g)
      BY <2>1, <2>3, TurnsGoOn
    <3> QED BY <2>2, <3>1
  <2>5. k + 1 \in 0 .. n
    BY <1>1, <1>3
  <2> HIDE DEF prefix
  <2> QED BY <2>4, <2>5
<1> HIDE DEF S
<1>4. 0 .. n \subseteq S
  BY <1>1, <1>2, <1>3, UpTo
<1>5. n \in S
  BY <1>1, <1>4
<1>6. prefix(n) = groups
  OBVIOUS
<1> QED BY <1>5, <1>6 DEF S

(* So the total of a text is the last of its turns.                        *)
LEMMA SummedIs ==
  ASSUME NEW G, NEW groups \in Seq(G)
  PROVE  \E f : Turns(groups, f) /\ Summed(groups) = f[Len(groups)]
<1> DEFINE P(f) == f = [i \in 0 .. Len(groups) |->
                          IF i = 0 THEN {0} ELSE Added(f[i - 1], groups[i])]
           total == CHOOSE f : P(f)
<1>1. \E f : P(f)
  BY TurnsExist DEF Turns
<1>2. P(total)
  <2> HIDE DEF P
  <2> QED BY <1>1
<1>3. Summed(groups) = total[Len(groups)]
  BY DEF Summed
<1> QED BY <1>2, <1>3 DEF Turns

(* No group: nothing.  One more group: one more turn.                      *)
LEMMA SummedStep ==
  ASSUME NEW G, NEW s \in Seq(G), NEW x \in G
  PROVE  Summed(<<>>) = {0} /\ Summed(Append(s, x)) = Added(Summed(s), x)
<1>1. Summed(<<>>) = {0}
  <2>1. <<>> \in Seq(G) /\ Len(<<>>) = 0
    OBVIOUS
  <2>2. PICK f : Turns(<<>>, f) /\ Summed(<<>>) = f[Len(<<>>)]
    BY <2>1, SummedIs
  <2> QED BY <2>1, <2>2 DEF Turns
<1>2. Append(s, x) \in Seq(G) /\ Len(Append(s, x)) = Len(s) + 1 /\ Len(s) \in Nat
  OBVIOUS
<1>3. PICK f : Turns(s, f) /\ Summed(s) = f[Len(s)]
  BY SummedIs
<1>4. PICK g : Turns(Append(s, x), g) /\ g[Len(s) + 1] = Added(f[Len(s)], x)
  BY <1>3, TurnsGoOn
<1>5. PICK h : Turns(Append(s, x), h) /\ Summed(Append(s, x)) = h[Len(Append(s, x))]
  BY <1>2, SummedIs
<1>6. h[Len(s) + 1] = g[Len(s) + 1]
  <2>1. PICK t \in Seq(G) : t = Append(s, x)
    BY <1>2
  <2>2. Turns(t, h) /\ Turns(t, g) /\ Len(t) = Len(s) + 1
    BY <1>2, <1>4, <1>5, <2>1
  <2>3. \A i \in 0 .. Len(t) : h[i] = g[i]
    BY <2>2, TurnsAgree
  <2> QED BY <1>2, <2>2, <2>3
<1>7. Summed(Append(s, x)) = Added(Summed(s), x)
  BY <1>2, <1>3, <1>4, <1>5, <1>6, Zenon
<1> QED BY <1>1, <1>7

(* A total never overflows, whatever the text.                               *)
LEMMA AddedFits ==
  ASSUME NEW total, total \subseteq 0 .. MaxU64, NEW group
  PROVE  Added(total, group) \subseteq 0 .. MaxU64
<1> SUFFICES ASSUME NEW t \in total, group.unit \in DOMAIN SecondsIn,
                    group.count \in 0 .. MaxU64,
                    group.count <= (MaxU64 - t) \div SecondsIn[group.unit]
             PROVE  t + group.count * SecondsIn[group.unit] \in 0 .. MaxU64
  BY DEF Added
<1> DEFINE c == group.count
           u == SecondsIn[group.unit]
           room == MaxU64 - t
<1>1. c \in Nat /\ room \in Nat /\ t \in Nat /\ MaxU64 \in Nat /\ t + room = MaxU64
  <2>1. t \in 0 .. MaxU64 /\ MaxU64 \in Nat /\ c \in 0 .. MaxU64
    BY IntervalConstants
  <2> HIDE DEF c
  <2> QED BY <2>1
<1>2. u \in {86400, 3600, 60, 1}
  BY DEF SecondsIn
<1>3. c <= room \div u
  OBVIOUS
<1> HIDE DEF c, u, room
<1>4. c * u <= room /\ c * u \in Nat
  <2>1. CASE u = 86400
    BY <1>1, <1>3, <2>1
  <2>2. CASE u = 3600
    BY <1>1, <1>3, <2>2
  <2>3. CASE u = 60
    BY <1>1, <1>3, <2>3
  <2>4. CASE u = 1
    BY <1>1, <1>3, <2>4
  <2> QED BY <1>2, <2>1, <2>2, <2>3, <2>4
<1>5. t + c * u \in 0 .. MaxU64
  BY <1>1, <1>4
<1> QED BY <1>5 DEF c, u

(* An interval that is read is a u64, however long its text is.            *)
LEMMA ParsedFits ==
  ASSUME NEW G, NEW groups \in Seq(G)
  PROVE  ParseInterval(groups) \subseteq 0 .. MaxU64
<1>1. PICK f : Turns(groups, f) /\ Summed(groups) = f[Len(groups)]
  BY SummedIs
<1> DEFINE S == {k \in 0 .. Len(groups) : f[k] \subseteq 0 .. MaxU64}
<1>2. Len(groups) \in Nat
  OBVIOUS
<1>3. \A i \in 0 .. Len(groups) : f[i] = IF i = 0 THEN {0} ELSE Added(f[i - 1], groups[i])
  BY <1>1 DEF Turns
<1>4. 0 \in S
  BY <1>2, <1>3, IntervalConstants
<1>5. ASSUME NEW k \in Nat, k \in S, k < Len(groups) PROVE k + 1 \in S
  <2>1. k + 1 \in 0 .. Len(groups) /\ k + 1 # 0 /\ (k + 1) - 1 = k
    BY <1>2, <1>5
  <2>2. f[k + 1] = Added(f[k], groups[k + 1])
    BY <1>3, <2>1
  <2> QED BY <1>5, <2>1, <2>2, AddedFits
<1> HIDE DEF S
<1>6. 0 .. Len(groups) \subseteq S
  BY <1>2, <1>4, <1>5, UpTo
<1>7. Summed(groups) \subseteq 0 .. MaxU64
  BY <1>1, <1>2, <1>6 DEF S
<1> QED BY <1>7 DEF ParseInterval

-----------------------------------------------------------------------------
(* What is rendered: a number with a unit behind it, of each unit at most  *)
(* one.                                                                    *)

WithUnit == [count : Nat, unit : {"d", "h", "m", "s"}]

(* One group that has room is added.                                       *)
LEMMA AddedIs ==
  ASSUME NEW t \in Nat, NEW group \in WithUnit,
         t + group.count * SecondsIn[group.unit] <= MaxU64
  PROVE  /\ Added({t}, group) = {t + group.count * SecondsIn[group.unit]}
         /\ t + group.count * SecondsIn[group.unit] \in Nat
<1> DEFINE c == group.count
           u == SecondsIn[group.unit]
<1>1. c \in Nat /\ group.unit \in DOMAIN SecondsIn /\ u \in {86400, 3600, 60, 1}
  BY SMT DEF WithUnit, SecondsIn
<1>2. t + c * u <= MaxU64 /\ MaxU64 \in Nat
  BY SMT, IntervalConstants
<1> HIDE DEF c, u
<1>3. c <= MaxU64 /\ c <= (MaxU64 - t) \div u /\ t + c * u \in Nat
  <2>1. CASE u = 86400
    BY SMT, <1>1, <1>2, <2>1
  <2>2. CASE u = 3600
    BY SMT, <1>1, <1>2, <2>2
  <2>3. CASE u = 60
    BY SMT, <1>1, <1>2, <2>3
  <2>4. CASE u = 1
    BY SMT, <1>1, <1>2, <2>4
  <2> QED BY SMT, <1>1, <2>1, <2>2, <2>3, <2>4
<1>4. c \in 0 .. MaxU64
  BY <1>1, <1>2, <1>3
<1>5. Added({t}, group) = {t + c * u}
  BY <1>1, <1>3, <1>4 DEF Added, c, u
<1> QED BY <1>3, <1>5 DEF c, u

(* The groups of a rendered interval are summed one after the other.       *)
LEMMA SummedUnits ==
  /\ <<>> \in Seq(WithUnit) /\ Summed(<<>>) = {0}
  /\ \A s \in Seq(WithUnit), x \in WithUnit :
       Append(s, x) \in Seq(WithUnit) /\ Summed(Append(s, x)) = Added(Summed(s), x)
<1>1. \A s \in Seq(WithUnit), x \in WithUnit :
        Summed(<<>>) = {0} /\ Summed(Append(s, x)) = Added(Summed(s), x)
  BY SummedStep, Zenon
<1>2. [count |-> 0, unit |-> "s"] \in WithUnit
  BY DEF WithUnit
<1>3. <<>> \in Seq(WithUnit)
  OBVIOUS
<1>4. Summed(<<>>) = {0}
  BY <1>1, <1>2, <1>3, Zenon
<1>5. \A s \in Seq(WithUnit), x \in WithUnit : Append(s, x) \in Seq(WithUnit)
  OBVIOUS
<1> QED BY <1>1, <1>3, <1>4, <1>5, Zenon

(* The part of one unit is read as its seconds, whatever stands before.    *)
AfterPart(t, count, unit) == t + count * SecondsIn[unit]

SumsTo(s, t) == s \in Seq(WithUnit) /\ Summed(s) = {t}

(* A part that is written behind an interval adds to its sum.              *)
LEMMA PartSummed ==
  ASSUME NEW s, NEW t \in Nat, SumsTo(s, t),
         NEW n, NEW unit \in {"d", "h", "m", "s"},
         NEW c \in Nat, c = CountOf(n, unit),
         NEW r \in Nat, r = AfterPart(t, c, unit), r <= MaxU64
  PROVE  SumsTo(s \o Part(n, unit), r)
<1> USE DEF SumsTo
<1>1. CASE c = 0
  <2>1. Part(n, unit) = <<>>
    BY <1>1 DEF Part
  <2>2. s \o <<>> = s
    OBVIOUS
  <2>3. t + 0 * SecondsIn[unit] = t
    BY SMT DEF SecondsIn
  <2> QED BY <1>1, <2>1, <2>2, <2>3 DEF AfterPart
<1>2. CASE c # 0
  <2>1. PICK x \in WithUnit : x = [count |-> c, unit |-> unit]
    BY DEF WithUnit
  <2>2. Part(n, unit) = <<x>>
    BY <1>2, <2>1 DEF Part
  <2>3. s \o <<x>> = Append(s, x) /\ Append(s, x) \in Seq(WithUnit)
    OBVIOUS
  <2>4. x.count = c /\ x.unit = unit
    BY <2>1
  <2>5. Summed(Append(s, x)) = Added({t}, x)
    BY SummedUnits
  <2>6. Added({t}, x) = {t + c * SecondsIn[unit]}
    BY <2>4, AddedIs DEF AfterPart
  <2> QED BY <2>2, <2>3, <2>5, <2>6 DEF AfterPart
<1> QED BY <1>1, <1>2

(* The counts of the units add up to the seconds.                          *)
LEMMA CountsAddUp ==
  ASSUME NEW n \in Nat
  PROVE  /\ CountOf(n, "d") \in Nat /\ CountOf(n, "h") \in Nat
         /\ CountOf(n, "m") \in Nat /\ CountOf(n, "s") \in Nat
         /\ n = 86400 * CountOf(n, "d") + 3600 * CountOf(n, "h")
                + 60 * CountOf(n, "m") + CountOf(n, "s")
<1> DEFINE d == n \div 86400
           r == n % 86400
           h == r \div 3600
           q == r % 3600
           m == q \div 60
           s == q % 60
<1>1. d \in Nat /\ r \in Nat /\ n = 86400 * d + r /\ r < 86400
  BY SMT
<1>2. h \in Nat /\ q \in Nat /\ r = 3600 * h + q /\ q < 3600
  <2> HIDE DEF r
  <2> QED BY SMT, <1>1
<1>3. m \in Nat /\ s \in Nat /\ q = 60 * m + s /\ s < 60
  <2> HIDE DEF q
  <2> QED BY SMT, <1>2
<1>4. n % 3600 = q
  <2> HIDE DEF d, r, h, q
  <2> QED BY SMT, <1>1, <1>2
<1>5. n % 60 = s
  <2> HIDE DEF d, r, h, q, m, s
  <2> QED BY SMT, <1>1, <1>2, <1>3
<1>6. n = 86400 * d + 3600 * h + 60 * m + s
  <2> HIDE DEF d, r, h, q, m, s
  <2> QED BY SMT, <1>1, <1>2, <1>3
<1>7. /\ CountOf(n, "d") = d /\ CountOf(n, "h") = h
      /\ CountOf(n, "m") = m /\ CountOf(n, "s") = s
  BY SMT, <1>4, <1>5 DEF CountOf, SecondsIn
<1> HIDE DEF d, r, h, q, m, s
<1> QED BY SMT, <1>1, <1>2, <1>3, <1>6, <1>7

(* Display against parse: every u64 of seconds is read back from the text  *)
(* it is written as, and as nothing else, by Interval::parse; a unit that  *)
(* does not occur is not missed, and no turn overflows.                    *)
THEOREM IntervalRoundTrip ==
  \A n \in 0 .. MaxU64 : ParseInterval(RenderInterval(n)) = {n}
<1> SUFFICES ASSUME NEW n \in 0 .. MaxU64
             PROVE  ParseInterval(RenderInterval(n)) = {n}
  BY SMT
<1>1. n \in Nat /\ MaxU64 \in Nat /\ n <= MaxU64
  BY SMT, IntervalConstants
<1>2. /\ SecondsIn["d"] = 86400 /\ SecondsIn["h"] = 3600
      /\ SecondsIn["m"] = 60 /\ SecondsIn["s"] = 1
  BY SMT DEF SecondsIn
<1>3. <<>> \in Seq(WithUnit) /\ Summed(<<>>) = {0}
  BY SummedUnits
<1>4. /\ RenderInterval(n) \in Seq(WithUnit)
      /\ Summed(RenderInterval(n)) = {n}
      /\ RenderInterval(n) # <<>>
  <2>1. CASE n = 0
    <3>1. PICK x \in WithUnit : x = [count |-> 0, unit |-> "s"]
      BY DEF WithUnit
    <3>2. RenderInterval(n) = <<x>> /\ <<x>> = Append(<<>>, x) /\ <<x>> \in Seq(WithUnit)
      BY <2>1, <3>1 DEF RenderInterval
    <3>3. x.count = 0 /\ x.unit = "s" /\ 0 + 0 * 1 = 0
      BY <3>1
    <3>4. Added({0}, x) = {0}
      BY <1>1, <1>2, <3>3, AddedIs
    <3>5. Summed(Append(<<>>, x)) = Added({0}, x)
      BY <1>3, SummedUnits
    <3>6. <<x>> # <<>>
      OBVIOUS
    <3> QED BY <2>1, <3>2, <3>4, <3>5, <3>6, Zenon
  <2>2. CASE n # 0
    <3> DEFINE days == <<>> \o Part(n, "d")
               hours == days \o Part(n, "h")
               minutes == hours \o Part(n, "m")
               seconds == minutes \o Part(n, "s")
    <3>1. /\ CountOf(n, "d") \in Nat /\ CountOf(n, "h") \in Nat
          /\ CountOf(n, "m") \in Nat /\ CountOf(n, "s") \in Nat
      BY <1>1, CountsAddUp, SMT
    <3>2. PICK d, h, m, s \in Nat : /\ d = CountOf(n, "d") /\ h = CountOf(n, "h")
                                   /\ m = CountOf(n, "m") /\ s = CountOf(n, "s")
      BY <3>1
    <3>3. PICK D, H, M \in Nat, t1, t2, t3 \in Nat :
            /\ D = SecondsIn["d"] /\ H = SecondsIn["h"] /\ M = SecondsIn["m"]
            /\ t1 = 0 + d * D /\ t2 = t1 + h * H /\ t3 = t2 + m * M
            /\ n = t3 + s * 1
            /\ t1 <= MaxU64 /\ t2 <= MaxU64 /\ t3 <= MaxU64
      <4>1. n = 86400 * d + 3600 * h + 60 * m + s
        BY <1>1, <3>2, CountsAddUp, SMT
      <4>2. PICK x \in Nat : x = 86400 * d
        BY SMT
      <4>3. PICK y \in Nat : y = 3600 * h
        BY SMT
      <4>4. PICK z \in Nat : z = 60 * m
        BY SMT
      <4>5. n = x + y + z + s
        BY <4>1, <4>2, <4>3, <4>4, SMT
      <4>6. /\ x + y \in Nat /\ x + y + z \in Nat /\ n = (x + y + z) + s * 1
            /\ x <= MaxU64 /\ x + y <= MaxU64 /\ x + y + z <= MaxU64
        BY <1>1, <4>5, SMT
      <4>7. PICK D, H, M \in Nat : /\ D = SecondsIn["d"] /\ H = SecondsIn["h"] /\ M = SecondsIn["m"]
                                  /\ x = 0 + d * D /\ x + y = x + h * H
                                  /\ x + y + z = (x + y) + m * M
        BY <4>2, <4>3, <4>4, SMT DEF SecondsIn
      <4> QED BY <4>6, <4>7, Zenon
    <3>4. /\ t1 = AfterPart(0, d, "d") /\ t2 = AfterPart(t1, h, "h")
          /\ t3 = AfterPart(t2, m, "m") /\ n = AfterPart(t3, s, "s")
      BY <1>2, <3>3 DEF AfterPart
    <3>5. SumsTo(days, t1)
      <4>1. SumsTo(<<>>, 0) /\ 0 \in Nat
        BY <1>3 DEF SumsTo
      <4> HIDE DEF days
      <4> QED BY <3>2, <3>3, <3>4, <4>1, PartSummed DEF days
    <3> HIDE DEF days
    <3>6. SumsTo(hours, t2)
      BY <3>2, <3>3, <3>4, <3>5, PartSummed
    <3> HIDE DEF hours
    <3>7. SumsTo(minutes, t3)
      BY <3>2, <3>3, <3>4, <3>6, PartSummed
    <3> HIDE DEF minutes
    <3>8. SumsTo(seconds, n)
      BY <1>1, <3>2, <3>4, <3>7, PartSummed
    <3>9. <<>> \o Part(n, "d") = Part(n, "d")
      BY DEF Part
    <3>10. RenderInterval(n) = seconds
      BY <2>2, <3>9 DEF RenderInterval, seconds, minutes, hours, days
    <3> HIDE DEF seconds
    <3>11. seconds # <<>>
      BY <1>3, <2>2, <3>8 DEF SumsTo
    <3> QED BY <3>8, <3>10, <3>11 DEF SumsTo
  <2> QED BY <2>1, <2>2
<1>5. ~ (Len(RenderInterval(n)) = 1 /\ RenderInterval(n)[1].unit = "")
  <2>1. PICK r \in Seq(WithUnit) : r = RenderInterval(n)
    BY <1>4
  <2>2. Len(r) = 1 => r[1] \in WithUnit
    OBVIOUS
  <2> QED BY <2>1, <2>2 DEF WithUnit
<1> QED BY <1>4, <1>5 DEF ParseInterval

-----------------------------------------------------------------------------
(* What is written is read back.                                           *)

ListenerKeys == {"name", "kind", "protocol", "bind", "filter", "max_clients", "hidden"}

IsListener(l) ==
  /\ l = [k \in ListenerKeys |-> l[k]]
  /\ l.hidden \in BOOLEAN

IsUplink(u) == DOMAIN u = UplinkNeeds

(* A configuration with all its keys, intervals of a u64, and listeners and*)
(* uplinks with all of theirs; the values of the rest are whatever the text*)
(* said.                                                                   *)
ConfigShape(c) ==
  /\ c = [k \in KnownKeys \cup {"listeners", "uplinks"} |-> c[k]]
  /\ \A k \in IntervalKeys : c[k] \in 0 .. MaxU64
  /\ \E S : c.listeners \in Seq(S) /\ \A l \in S : IsListener(l)
  /\ \E S : c.uplinks \in Seq(S) /\ \A u \in S : IsUplink(u)

(* The keys, one by one.                                                   *)
LEMMA KeysAre ==
  /\ KnownKeys = {"id", "passcode", "admin", "email", "run_dir", "client_timeout",
                  "upstream_timeout", "dupecheck_window", "keepalive_interval",
                  "file_limit", "client_queue", "url", "status_bind"}
  /\ DOMAIN Default = KnownKeys \ {"id"}
  /\ IntervalKeys \subseteq KnownKeys /\ "status_bind" \notin IntervalKeys
  /\ "listeners" \notin KnownKeys /\ "uplinks" \notin KnownKeys /\ "id" \notin IntervalKeys
  /\ DOMAIN ListenerDefault = {"protocol", "filter", "max_clients", "hidden"}
<1>1. DOMAIN Default = {"passcode", "admin", "email", "run_dir", "client_timeout",
                  "upstream_timeout", "dupecheck_window", "keepalive_interval",
                  "file_limit", "client_queue", "url", "status_bind"}
  BY SMT DEF Default
<1> QED BY <1>1 DEF KnownKeys, IntervalKeys, ListenerDefault

(* A listener is read back from the keys that are written of it.           *)
LEMMA ListenerReadsBack ==
  ASSUME NEW l, IsListener(l)
  PROVE  /\ Over(WrittenListener(l), ListenerDefault) = l
         /\ Fits(WrittenListener(l), ListenerNeeds, DOMAIN ListenerDefault)
<1> DEFINE w == WrittenListener(l)
<1>1. l = [k \in ListenerKeys |-> l[k]] /\ DOMAIN l = ListenerKeys /\ l.hidden \in BOOLEAN
  BY DEF IsListener
<1>2. /\ DOMAIN w = {k \in ListenerKeys : /\ k \in {"filter", "max_clients"} => l[k] # {}
                                          /\ k = "hidden" => l.hidden}
      /\ \A k \in DOMAIN w : w[k] = l[k]
  BY <1>1 DEF WrittenListener
<1> HIDE DEF w
<1>3. DOMAIN w \cup DOMAIN ListenerDefault = ListenerKeys
  BY <1>2, KeysAre DEF ListenerKeys
<1>4. ASSUME NEW k \in ListenerKeys
      PROVE  (IF k \in DOMAIN w THEN w[k] ELSE ListenerDefault[k]) = l[k]
  <2>1. CASE k \in DOMAIN w
    BY <1>2, <2>1
  <2>2. CASE k \notin DOMAIN w
    <3>1. (k \in {"filter", "max_clients"} /\ l[k] = {}) \/ (k = "hidden" /\ l[k] = FALSE)
      BY <1>1, <1>2, <2>2
    <3>2. /\ ListenerDefault["filter"] = {} /\ ListenerDefault["max_clients"] = {}
          /\ ListenerDefault["hidden"] = FALSE
      BY DEF ListenerDefault
    <3>3. CASE k = "filter"
      BY <2>2, <3>1, <3>2, <3>3, Zenon
    <3>4. CASE k = "max_clients"
      BY <2>2, <3>1, <3>2, <3>4, Zenon
    <3>5. CASE k = "hidden"
      BY <2>2, <3>1, <3>2, <3>5
    <3> QED BY <3>1, <3>3, <3>4, <3>5
  <2> QED BY <2>1, <2>2
<1>5. Over(w, ListenerDefault) = [k \in ListenerKeys |-> l[k]]
  BY <1>3, <1>4 DEF Over
<1>6. Fits(w, ListenerNeeds, DOMAIN ListenerDefault)
  BY <1>2, KeysAre DEF Fits, ListenerNeeds, ListenerKeys
<1> QED BY <1>1, <1>5, <1>6 DEF w

(* Nothing over a function is that function.                               *)
LEMMA NothingOver ==
  ASSUME NEW f, f = [k \in DOMAIN f |-> f[k]]
  PROVE  Over(<<>>, f) = f
BY DEF Over

(* What load reads back from the settings that are written.                *)
LEMMA SettingsReadBack ==
  ASSUME NEW c, ConfigShape(c), NEW settings, settings = WrittenSettings(c)
  PROVE  /\ "id" \in DOMAIN settings /\ DOMAIN settings \ KnownKeys = {}
         /\ IntervalKeys \subseteq DOMAIN settings
         /\ \A k \in IntervalKeys : ParseInterval(settings[k]) = {c[k]}
         /\ \A k \in KnownKeys \ IntervalKeys : Over(settings, Default)[k] = c[k]
         /\ Over(NoVariables.settings, settings) = settings
<1>1. DOMAIN c = KnownKeys \cup {"listeners", "uplinks"}
  BY DEF ConfigShape
<1>2. /\ DOMAIN settings = {k \in KnownKeys : k = "status_bind" => c[k] # {}}
      /\ \A k \in DOMAIN settings :
           settings[k] = IF k \in IntervalKeys THEN RenderInterval(c[k]) ELSE c[k]
      /\ settings = [k \in DOMAIN settings |-> settings[k]]
  BY <1>1, KeysAre, Zenon DEF WrittenSettings
<1>3. \A k \in IntervalKeys : k \in DOMAIN settings
  BY <1>2, KeysAre
<1>4. ASSUME NEW k \in IntervalKeys
      PROVE  ParseInterval(settings[k]) = {c[k]}
  <2>1. settings[k] = RenderInterval(c[k]) /\ c[k] \in 0 .. MaxU64
    BY <1>2, <1>3 DEF ConfigShape
  <2> QED BY <2>1, IntervalRoundTrip
<1>5. ASSUME NEW k \in KnownKeys \ IntervalKeys
      PROVE  Over(settings, Default)[k] = c[k]
  <2>1. CASE k \in DOMAIN settings
    BY <1>2, <2>1 DEF Over
  <2>2. CASE k \notin DOMAIN settings
    <3>1. k = "status_bind" /\ c[k] = {}
      BY <1>2, <2>2
    <3>2. Default["status_bind"] = {} /\ "status_bind" \in DOMAIN Default
      BY SMT DEF Default
    <3> QED BY <2>2, <3>1, <3>2 DEF Over
  <2> QED BY <2>1, <2>2
<1>6. Over(NoVariables.settings, settings) = settings
  BY <1>2, NothingOver DEF NoVariables
<1>7. "id" \in DOMAIN settings /\ DOMAIN settings \ KnownKeys = {}
  BY <1>2, KeysAre
<1> QED BY <1>3, <1>4, <1>5, <1>6, <1>7

(* A configuration that is written and not overridden is read back.        *)
LEMMA ReadsBack ==
  ASSUME NEW c, ConfigShape(c), NEW d \in Rendered(c)
  PROVE  Extracted(Merged(d, NoVariables)) = {c}
<1> DEFINE settings == d.settings
           listen == d.listen
           values == Over(settings, Default)
           reads == [k \in IntervalKeys |->
                      IF k \in DOMAIN settings THEN ParseInterval(settings[k])
                      ELSE {Default[k]}]
           read(k) == CASE k = "listeners" -> [i \in DOMAIN listen |->
                                                Over(listen[i], ListenerDefault)]
                        [] k = "uplinks" -> d.uplink
                        [] k \in IntervalKeys -> CHOOSE n \in reads[k] : TRUE
                        [] OTHER -> values[k]
<1> HIDE DEF settings, listen, values, reads, read
<1>1. d = [settings |-> WrittenSettings(c),
           listen |-> [i \in DOMAIN c.listeners |-> WrittenListener(c.listeners[i])],
           uplink |-> c.uplinks]
  BY Zenon DEF Rendered
<1>2. /\ "id" \in DOMAIN settings /\ DOMAIN settings \ KnownKeys = {}
      /\ IntervalKeys \subseteq DOMAIN settings
      /\ \A k \in IntervalKeys : ParseInterval(settings[k]) = {c[k]}
      /\ \A k \in KnownKeys \ IntervalKeys : values[k] = c[k]
      /\ Over(NoVariables.settings, settings) = settings
  <2>1. settings = WrittenSettings(c)
    BY <1>1 DEF settings
  <2> QED BY <2>1, SettingsReadBack DEF values
<1>3. /\ [i \in DOMAIN listen |-> Over(listen[i], ListenerDefault)] = c.listeners
      /\ \A l \in Range(listen) : Fits(l, ListenerNeeds, DOMAIN ListenerDefault)
  <2>1. PICK S : c.listeners \in Seq(S) /\ \A l \in S : IsListener(l)
    BY DEF ConfigShape
  <2>2. listen = [i \in DOMAIN c.listeners |-> WrittenListener(c.listeners[i])]
    BY <1>1 DEF listen
  <2>3. ASSUME NEW i \in DOMAIN c.listeners
        PROVE  /\ Over(listen[i], ListenerDefault) = c.listeners[i]
               /\ Fits(listen[i], ListenerNeeds, DOMAIN ListenerDefault)
    <3>1. IsListener(c.listeners[i]) /\ listen[i] = WrittenListener(c.listeners[i])
      BY <2>1, <2>2
    <3> QED BY <3>1, ListenerReadsBack
  <2>4. /\ DOMAIN listen = DOMAIN c.listeners
        /\ c.listeners = [i \in DOMAIN c.listeners |-> c.listeners[i]]
    BY <2>1, <2>2
  <2>5. [i \in DOMAIN listen |-> Over(listen[i], ListenerDefault)] = c.listeners
    BY <2>3, <2>4
  <2>6. \A l \in Range(listen) : Fits(l, ListenerNeeds, DOMAIN ListenerDefault)
    BY <2>3, <2>4 DEF Range
  <2> QED BY <2>5, <2>6
<1>4. Merged(d, NoVariables) = d
  <2>1. Over(NoVariables.settings, d.settings) = d.settings
    BY <1>2 DEF settings
  <2>2. /\ DOMAIN d = {"settings", "listen", "uplink"} /\ DOMAIN NoVariables = {"settings"}
        /\ d = [k \in DOMAIN d |-> d[k]]
    BY <1>1 DEF NoVariables
  <2>3. [Over(NoVariables, d) EXCEPT !.settings = d.settings] = d
    BY <2>2 DEF Over
  <2> QED BY <2>1, <2>3, Zenon DEF Merged
<1>5. d.uplink = c.uplinks
  BY <1>1
<1>5u. \A u \in Range(d.uplink) : Fits(u, UplinkNeeds, {})
  <2>1. PICK S : c.uplinks \in Seq(S) /\ \A u \in S : IsUplink(u)
    BY DEF ConfigShape
  <2>2. \A u \in S : Fits(u, UplinkNeeds, {})
    BY <2>1 DEF IsUplink, Fits
  <2>3. \A i \in DOMAIN c.uplinks : c.uplinks[i] \in S
    BY <2>1
  <2> QED BY <1>5, <2>2, <2>3 DEF Range
<1>6. \A k \in IntervalKeys : reads[k] = {c[k]}
  BY <1>2, Zenon DEF reads
<1>7. Extracted(d) = {[k \in KnownKeys \cup {"listeners", "uplinks"} |-> read(k)]}
  <2>1. ~ \E k \in IntervalKeys : reads[k] = {}
    BY <1>6
  <2> QED BY <1>2, <1>3, <1>5u, <2>1, Zenon DEF Extracted, values, reads, read, settings, listen
<1>8. ASSUME NEW k \in KnownKeys \cup {"listeners", "uplinks"}
      PROVE  read(k) = c[k]
  <2>1. CASE k = "listeners"
    <3>1. k # "uplinks" /\ k \notin IntervalKeys
      BY <2>1, KeysAre
    <3> QED BY <1>3, <2>1, <3>1, Zenon DEF read
  <2>2. CASE k = "uplinks"
    <3>1. k # "listeners" /\ k \notin IntervalKeys
      BY <2>2, KeysAre
    <3> QED BY <1>5, <2>2, <3>1, Zenon DEF read
  <2>3. CASE k \in IntervalKeys
    <3>1. k # "listeners" /\ k # "uplinks"
      BY <2>3, KeysAre
    <3>2. (CHOOSE n \in reads[k] : TRUE) = c[k]
      <4>1. reads[k] = {c[k]}
        BY <1>6, <2>3
      <4>2. \A x : (CHOOSE n \in {x} : TRUE) = x
        OBVIOUS
      <4> QED BY <4>1, <4>2, Zenon
    <3> QED BY <2>3, <3>1, <3>2, Zenon DEF read
  <2>4. CASE k \in KnownKeys \ IntervalKeys
    <3>1. k # "listeners" /\ k # "uplinks" /\ k \notin IntervalKeys
      BY <2>4, KeysAre
    <3> QED BY <1>2, <2>4, <3>1, Zenon DEF read
  <2> QED BY <2>1, <2>2, <2>3, <2>4
<1>9. c = [k \in KnownKeys \cup {"listeners", "uplinks"} |-> c[k]]
  BY DEF ConfigShape
<1>10. [k \in KnownKeys \cup {"listeners", "uplinks"} |-> read(k)] = c
  BY <1>8, <1>9
<1> QED BY <1>4, <1>7, <1>10, Zenon
-----------------------------------------------------------------------------
(* The configuration that is built has its shape.                          *)

(* Setting a key, adding a listener or an uplink keeps the shape.          *)
LEMMA ShapeSet ==
  ASSUME NEW c, ConfigShape(c), NEW k \in KnownKeys, NEW v,
         k \in IntervalKeys => v \in 0 .. MaxU64
  PROVE  ConfigShape([c EXCEPT ![k] = v])
<1> DEFINE d == [c EXCEPT ![k] = v]
<1>1. /\ d = [x \in KnownKeys \cup {"listeners", "uplinks"} |-> d[x]]
      /\ \A x \in KnownKeys \cup {"listeners", "uplinks"} : d[x] = IF x = k THEN v ELSE c[x]
  BY DEF ConfigShape
<1> HIDE DEF d
<1>2. \A x \in IntervalKeys : d[x] \in 0 .. MaxU64
  BY <1>1, KeysAre DEF ConfigShape
<1>3. d.listeners = c.listeners /\ d.uplinks = c.uplinks
  BY <1>1, KeysAre
<1> QED BY <1>1, <1>2, <1>3 DEF ConfigShape, d

(* A listener more.                                                        *)
LEMMA ShapeListed ==
  ASSUME NEW c, ConfigShape(c), NEW l, IsListener(l)
  PROVE  ConfigShape([c EXCEPT !.listeners = Append(@, l)])
<1> DEFINE d == [c EXCEPT !.listeners = Append(@, l)]
<1>1. /\ d = [x \in KnownKeys \cup {"listeners", "uplinks"} |-> d[x]]
      /\ \A x \in KnownKeys : d[x] = c[x]
      /\ d.listeners = Append(c.listeners, l) /\ d.uplinks = c.uplinks
  BY KeysAre DEF ConfigShape
<1> HIDE DEF d
<1>2. \A x \in IntervalKeys : d[x] \in 0 .. MaxU64
  BY <1>1, KeysAre DEF ConfigShape
<1>3. PICK S : c.listeners \in Seq(S) /\ \A x \in S : IsListener(x)
  BY DEF ConfigShape
<1>4. d.listeners \in Seq(S \cup {l}) /\ \A x \in S \cup {l} : IsListener(x)
  <2>1. c.listeners \in Seq(S \cup {l})
    BY <1>3
  <2>2. Append(c.listeners, l) \in Seq(S \cup {l})
    BY <2>1
  <2> QED BY <1>1, <1>3, <2>2, Zenon
<1> QED BY <1>1, <1>2, <1>4 DEF ConfigShape, d

(* An uplink more.                                                         *)
LEMMA ShapeLinked ==
  ASSUME NEW c, ConfigShape(c), NEW u, IsUplink(u)
  PROVE  ConfigShape([c EXCEPT !.uplinks = Append(@, u)])
<1> DEFINE d == [c EXCEPT !.uplinks = Append(@, u)]
<1>1. /\ d = [x \in KnownKeys \cup {"listeners", "uplinks"} |-> d[x]]
      /\ \A x \in KnownKeys : d[x] = c[x]
      /\ d.listeners = c.listeners /\ d.uplinks = Append(c.uplinks, u)
  BY KeysAre DEF ConfigShape
<1> HIDE DEF d
<1>2. \A x \in IntervalKeys : d[x] \in 0 .. MaxU64
  BY <1>1, KeysAre DEF ConfigShape
<1>3. PICK S : c.uplinks \in Seq(S) /\ \A x \in S : IsUplink(x)
  BY DEF ConfigShape
<1>4. d.uplinks \in Seq(S \cup {u}) /\ \A x \in S \cup {u} : IsUplink(x)
  <2>1. c.uplinks \in Seq(S \cup {u})
    BY <1>3
  <2>2. Append(c.uplinks, u) \in Seq(S \cup {u})
    BY <2>1
  <2> QED BY <1>1, <1>3, <2>2, Zenon
<1> QED BY <1>1, <1>2, <1>4 DEF ConfigShape, d

(* The intervals of an aprsc.conf fit a u64.                               *)
LEMMA IntervalsFit ==
  ASSUME NEW token PROVE IntervalIn(token) \subseteq 0 .. MaxU64
<1>1. CASE Word(token) \in DOMAIN IntervalText
  <2>1. IntervalText[Word(token)] \in Seq([count : Int, unit : STRING])
    BY <1>1, AprscConstants
  <2> QED BY <1>1, <2>1, ParsedFits DEF IntervalIn
<1>2. CASE Word(token) \notin DOMAIN IntervalText
  BY <1>2 DEF IntervalIn
<1> QED BY <1>1, <1>2

(* The configuration before the first line has the shape.                  *)
LEMMA ShapeAtFirst ==
  ASSUME ConvertInit PROVE ConfigShape(config)
<1> DEFINE first == [id |-> PlaceholderId, listeners |-> <<>>, uplinks |-> <<>>]
<1>1. DOMAIN first = {"id", "listeners", "uplinks"} /\ first.listeners = <<>> /\ first.uplinks = <<>>
  OBVIOUS
<1> HIDE DEF first
<1>2. /\ config = [k \in DOMAIN first \cup DOMAIN Default |->
                    IF k \in DOMAIN first THEN first[k] ELSE Default[k]]
  BY Zenon DEF ConvertInit, Over, first
<1>3. DOMAIN first \cup DOMAIN Default = KnownKeys \cup {"listeners", "uplinks"}
  BY <1>1, KeysAre
<1>4. \A k \in IntervalKeys : config[k] = Default[k]
  BY <1>1, <1>2, <1>3, KeysAre
<1>5. \A k \in IntervalKeys : config[k] \in 0 .. MaxU64
  BY <1>4, DefaultsFit, Zenon
<1>6. config = [k \in KnownKeys \cup {"listeners", "uplinks"} |-> config[k]]
  BY <1>2, <1>3
<1>7. config.listeners = <<>> /\ config.uplinks = <<>>
  BY <1>1, <1>2, <1>3
<1>8. /\ \E S : config.listeners \in Seq(S) /\ \A l \in S : IsListener(l)
      /\ \E S : config.uplinks \in Seq(S) /\ \A u \in S : IsUplink(u)
  <2>1. PICK S : S = {}
    OBVIOUS
  <2>2. config.listeners \in Seq(S) /\ \A l \in S : IsListener(l)
    BY <1>7, <2>1
  <2>3. config.uplinks \in Seq(S) /\ \A u \in S : IsUplink(u)
    BY <1>7, <2>1
  <2> QED BY <2>2, <2>3, Zenon
<1> QED BY <1>5, <1>6, <1>8 DEF ConfigShape

(* What is read of an Uplink has all the keys of one.                      *)
LEMMA UplinkParsed ==
  ASSUME NEW args, NEW u \in ParsedUplink(args) PROVE IsUplink(u)
<1>1. PICK name, kind, address : u = [name |-> name, kind |-> kind, address |-> address]
  BY Zenon DEF ParsedUplink
<1> QED BY <1>1 DEF IsUplink, UplinkNeeds

(* Whatever a line of an aprsc.conf says, the configuration has its shape. *)
LEMMA ShapeKept ==
  ASSUME ConfigShape(config), Convert PROVE ConfigShape(config')
<1>1. CASE config' = config
  BY <1>1
<1>2. ASSUME NEW line \in Lines, NEW tokens \in Tokens(line.raw), SetValue(line, tokens)
      PROVE  ConfigShape(config')
  <2>1. Name(tokens) \in DOMAIN SettingKey
    BY <1>2, Zenon DEF SetValue, ReadDirective
  <2>2. CASE config' = config
    BY <2>2
  <2>3. ASSUME NEW value \in Setting(Name(tokens), tokens[2]),
               config' = [config EXCEPT ![SettingKey[Name(tokens)]] = value]
        PROVE  ConfigShape(config')
    <3>1. SettingKey[Name(tokens)] \in KnownKeys
      BY <2>1, KeysAre DEF SettingKey
    <3>2. ASSUME SettingKey[Name(tokens)] \in IntervalKeys
          PROVE  value \in 0 .. MaxU64
      <4>1. Name(tokens) \in {"clienttimeout", "upstreamtimeout"}
        BY <2>1, <3>2 DEF SettingKey, IntervalKeys
      <4>2. Name(tokens) # "passcode" /\ Name(tokens) # "filelimit"
        BY <4>1
      <4>3. Setting(Name(tokens), tokens[2]) = IntervalIn(tokens[2])
        BY <4>1, <4>2, Zenon DEF Setting
      <4> QED BY <2>3, <4>3, IntervalsFit
    <3> QED BY <2>3, <3>1, <3>2, ShapeSet
  <2> QED BY <1>2, <2>2, <2>3, Zenon DEF SetValue, Fail
<1>3. ASSUME NEW line \in Lines, NEW tokens \in Tokens(line.raw), SetStatus(line, tokens)
      PROVE  ConfigShape(config')
  <2>1. ASSUME NEW bind, config' = [config EXCEPT !.status_bind = bind]
        PROVE  ConfigShape(config')
    BY <2>1, ShapeSet, KeysAre
  <2> QED BY <1>1, <1>3, <2>1, Zenon DEF SetStatus, Fail
<1>4. ASSUME NEW line \in Lines, NEW tokens \in Tokens(line.raw), AddListener(line, tokens)
      PROVE  ConfigShape(config')
  <2>1. ASSUME NEW l \in ParsedListen(Tail(tokens)),
               config' = [config EXCEPT !.listeners = Append(@, l)]
        PROVE  ConfigShape(config')
    <3>1. PICK name, kind, protocol, bind, filter, most, option :
            l = [name |-> name, kind |-> kind, protocol |-> protocol, bind |-> bind,
                 filter |-> filter, max_clients |-> most, hidden |-> option # {}]
      <4> DEFINE args == Tail(tokens)
                 listener(bind) ==
                   [name |-> IF args[1] = NoText THEN Generated(args, bind) ELSE args[1],
                    kind |-> Word(args[2]), protocol |-> Word(args[3]), bind |-> bind,
                    filter |-> ArgumentOf(args, "filter"),
                    max_clients |-> UNION {NumberIn(t, U64) : t \in ArgumentOf(args, "maxclients")},
                    hidden |-> LastOption(args, "hidden") # {}]
      <4>1. ParsedListen(args) \subseteq {listener(bind) : bind \in Address(args[4], args[5])}
        BY Zenon DEF ParsedListen
      <4>2. PICK bind \in Address(args[4], args[5]) : l = listener(bind)
        <5> HIDE DEF listener
        <5> QED BY <2>1, <4>1
      <4> QED BY <4>2, ZenonT(60)
    <3>2. IsListener(l)
      BY <3>1 DEF IsListener, ListenerKeys
    <3> QED BY <2>1, <3>2, ShapeListed
  <2> QED BY <1>1, <1>4, <2>1, Zenon DEF AddListener, Fail
<1>5. ASSUME NEW line \in Lines, NEW tokens \in Tokens(line.raw), AddUplink(line, tokens)
      PROVE  ConfigShape(config')
  <2>1. ASSUME NEW u \in ParsedUplink(Tail(tokens)),
               config' = [config EXCEPT !.uplinks = Append(@, u)]
        PROVE  ConfigShape(config')
    BY <2>1, UplinkParsed, ShapeLinked
  <2> QED BY <1>1, <1>5, <2>1, Zenon DEF AddUplink, Fail
<1>6. ASSUME NEW line \in Lines, ConvertLine(line)
      PROVE  ConfigShape(config')
  BY <1>1, <1>2, <1>3, <1>4, <1>5, <1>6, Zenon
     DEF ConvertLine, Unterminated, SkipLine, WarnOf, Fail
<1> QED BY <1>1, <1>6, Zenon DEF Convert, EndOfText

-----------------------------------------------------------------------------
(* What holds of the file: once it is written it says what the configuration*)
(* does, until the operator changes it, and whatever it says of the address*)
(* and the protocol of the listeners stays so even then; and the           *)
(* placeholder that is in the configuration was warned of.                 *)
ListensAs(listeners) ==
  /\ DOMAIN listeners = DOMAIN config.listeners
  /\ \A i \in DOMAIN config.listeners :
       /\ listeners[i].protocol = config.listeners[i].protocol
       /\ "bind" \in DOMAIN listeners[i]
       /\ listeners[i].bind = config.listeners[i].bind

Defaulted(listen) == [i \in DOMAIN listen |-> Over(listen[i], ListenerDefault)]

Unwritten == {"converting", "Serialise"}

FileInv ==
  /\ ConfigShape(config)
  /\ file = [k \in {"settings", "listen", "uplink"} |-> file[k]]
  /\ phase = "converting" => ~ edited /\ running = NoConfig
  /\ phase \notin Unwritten =>
       /\ ~ edited => file \in Rendered(config)
       /\ ListensAs(Defaulted(file.listen))
       /\ Folded(config.id) = Folded(PlaceholderId) =>
            [line |-> 0, about |-> config.id] \in warnings

(* What validate complains of, and that its silence means.                 *)
LEMMA Complaints ==
  ASSUME NEW c
  PROVE  /\ Complaint(c) \in {"none", "PlaceholderServerId", "InvalidServerId",
                              "NoListeners", "DuplicateListenerName",
                              "InvalidListenerFilter"}
         /\ Complaint(c) = "PlaceholderServerId" => Folded(c.id) = Folded(PlaceholderId)
         /\ Complaint(c) = "none" =>
              /\ Folded(c.id) # Folded(PlaceholderId)
              /\ ParsesAsLogin(Word(c.id))
              /\ NamesTaken(c) = {} /\ FiltersBroken(c) = {}
<1>1. CASE Complaint(c) # "none" /\ Folded(c.id) # Folded(PlaceholderId)
  BY <1>1, Zenon DEF Complaint
<1>2. CASE Folded(c.id) = Folded(PlaceholderId)
  BY <1>2, Zenon DEF Complaint
<1>3. CASE Complaint(c) = "none"
  <2>1. /\ Folded(c.id) # Folded(PlaceholderId)
        /\ ParsesAsLogin(Word(c.id))
        /\ NamesTaken(c) \cup FiltersBroken(c) = {}
    BY <1>3, Zenon DEF Complaint
  <2> QED BY <1>3, <2>1
<1> QED BY <1>1, <1>2, <1>3

(* What is read of a document has the listeners it lists.                  *)
LEMMA ExtractedFrom ==
  ASSUME NEW d, NEW c \in Extracted(d)
  PROVE  /\ Extracted(d) = {c}
         /\ (CHOOSE x \in Extracted(d) : TRUE) = c
         /\ c.listeners = Defaulted(d.listen)
<1> DEFINE keys == KnownKeys \cup {"listeners", "uplinks"}
           values == Over(d.settings, Default)
           reads == [k \in IntervalKeys |->
                      IF k \in DOMAIN d.settings THEN ParseInterval(d.settings[k])
                      ELSE {Default[k]}]
           read(k) == CASE k = "listeners" -> [i \in DOMAIN d.listen |->
                                                Over(d.listen[i], ListenerDefault)]
                        [] k = "uplinks" -> d.uplink
                        [] k \in IntervalKeys -> CHOOSE n \in reads[k] : TRUE
                        [] OTHER -> values[k]
           all == [k \in keys |-> read(k)]
<1> HIDE DEF keys, values, reads, read, all
<1>1. Extracted(d) \in {{}, {all}}
  BY Zenon DEF Extracted, values, reads, read, all, keys
<1>2. Extracted(d) = {all} /\ c = all
  BY <1>1
<1>3. c.listeners = read("listeners")
  <2>1. "listeners" \in keys
    BY DEF keys
  <2>2. c["listeners"] = read("listeners")
    BY <1>2, <2>1, Zenon DEF all
  <2> QED BY <2>2
<1>4. read("listeners") = Defaulted(d.listen)
  <2>1. "listeners" # "uplinks" /\ "listeners" \notin IntervalKeys
    BY KeysAre
  <2> QED BY <2>1, Zenon DEF read, Defaulted
<1>5. \A x : (CHOOSE y \in {x} : TRUE) = x
  OBVIOUS
<1> QED BY <1>2, <1>3, <1>4, <1>5, Zenon

(* A file lists the listeners it was written from.                         *)
LEMMA WrittenListens ==
  ASSUME ConfigShape(config), NEW d \in Rendered(config)
  PROVE  /\ ListensAs(Defaulted(d.listen))
         /\ d = [k \in {"settings", "listen", "uplink"} |-> d[k]]
<1>1. d = [k \in {"settings", "listen", "uplink"} |-> d[k]]
  <2>1. d = [settings |-> WrittenSettings(config),
             listen |-> [i \in DOMAIN config.listeners |-> WrittenListener(config.listeners[i])],
             uplink |-> config.uplinks]
    BY Zenon DEF Rendered
  <2> QED BY <2>1
<1>2. config \in Extracted(Merged(d, NoVariables))
  BY ReadsBack
<1>3. Merged(d, NoVariables).listen = d.listen
  <2>1. DOMAIN NoVariables = {"settings"} /\ "listen" \in DOMAIN d
    BY <1>1 DEF NoVariables
  <2> QED BY <2>1 DEF Merged, Over
<1>4. config.listeners = Defaulted(d.listen)
  BY <1>2, <1>3, ExtractedFrom
<1>5. \A i \in DOMAIN config.listeners : "bind" \in DOMAIN config.listeners[i]
  <2>1. PICK S : config.listeners \in Seq(S) /\ \A l \in S : IsListener(l)
    BY DEF ConfigShape
  <2>2. \A i \in DOMAIN config.listeners : IsListener(config.listeners[i])
    BY <2>1
  <2> QED BY <2>2 DEF IsListener, ListenerKeys
<1> QED BY <1>1, <1>4, <1>5 DEF ListensAs

(* A listener that is renamed stays at its address, on its protocol.       *)
LEMMA RenamedListens ==
  ASSUME NEW listen, ListensAs(Defaulted(listen)), NEW i \in DOMAIN listen, NEW name
  PROVE  ListensAs(Defaulted([listen EXCEPT ![i] = Over([name |-> name], @)]))
<1> DEFINE renamed == [listen EXCEPT ![i] = Over([name |-> name], @)]
<1>1. /\ DOMAIN renamed = DOMAIN listen
      /\ \A j \in DOMAIN listen : j # i => renamed[j] = listen[j]
      /\ renamed[i] = Over([name |-> name], listen[i])
  OBVIOUS
<1> HIDE DEF renamed
<1>2. ASSUME NEW w, "bind" \in DOMAIN Over(w, ListenerDefault)
      PROVE  LET v == Over([name |-> name], w) IN
             /\ "bind" \in DOMAIN Over(v, ListenerDefault)
             /\ Over(v, ListenerDefault).bind = Over(w, ListenerDefault).bind
             /\ Over(v, ListenerDefault).protocol = Over(w, ListenerDefault).protocol
  <2> DEFINE v == Over([name |-> name], w)
  <2>1. /\ DOMAIN v = {"name"} \cup DOMAIN w
        /\ \A k \in DOMAIN w \ {"name"} : v[k] = w[k]
    BY DEF Over
  <2> HIDE DEF v
  <2>2. "bind" \in DOMAIN w
    BY <1>2, KeysAre DEF Over
  <2>3. "protocol" \in DOMAIN ListenerDefault
    BY KeysAre
  <2> QED BY <2>1, <2>2, <2>3 DEF Over, v
<1>3. ASSUME NEW j \in DOMAIN listen
      PROVE  LET l == Defaulted(renamed)[j] IN
             /\ "bind" \in DOMAIN l
             /\ l.bind = Defaulted(listen)[j].bind
             /\ l.protocol = Defaulted(listen)[j].protocol
  <2>1. /\ Defaulted(renamed)[j] = Over(renamed[j], ListenerDefault)
        /\ Defaulted(listen)[j] = Over(listen[j], ListenerDefault)
    BY <1>1 DEF Defaulted
  <2>2. "bind" \in DOMAIN Over(listen[j], ListenerDefault)
    BY <2>1 DEF ListensAs, Defaulted
  <2>3. CASE j = i
    BY <1>1, <1>2, <2>1, <2>2, <2>3
  <2>4. CASE j # i
    BY <1>1, <2>1, <2>2, <2>4
  <2> QED BY <2>3, <2>4
<1>4. DOMAIN Defaulted(renamed) = DOMAIN listen /\ DOMAIN Defaulted(listen) = DOMAIN listen
  BY <1>1 DEF Defaulted
<1>5. ListensAs(Defaulted(renamed))
  BY <1>3, <1>4 DEF ListensAs
<1> QED BY <1>5 DEF renamed

(* It holds before the first line, and every step keeps it.                *)
LEMMA FileInit == Init => FileInv
BY ShapeAtFirst DEF Init, FileInv, NoDocument, Unwritten

(* A step that leaves a written file and its configuration alone.          *)
LEMMA FileUnchanged ==
  ASSUME FileInv, phase \notin Unwritten, phase' # "converting",
         UNCHANGED <<convertVars, file, edited>>
  PROVE  FileInv'
BY DEF FileInv, Unwritten, convertVars, ListensAs, ConfigShape

(* Every step of conversion, edit, load and start keeps it.                *)
LEMMA FileStep ==
  ASSUME FileInv, [Next]_vars PROVE FileInv'
<1>1. CASE Converting
  <2>1. /\ phase = "converting" /\ phase' = phase /\ ConfigShape(config')
        /\ file' = file /\ edited' = edited /\ running' = running
    BY <1>1, ShapeKept, Zenon DEF Converting, startVars, FileInv
  <2> QED BY <2>1 DEF FileInv, Unwritten, ConfigShape
<1>2. CASE WriteFile
  <2>1. /\ ConfigShape(config) /\ UNCHANGED <<config, edited, running>>
        /\ ~ edited /\ phase = "converting"
        /\ warnings' = warnings \cup
             {[line |-> 0, about |-> id] : id \in {id \in {config.id} :
                                              Folded(id) = Folded(PlaceholderId)}}
    BY <1>2, Zenon DEF WriteFile, FileInv
  <2>2. CASE phase' = "Serialise" /\ UNCHANGED file
    BY <2>1, <2>2 DEF FileInv, Unwritten, ConfigShape
  <2>3. ASSUME NEW d \in Rendered(config), file' = d, phase' = "written"
        PROVE  FileInv'
    <3>1. /\ ListensAs(Defaulted(d.listen))
          /\ d = [k \in {"settings", "listen", "uplink"} |-> d[k]]
      BY <2>1, <2>3, WrittenListens
    <3>2. Folded(config.id) = Folded(PlaceholderId) =>
            [line |-> 0, about |-> config.id] \in warnings'
      BY <2>1
    <3>3. Rendered(config)' = Rendered(config) /\ ListensAs(Defaulted(d.listen))'
      BY <2>1, <3>1 DEF ListensAs
    <3>4. ConfigShape(config)'
      BY <2>1
    <3> QED BY <2>1, <2>3, <3>1, <3>2, <3>3, <3>4, Zenon DEF FileInv, Unwritten
  <2> QED BY <1>2, <2>2, <2>3, Zenon DEF WriteFile
<1>3. CASE Edit
  <2>1. /\ phase \notin Unwritten /\ phase' = "written" /\ edited' = TRUE
        /\ UNCHANGED <<config, warnings>>
    BY <1>3 DEF Edit, convertVars, Idle, ConfigErrors, StartErrors, Unwritten
  <2>2. /\ ConfigShape(config)' /\ phase' # "converting" /\ edited'
        /\ Folded(config.id)' = Folded(PlaceholderId) =>
             [line |-> 0, about |-> config.id]' \in warnings'
    BY <2>1 DEF FileInv
  <2>3. file = [k \in {"settings", "listen", "uplink"} |-> file[k]]
        /\ ListensAs(Defaulted(file.listen))
    BY <2>1 DEF FileInv
  <2>4. ASSUME NEW settings, file' = [file EXCEPT !.settings = settings]
        PROVE  /\ ListensAs(Defaulted(file'.listen))
               /\ file' = [k \in {"settings", "listen", "uplink"} |-> file'[k]]
    <3>1. file'.listen = file.listen
      BY <2>3, <2>4
    <3>2. file' = [k \in {"settings", "listen", "uplink"} |-> file'[k]]
      BY <2>3, <2>4
    <3> QED BY <2>3, <3>1, <3>2
  <2>5. ASSUME NEW i \in DOMAIN file.listen, NEW name,
               file' = [file EXCEPT !.listen[i] = Over([name |-> name], @)]
        PROVE  /\ ListensAs(Defaulted(file'.listen))
               /\ file' = [k \in {"settings", "listen", "uplink"} |-> file'[k]]
    <3>1. /\ file'.listen = [file.listen EXCEPT ![i] = Over([name |-> name], @)]
          /\ file' = [k \in {"settings", "listen", "uplink"} |-> file'[k]]
      BY <2>3, <2>5
    <3> QED BY <2>3, <3>1, RenamedListens
  <2>6. /\ ListensAs(Defaulted(file'.listen))
        /\ file' = [k \in {"settings", "listen", "uplink"} |-> file'[k]]
    BY <1>3, <2>4, <2>5, Zenon DEF Edit
  <2>7. ListensAs(Defaulted(file.listen))'
    BY <2>1, <2>6 DEF ListensAs
  <2> QED BY <2>1, <2>2, <2>6, <2>7, Zenon DEF FileInv
<1>4. CASE Load
  <2>1. PICK loaded :
          /\ phase' = "loaded" \/ phase' = Verdict(loaded)
          /\ UNCHANGED <<convertVars, file, edited>>
    BY <1>4, Zenon DEF Load
  <2>2. phase' # "converting"
    BY <2>1, Complaints DEF Verdict
  <2>3. phase \notin Unwritten
    BY <1>4 DEF Load, Idle, ConfigErrors, StartErrors, Unwritten
  <2> QED BY <2>1, <2>2, <2>3, FileUnchanged
<1>5. CASE MakeRunDir \/ OpenStore \/ BindListener \/ Serve
  <2>1. phase \notin Unwritten /\ phase' # "converting"
    BY <1>5 DEF MakeRunDir, OpenStore, BindListener, Serve, Binding, Abandon, Unwritten
  <2>2. UNCHANGED <<convertVars, file, edited>>
    BY <1>5, Zenon DEF MakeRunDir, OpenStore, BindListener, Serve
  <2> QED BY <2>1, <2>2, FileUnchanged
<1>6. CASE UNCHANGED vars
  BY <1>6 DEF vars, convertVars, startVars, FileInv, Unwritten, ListensAs, ConfigShape
<1> QED BY <1>1, <1>2, <1>3, <1>4, <1>5, <1>6, Zenon DEF Next

(* What is on disk and what was converted go together: an unedited file is *)
(* one that renders the configuration, and any file has its listeners.     *)
THEOREM FileAlways == Spec => []FileInv
<1>1. Init => FileInv
  BY FileInit
<1>2. FileInv /\ [Next]_vars => FileInv'
  BY FileStep
<1> QED BY <1>1, <1>2, PTL DEF Spec

(* Every step keeps what an untouched file loads as.                       *)
LEMMA LoadedAsConverted ==
  ASSUME FileInv, LoadsAsConverted, [Next]_vars PROVE LoadsAsConverted'
<1>1. CASE phase = "converting" /\ (Converting \/ WriteFile)
  <2>1. running' = NoConfig /\ NoConfig' = NoConfig
    BY <1>1, Zenon DEF Converting, WriteFile, startVars, FileInv, NoConfig
  <2>2. phase' \in {"converting", "Serialise", "written"}
    BY <1>1, Zenon DEF Converting, WriteFile, startVars
  <2> QED BY <2>1, <2>2 DEF LoadsAsConverted
<1>2. CASE Edit
  BY <1>2 DEF Edit, LoadsAsConverted
<1>3. CASE Load
  <2>1. SUFFICES ASSUME ~ edited', environment' = NoVariables
                 PROVE  /\ phase' # "Read"
                        /\ phase' = "PlaceholderServerId" =>
                             [line |-> 0, about |-> config.id]' \in warnings'
                        /\ running' \in {NoConfig, config}'
    BY DEF LoadsAsConverted, NoVariables
  <2>2. UNCHANGED <<config, warnings, edited>> /\ phase \notin Unwritten
    BY <1>3 DEF Load, convertVars, Idle, ConfigErrors, StartErrors, Unwritten
  <2>3. /\ ConfigShape(config) /\ file \in Rendered(config)
        /\ Folded(config.id) = Folded(PlaceholderId) =>
             [line |-> 0, about |-> config.id] \in warnings
    BY <2>1, <2>2 DEF FileInv
  <2>4. Extracted(Merged(file, NoVariables)) = {config}
    BY <2>3, ReadsBack
  <2>5. Verdict({config}) = Complaint(config)
    <3>1. {config} # {} /\ (CHOOSE c \in {config} : TRUE) = config
      BY SMT
    <3> QED BY <3>1, Zenon DEF Verdict
  <2>6. \/ /\ Complaint(config) # "none"
           /\ phase' = Complaint(config)
           /\ running' = NoConfig
        \/ phase' = "loaded" /\ running' = config
    <3>1. \/ /\ Verdict({config}) # "none"
             /\ phase' = Verdict({config})
             /\ running' = NoConfig
          \/ phase' = "loaded" /\ running' \in {config}
      <4>1. PICK overrides \in Environments :
              /\ environment' = overrides
              /\ \/ /\ Verdict(Extracted(Merged(file, overrides))) # "none"
                    /\ phase' = Verdict(Extracted(Merged(file, overrides)))
                    /\ running' = NoConfig
                 \/ /\ phase' = "loaded"
                    /\ running' \in Extracted(Merged(file, overrides))
        BY <1>3, Zenon DEF Load
      <4> QED BY <2>1, <2>4, <4>1, Zenon
    <3> QED BY <2>5, <3>1
  <2>7. NoConfig' = NoConfig
    BY DEF NoConfig
  <2> QED BY <2>2, <2>3, <2>6, <2>7, Complaints
<1>4. CASE MakeRunDir \/ OpenStore \/ BindListener \/ Serve
  <2>1. UNCHANGED <<config, warnings, edited, environment, running>>
    BY <1>4, Zenon DEF MakeRunDir, OpenStore, BindListener, Serve, convertVars
  <2>2. phase' \notin {"Read", "PlaceholderServerId"}
    BY <1>4 DEF MakeRunDir, OpenStore, BindListener, Serve, Binding, Abandon
  <2> QED BY <2>1, <2>2 DEF LoadsAsConverted, NoConfig
<1>5. CASE UNCHANGED vars
  BY <1>5 DEF vars, convertVars, startVars, LoadsAsConverted, NoConfig
<1> QED BY <1>1, <1>2, <1>3, <1>4, <1>5, Zenon DEF Next, Converting, WriteFile

(* What was written is read back (Startup's LoadsAsConverted): a file that *)
(* nobody edited and no variable overrides is never unreadable, is refused *)
(* for its placeholder only after a warning, and loads as the configuration*)
(* that was converted, whatever the aprsc.conf said.                       *)
THEOREM StartupLoadsAsConverted == Spec => []LoadsAsConverted
<1>1. Init => FileInv /\ LoadsAsConverted
  <2>1. Init => LoadsAsConverted
    BY DEF Init, LoadsAsConverted
  <2> QED BY <2>1, FileInit
<1>2. FileInv /\ LoadsAsConverted /\ [Next]_vars => (FileInv /\ LoadsAsConverted)'
  BY FileStep, LoadedAsConverted
<1> QED BY <1>1, <1>2, PTL DEF Spec

-----------------------------------------------------------------------------
(* What is bound.                                                          *)

(* What holds of what runs: it is a configuration nothing is wrong with,   *)
(* with the listeners that are meant, and what is bound so far are those of*)
(* them that are on TCP, no two at the same address.                       *)
Tcp(i) == Meant[i].protocol = "tcp"

(* The socket of the i-th listener.                                        *)
IsSocket(i, socket) ==
  /\ socket.name = running.listeners[i].name
  /\ socket.address \in Assigned(Meant[i].bind)

(* The listeners that are meant are a sequence, and those that run are at  *)
(* their addresses, on their protocols.                                    *)
RunsMeant ==
  /\ Len(Meant) \in Nat
  /\ DOMAIN Meant = 1 .. Len(Meant)
  /\ Len(running.listeners) = Len(Meant)
  /\ DOMAIN running.listeners = DOMAIN Meant
  /\ \A i \in DOMAIN Meant : /\ running.listeners[i].protocol = Meant[i].protocol
                             /\ running.listeners[i].bind = Meant[i].bind

Runs == Complaint(running) = "none" /\ RunsMeant

BoundSoFar ==
  /\ at \in 0 .. Len(Meant)
  /\ \E S : bound \in Seq(S)
  /\ Len(bound) = TcpUpTo(at)
  /\ \A i \in 1 .. at : Tcp(i) => IsSocket(i, bound[TcpUpTo(i)])
  /\ \A n \in 1 .. Len(bound) : \E i \in 1 .. at : Tcp(i) /\ n = TcpUpTo(i)
  /\ \A m, n \in 1 .. Len(bound) : m # n => bound[m].address # bound[n].address

RunInv ==
  /\ phase \in {"loaded", "opening", "binding", "serving"} => Runs
  /\ phase \in {"loaded", "opening"} => at = 0 /\ bound = <<>>
  /\ phase \in {"binding", "serving"} => BoundSoFar
  /\ phase = "serving" => at = Len(Meant)

(* How many of the first i numbers are of a set.                           *)
UpToIn(A, i) == Cardinality({j \in 1 .. i : j \in A})

(* One more with each that is, and no fewer of more of them.               *)
LEMMA InCounted ==
  ASSUME NEW A
  PROVE  /\ UpToIn(A, 0) = 0
         /\ \A i \in Nat :
              /\ UpToIn(A, i) \in Nat
              /\ UpToIn(A, i + 1) = IF i + 1 \in A THEN UpToIn(A, i) + 1 ELSE UpToIn(A, i)
         /\ \A i, j \in Nat : i <= j => UpToIn(A, i) <= UpToIn(A, j)
         /\ \A i \in Nat \ {0} : i \in A => UpToIn(A, i) \in Nat \ {0}
<1> DEFINE of(i) == {j \in 1 .. i : j \in A}
           n(i) == UpToIn(A, i)
<1>1. \A i : n(i) = Cardinality(of(i))
  BY DEF UpToIn
<1>2. ASSUME NEW i \in Nat PROVE IsFiniteSet(of(i))
  <2>1. IsFiniteSet(1 .. i)
    BY FS_Interval
  <2> QED BY <2>1, FS_Subset
<1>3. of(0) = {}
  OBVIOUS
<1>4. ASSUME NEW i \in Nat
      PROVE  /\ i + 1 \in A => of(i + 1) = of(i) \cup {i + 1} /\ i + 1 \notin of(i)
             /\ i + 1 \notin A => of(i + 1) = of(i)
  OBVIOUS
<1>5. ASSUME NEW i \in Nat, NEW j \in Nat, i <= j PROVE of(i) \subseteq of(j)
  BY <1>5
<1> HIDE DEF of, n
<1>6. ASSUME NEW i \in Nat PROVE n(i) \in Nat
  BY <1>1, <1>2, FS_CardinalityType
<1>7. ASSUME NEW i \in Nat PROVE n(i + 1) = IF i + 1 \in A THEN n(i) + 1 ELSE n(i)
  <2>1. CASE i + 1 \in A
    BY <1>1, <1>2, <1>4, <2>1, FS_AddElement
  <2>2. CASE i + 1 \notin A
    BY <1>1, <1>4, <2>2
  <2> QED BY <2>1, <2>2
<1>8. n(0) = 0
  BY <1>1, <1>3, FS_EmptySet
<1>9. ASSUME NEW i \in Nat, NEW j \in Nat, i <= j PROVE n(i) <= n(j)
  BY <1>1, <1>2, <1>5, <1>9, FS_Subset
<1>10. ASSUME NEW i \in Nat \ {0}, i \in A PROVE n(i) \in Nat \ {0}
  <2>1. i - 1 \in Nat /\ (i - 1) + 1 = i
    OBVIOUS
  <2>2. n((i - 1) + 1) = n(i - 1) + 1
    BY <1>7, <1>10, <2>1
  <2> QED BY <1>6, <2>1, <2>2
<1> QED BY <1>6, <1>7, <1>8, <1>9, <1>10, Zenon DEF n

(* How many listeners are on TCP: none of the first none, one more with    *)
(* each that is, and no fewer of more of them.                             *)
LEMMA TcpCounted ==
  /\ TcpUpTo(0) = 0
  /\ \A i \in Nat : /\ TcpUpTo(i) \in Nat
                    /\ TcpUpTo(i + 1) = IF Tcp(i + 1) THEN TcpUpTo(i) + 1 ELSE TcpUpTo(i)
  /\ \A i, j \in Nat : i <= j => TcpUpTo(i) <= TcpUpTo(j)
  /\ \A i \in Nat \ {0} : Tcp(i) => TcpUpTo(i) \in Nat \ {0}
<1> DEFINE A == {j \in Nat : Tcp(j)}
<1>1. \A i \in Nat : i + 1 \in Nat /\ 1 .. i \subseteq Nat
  OBVIOUS
<1>2. ASSUME NEW i \in Nat PROVE TcpUpTo(i) = UpToIn(A, i)
  <2>1. {j \in 1 .. i : Meant[j].protocol = "tcp"} = {j \in 1 .. i : j \in A}
    BY <1>1, Zenon DEF Tcp
  <2> QED BY <2>1, Zenon DEF TcpUpTo, UpToIn
<1>3. \A i \in Nat : i \in A <=> Tcp(i)
  OBVIOUS
<1> HIDE DEF A
<1>4. /\ UpToIn(A, 0) = 0
      /\ \A i \in Nat :
           /\ UpToIn(A, i) \in Nat
           /\ UpToIn(A, i + 1) = IF i + 1 \in A THEN UpToIn(A, i) + 1 ELSE UpToIn(A, i)
      /\ \A i, j \in Nat : i <= j => UpToIn(A, i) <= UpToIn(A, j)
      /\ \A i \in Nat \ {0} : i \in A => UpToIn(A, i) \in Nat \ {0}
  BY InCounted
<1> QED BY <1>1, <1>2, <1>3, <1>4

(* Nothing runs at first.                                                  *)
LEMMA RunInit == Init => RunInv
BY DEF Init, RunInv

(* The listeners that were converted are a sequence.                       *)
LEMMA ListenersCounted ==
  ASSUME FileInv
  PROVE  /\ Len(config.listeners) \in Nat
         /\ DOMAIN config.listeners = 1 .. Len(config.listeners)
<1>1. PICK S : config.listeners \in Seq(S)
  BY DEF FileInv, ConfigShape
<1> QED BY <1>1

(* Before bind_all nothing is bound.                                       *)
LEMMA NothingBound ==
  ASSUME RunsMeant, at = 0, bound = <<>> PROVE BoundSoFar
<1>1. bound \in Seq({}) /\ Len(bound) = 0
  OBVIOUS
<1>2. TcpUpTo(at) = 0
  BY TcpCounted
<1>3. at \in 0 .. Len(Meant)
  BY DEF RunsMeant
<1>4. /\ \A i \in 1 .. at : Tcp(i) => IsSocket(i, bound[TcpUpTo(i)])
      /\ \A n \in 1 .. Len(bound) : \E i \in 1 .. at : Tcp(i) /\ n = TcpUpTo(i)
      /\ \A m, n \in 1 .. Len(bound) : m # n => bound[m].address # bound[n].address
  BY <1>1
<1> QED BY <1>1, <1>2, <1>3, <1>4, Zenon DEF BoundSoFar

(* What is meant, and what runs and is bound, as long as nothing changes.  *)
LEMMA MeantStays ==
  ASSUME config' = config, environment' = environment, running' = running
  PROVE  /\ Meant' = Meant
         /\ \A i : TcpUpTo(i)' = TcpUpTo(i) /\ (Tcp(i)' <=> Tcp(i))
         /\ Runs' <=> Runs
<1>1. Meant' = Meant
  BY DEF Meant
<1> QED BY <1>1, Zenon DEF TcpUpTo, Tcp, Runs, RunsMeant

LEMMA BoundStays ==
  ASSUME config' = config, environment' = environment, running' = running,
         at' = at, bound' = bound
  PROVE  BoundSoFar' <=> BoundSoFar
<1>1. /\ Meant' = Meant
      /\ \A i : TcpUpTo(i)' = TcpUpTo(i) /\ (Tcp(i)' <=> Tcp(i))
  BY MeantStays
<1>2. /\ Len(Meant)' = Len(Meant) /\ Len(bound)' = Len(bound)
      /\ TcpUpTo(at)' = TcpUpTo(at)
  BY <1>1, Zenon DEF TcpUpTo
<1>3. (\A i \in 1 .. at : Tcp(i) => IsSocket(i, bound[TcpUpTo(i)]))' <=>
        (\A i \in 1 .. at : Tcp(i) => IsSocket(i, bound[TcpUpTo(i)]))
  BY <1>1, Zenon DEF Tcp, TcpUpTo, IsSocket
<1>4. (\A n \in 1 .. Len(bound) : \E i \in 1 .. at : Tcp(i) /\ n = TcpUpTo(i))' <=>
        (\A n \in 1 .. Len(bound) : \E i \in 1 .. at : Tcp(i) /\ n = TcpUpTo(i))
  <2>1. at' = at /\ bound' = bound
    OBVIOUS
  <2>2. \A n, i : (Tcp(i) /\ n = TcpUpTo(i))' <=> Tcp(i) /\ n = TcpUpTo(i)
    BY <1>1, Zenon DEF Tcp, TcpUpTo
  <2> QED BY <2>1, <2>2, Zenon DEF Tcp, TcpUpTo
<1>5. (\A m, n \in 1 .. Len(bound) : m # n => bound[m].address # bound[n].address)' <=>
        (\A m, n \in 1 .. Len(bound) : m # n => bound[m].address # bound[n].address)
  BY Zenon
<1> QED BY <1>2, <1>3, <1>4, <1>5, Zenon DEF BoundSoFar

(* A step that neither loads nor binds.                                    *)
LEMMA RunKept ==
  ASSUME RunInv, UNCHANGED <<convertVars, environment, running, at, bound>>,
         \/ phase' = phase
         \/ phase' \notin {"loaded", "opening", "binding", "serving"}
         \/ phase = "loaded" /\ phase' = "opening"
         \/ phase = "opening" /\ phase' = "binding"
         \/ phase = "binding" /\ phase' = "serving" /\ at = Len(Meant)
  PROVE  RunInv'
<1>1. UNCHANGED <<config, environment, running, at, bound>>
  BY DEF convertVars
<1>2. (Runs' <=> Runs) /\ Len(Meant)' = Len(Meant)
  BY <1>1, MeantStays
<1>3. BoundSoFar' <=> BoundSoFar
  BY <1>1, BoundStays
<1>4. Runs /\ at = 0 /\ bound = <<>> => BoundSoFar
  BY NothingBound DEF Runs
<1> QED BY <1>1, <1>2, <1>3, <1>4 DEF RunInv

(* What is loaded has the listeners that are meant: the environment's if it*)
(* sets them, and otherwise those of the file; and nothing wrong with it.  *)
LEMMA LoadRuns ==
  ASSUME FileInv, FileInv', RunInv, Load PROVE RunInv'
<1>1. /\ phase \notin Unwritten /\ UNCHANGED <<config, file>>
      /\ at' = 0 /\ bound' = <<>>
  BY DEF Load, convertVars, Idle, ConfigErrors, StartErrors, Unwritten
<1>2. PICK overrides \in Environments :
        /\ environment' = overrides
        /\ \/ phase' = Verdict(Extracted(Merged(file, overrides)))
              /\ Verdict(Extracted(Merged(file, overrides))) # "none"
           \/ /\ Verdict(Extracted(Merged(file, overrides))) = "none"
              /\ phase' = "loaded"
              /\ running' \in Extracted(Merged(file, overrides))
  BY Zenon DEF Load
<1> DEFINE d == Merged(file, overrides)
<1>3. CASE phase' = Verdict(Extracted(d)) /\ Verdict(Extracted(d)) # "none"
  <2>1. phase' \notin {"loaded", "opening", "binding", "serving"}
    BY <1>3, Complaints DEF Verdict
  <2> QED BY <2>1 DEF RunInv
<1>4. CASE /\ Verdict(Extracted(d)) = "none" /\ phase' = "loaded"
           /\ running' \in Extracted(d)
  <2>1. d.listen = IF "listen" \in DOMAIN overrides THEN overrides.listen ELSE file.listen
    BY <1>1 DEF FileInv, Merged, Over
  <2> HIDE DEF d
  <2>2. /\ (CHOOSE x \in Extracted(d) : TRUE) = running'
        /\ running'.listeners = Defaulted(d.listen)
    BY <1>4, ExtractedFrom
  <2>3. Complaint(running') = "none"
    BY <1>4, <2>2, Zenon DEF Verdict
  <2>4. ASSUME "listen" \in DOMAIN overrides PROVE RunsMeant'
    <3>1. Meant' = Defaulted(overrides.listen)
      BY <1>2, <2>4, Zenon DEF Meant, Defaulted
    <3>2. running'.listeners = Meant'
      BY <2>1, <2>2, <2>4, <3>1
    <3>3. /\ Len(overrides.listen) \in Nat
          /\ DOMAIN overrides.listen = 1 .. Len(overrides.listen)
      <4>1. overrides.listen \in Seq(Range(overrides.listen))
        BY <1>2, <2>4, ArraysListed, Zenon
      <4> QED BY <4>1
    <3>4. /\ DOMAIN Meant' = 1 .. Len(overrides.listen)
          /\ Meant' = [i \in 1 .. Len(overrides.listen) |-> Meant'[i]]
      BY <3>1, <3>3 DEF Defaulted
    <3>5. Len(Meant') = Len(overrides.listen)
      BY <3>3, <3>4
    <3> QED BY <3>2, <3>3, <3>4, <3>5 DEF RunsMeant
  <2>5. ASSUME "listen" \notin DOMAIN overrides PROVE RunsMeant'
    <3>1. Meant' = config.listeners /\ running'.listeners = Defaulted(file.listen)
      BY <1>1, <1>2, <2>1, <2>2, <2>5 DEF Meant
    <3>2. ListensAs(Defaulted(file.listen))
      BY <1>1 DEF FileInv
    <3>3. /\ Len(config.listeners) \in Nat
          /\ DOMAIN config.listeners = 1 .. Len(config.listeners)
          /\ DOMAIN Defaulted(file.listen) = 1 .. Len(config.listeners)
      BY <3>2, ListenersCounted DEF ListensAs
    <3>4. Defaulted(file.listen) = [i \in 1 .. Len(config.listeners) |->
                                     Defaulted(file.listen)[i]]
      BY <3>3 DEF Defaulted
    <3>5. Len(Defaulted(file.listen)) = Len(config.listeners)
      BY <3>3, <3>4
    <3> QED BY <3>1, <3>2, <3>3, <3>5 DEF RunsMeant, ListensAs
  <2>6. Runs'
    BY <2>3, <2>4, <2>5 DEF Runs
  <2> QED BY <1>1, <1>4, <2>6 DEF RunInv
<1> QED BY <1>2, <1>3, <1>4

(* A turn of the loop of bind_all: a listener on TCP is bound behind those *)
(* that are, at an address none of them has; another is passed by.         *)
LEMMA TurnBinds ==
  ASSUME RunsMeant, BoundSoFar, at < Len(Meant),
         UNCHANGED <<config, environment, running>>, at' = at + 1, NEW socket,
         \/ ~ Tcp(at + 1) /\ bound' = bound
         \/ /\ Tcp(at + 1) /\ bound' = Append(bound, socket)
            /\ IsSocket(at + 1, socket) /\ ~ Taken(socket.address)
  PROVE  BoundSoFar'
<1>1. at \in Nat /\ at' \in 0 .. Len(Meant)
  BY DEF RunsMeant, BoundSoFar
<1>2. /\ Meant' = Meant
      /\ \A i : TcpUpTo(i)' = TcpUpTo(i) /\ (Tcp(i)' <=> Tcp(i))
  BY MeantStays
<1>3. PICK S : bound \in Seq(S)
  BY DEF BoundSoFar
<1>4. /\ Len(bound) = TcpUpTo(at) /\ Len(bound) \in Nat /\ DOMAIN bound = 1 .. Len(bound)
      /\ \A i \in 1 .. at : Tcp(i) => IsSocket(i, bound[TcpUpTo(i)])
      /\ \A n \in 1 .. Len(bound) : \E i \in 1 .. at : Tcp(i) /\ n = TcpUpTo(i)
      /\ \A m, n \in 1 .. Len(bound) : m # n => bound[m].address # bound[n].address
  BY <1>3 DEF BoundSoFar
<1>5. ASSUME NEW i \in 1 .. at, Tcp(i) PROVE TcpUpTo(i) \in 1 .. Len(bound)
  <2>1. i \in Nat \ {0} /\ i <= at
    BY <1>1
  <2>2. TcpUpTo(i) \in Nat \ {0}
    BY <1>5, <2>1, TcpCounted
  <2>3. TcpUpTo(i) <= TcpUpTo(at)
    BY <1>1, <2>1, TcpCounted
  <2> QED BY <1>4, <2>2, <2>3
<1>6. 1 .. at + 1 = (1 .. at) \cup {at + 1}
  BY <1>1
<1>7. SUFFICES
        /\ \E T : bound' \in Seq(T)
        /\ Len(bound') = TcpUpTo(at + 1)
        /\ \A i \in 1 .. at + 1 : Tcp(i) => IsSocket(i, bound'[TcpUpTo(i)])
        /\ \A n \in 1 .. Len(bound') : \E i \in 1 .. at + 1 : Tcp(i) /\ n = TcpUpTo(i)
        /\ \A m, n \in 1 .. Len(bound') : m # n => bound'[m].address # bound'[n].address
  BY <1>1, <1>2, Zenon DEF BoundSoFar, TcpUpTo, Tcp, IsSocket
<1>8. CASE ~ Tcp(at + 1) /\ bound' = bound
  <2>1. TcpUpTo(at + 1) = Len(bound)
    BY <1>1, <1>4, <1>8, TcpCounted
  <2>2. ASSUME NEW i \in 1 .. at + 1, Tcp(i) PROVE IsSocket(i, bound[TcpUpTo(i)])
    BY <1>4, <1>6, <1>8, <2>2
  <2>3. ASSUME NEW n \in 1 .. Len(bound)
        PROVE  \E i \in 1 .. at + 1 : Tcp(i) /\ n = TcpUpTo(i)
    BY <1>4, <1>6
  <2> QED BY <1>3, <1>4, <1>8, <2>1, <2>2, <2>3
<1>9. CASE /\ Tcp(at + 1) /\ bound' = Append(bound, socket)
           /\ IsSocket(at + 1, socket) /\ ~ Taken(socket.address)
  <2>1. /\ Len(bound') = Len(bound) + 1
        /\ bound' \in Seq(S \cup {socket})
        /\ bound'[Len(bound) + 1] = socket
        /\ \A n \in 1 .. Len(bound) : bound'[n] = bound[n]
        /\ 1 .. Len(bound') = (1 .. Len(bound)) \cup {Len(bound) + 1}
    BY <1>3, <1>9
  <2>2. TcpUpTo(at + 1) = Len(bound) + 1
    BY <1>1, <1>4, <1>9, TcpCounted
  <2>3. ASSUME NEW i \in 1 .. at + 1, Tcp(i) PROVE IsSocket(i, bound'[TcpUpTo(i)])
    <3>1. CASE i \in 1 .. at
      <4>1. bound'[TcpUpTo(i)] = bound[TcpUpTo(i)]
        BY <1>5, <2>1, <2>3, <3>1
      <4> QED BY <1>4, <2>3, <3>1, <4>1
    <3>2. CASE i = at + 1
      BY <1>9, <2>1, <2>2, <3>2
    <3> QED BY <1>6, <3>1, <3>2
  <2>4. ASSUME NEW n \in 1 .. Len(bound')
        PROVE  \E i \in 1 .. at + 1 : Tcp(i) /\ n = TcpUpTo(i)
    <3>1. CASE n \in 1 .. Len(bound)
      BY <1>4, <1>6, <3>1
    <3>2. CASE n = Len(bound) + 1
      BY <1>6, <1>9, <2>2, <3>2
    <3> QED BY <2>1, <3>1, <3>2
  <2>5. \A n \in 1 .. Len(bound) : bound[n].address # socket.address
    BY <1>4, <1>9 DEF Taken
  <2>6. \A m, n \in 1 .. Len(bound') : m # n => bound'[m].address # bound'[n].address
    <3>1. \A n \in 1 .. Len(bound) : n # Len(bound) + 1
      BY <1>4
    <3> QED BY <1>4, <2>1, <2>5, <3>1
  <2> QED BY <2>1, <2>2, <2>3, <2>4, <2>6
<1> QED BY <1>8, <1>9

(* A turn of the loop of bind_all binds its listener or none.              *)
LEMMA BindKeeps ==
  ASSUME RunInv, BindListener PROVE RunInv'
<1>1. /\ phase = "binding" /\ at < Len(Meant)
      /\ Runs /\ RunsMeant /\ BoundSoFar /\ UNCHANGED <<config, environment, running>>
  BY DEF BindListener, Binding, RunInv, Runs, RunsMeant, convertVars
<1>2. at + 1 \in DOMAIN Meant
  BY <1>1 DEF BoundSoFar, RunsMeant
<1>3. /\ Upcoming.protocol = Meant[at + 1].protocol
      /\ Upcoming.bind = Meant[at + 1].bind
      /\ Upcoming.name = running.listeners[at + 1].name
  BY <1>1, <1>2 DEF Upcoming, RunsMeant
<1>4. CASE phase' \in {"InvalidListenerFilter", "Bind"}
  BY <1>4 DEF RunInv
<1>5. ASSUME phase' = phase, at' = at + 1, NEW socket,
             \/ ~ Tcp(at + 1) /\ bound' = bound
             \/ /\ Tcp(at + 1) /\ bound' = Append(bound, socket)
                /\ IsSocket(at + 1, socket) /\ ~ Taken(socket.address)
      PROVE  RunInv'
  <2>1. BoundSoFar'
    BY <1>1, <1>5, TurnBinds
  <2>2. Runs'
    BY <1>1, MeantStays
  <2> QED BY <1>1, <1>5, <2>1, <2>2 DEF RunInv
<1>6. CASE /\ phase' = phase /\ at' = at + 1
           /\ Upcoming.protocol = "udp" /\ bound' = bound
  <2>1. ~ Tcp(at + 1)
    BY <1>3, <1>6 DEF Tcp
  <2> QED BY <1>5, <1>6, <2>1
<1>7. ASSUME phase' = phase, at' = at + 1, Upcoming.protocol = "tcp",
             NEW local \in Assigned(Upcoming.bind), ~ Taken(local),
             bound' = Append(bound, [name |-> Upcoming.name, address |-> local])
      PROVE  RunInv'
  <2> DEFINE socket == [name |-> Upcoming.name, address |-> local]
  <2>1. socket.name = Upcoming.name /\ socket.address = local
    OBVIOUS
  <2>2. Tcp(at + 1)
    BY <1>3, <1>7 DEF Tcp
  <2>3. bound' = Append(bound, socket)
    BY <1>7
  <2> HIDE DEF socket
  <2>4. IsSocket(at + 1, socket) /\ ~ Taken(socket.address)
    BY <1>3, <1>7, <2>1 DEF IsSocket
  <2> QED BY <1>5, <1>7, <2>2, <2>3, <2>4
<1> QED BY <1>4, <1>6, <1>7, Zenon DEF BindListener, Abandon

(* Every step keeps what runs with what is meant.                          *)
LEMMA RunStep ==
  ASSUME FileInv, FileInv', RunInv, [Next]_vars PROVE RunInv'
<1>1. CASE Converting
  BY <1>1 DEF Converting, startVars, FileInv, RunInv
<1>2. CASE WriteFile \/ Edit
  <2>1. phase' \in {"Serialise", "written"}
    BY <1>2, Zenon DEF WriteFile, Edit
  <2> QED BY <2>1 DEF RunInv
<1>3. CASE Load
  BY <1>3, LoadRuns
<1>4. CASE MakeRunDir \/ OpenStore \/ Serve
  <2>1. UNCHANGED <<convertVars, environment, running, at, bound>>
    BY <1>4, Zenon DEF MakeRunDir, OpenStore, Serve
  <2>2. phase = "binding" => Runs
    BY DEF RunInv
  <2>3. \/ phase' \notin {"loaded", "opening", "binding", "serving"}
        \/ phase = "loaded" /\ phase' = "opening"
        \/ phase = "opening" /\ phase' = "binding"
        \/ phase = "binding" /\ phase' = "serving" /\ at = Len(Meant)
    BY <1>4, <2>2 DEF MakeRunDir, OpenStore, Serve, Runs, RunsMeant
  <2> QED BY <2>1, <2>3, RunKept
<1>5. CASE BindListener
  BY <1>5, BindKeeps
<1>6. CASE UNCHANGED vars
  BY <1>6, RunKept DEF vars, startVars
<1> QED BY <1>1, <1>2, <1>3, <1>4, <1>5, <1>6, Zenon DEF Next

(* What the invariants say of a server that serves.                        *)
LEMMA ServingAsWritten == RunInv => ServesAsWritten
<1> SUFFICES ASSUME RunInv, phase = "serving"
             PROVE  /\ Folded(running.id) # Folded(PlaceholderId)
                    /\ ParsesAsLogin(Word(running.id))
                    /\ Len(bound) = TcpUpTo(Len(Meant))
                    /\ \A i \in DOMAIN Meant :
                         Meant[i].protocol = "tcp" =>
                           LET local == bound[TcpUpTo(i)].address IN
                           /\ local[1] = Meant[i].bind[1]
                           /\ IF Meant[i].bind[2] = 0 THEN local[2] # 0
                              ELSE local[2] = Meant[i].bind[2]
                    /\ \A i, j \in DOMAIN bound :
                         i # j => /\ Folded(bound[i].name) # Folded(bound[j].name)
                                  /\ bound[i].address # bound[j].address
                    /\ \A i \in DOMAIN running.listeners :
                         running.listeners[i].filter \subseteq Chains
  BY Zenon DEF ServesAsWritten
<1>1. Runs /\ RunsMeant /\ BoundSoFar /\ at = Len(Meant)
  BY DEF RunInv, Runs
<1>2. /\ Folded(running.id) # Folded(PlaceholderId)
      /\ ParsesAsLogin(Word(running.id))
      /\ NamesTaken(running) = {} /\ FiltersBroken(running) = {}
  BY <1>1, Complaints DEF Runs
<1>3. DOMAIN Meant = 1 .. at /\ at \in Nat /\ DOMAIN running.listeners = 1 .. at
  BY <1>1 DEF RunsMeant
<1>4. Len(bound) = TcpUpTo(Len(Meant))
  BY <1>1 DEF BoundSoFar
<1>5. ASSUME NEW i \in 1 .. at, Tcp(i) PROVE IsSocket(i, bound[TcpUpTo(i)])
  BY <1>1, <1>5 DEF BoundSoFar
<1>6. ASSUME NEW bind, NEW local \in Assigned(bind)
      PROVE  /\ local[1] = bind[1]
             /\ IF bind[2] = 0 THEN local[2] # 0 ELSE local[2] = bind[2]
  <2>1. PICK port \in (IF bind[2] = 0 THEN Ephemeral ELSE {bind[2]}) :
          local = <<bind[1], port>>
    BY Zenon DEF Assigned
  <2>2. local[1] = bind[1] /\ local[2] = port
    BY <2>1
  <2>3. 0 \notin Ephemeral
    BY PortsReal
  <2> QED BY <2>1, <2>2, <2>3
<1>7. ASSUME NEW i \in DOMAIN Meant, Meant[i].protocol = "tcp"
      PROVE  LET local == bound[TcpUpTo(i)].address IN
             /\ local[1] = Meant[i].bind[1]
             /\ IF Meant[i].bind[2] = 0 THEN local[2] # 0 ELSE local[2] = Meant[i].bind[2]
  <2>1. i \in 1 .. at /\ Tcp(i)
    BY <1>3, <1>7, Zenon DEF Tcp
  <2>2. bound[TcpUpTo(i)].address \in Assigned(Meant[i].bind)
    BY <1>5, <2>1 DEF IsSocket
  <2> QED BY <1>6, <2>2, Zenon
<1>8. ASSUME NEW i \in 1 .. at, NEW j \in 1 .. at, i < j
      PROVE  Folded(running.listeners[i].name) # Folded(running.listeners[j].name)
  <2>1. i \in 1 .. j - 1
    BY <1>3, <1>8
  <2> QED BY <1>2, <1>3, <2>1 DEF NamesTaken
<1>9. ASSUME NEW m \in DOMAIN bound, NEW n \in DOMAIN bound, m # n
      PROVE  /\ Folded(bound[m].name) # Folded(bound[n].name)
             /\ bound[m].address # bound[n].address
  <2>1. DOMAIN bound = 1 .. Len(bound)
    <3>1. PICK S : bound \in Seq(S)
      BY <1>1 DEF BoundSoFar
    <3> QED BY <3>1
  <2>2. PICK i \in 1 .. at : Tcp(i) /\ m = TcpUpTo(i)
    BY <1>1, <2>1 DEF BoundSoFar
  <2>3. PICK j \in 1 .. at : Tcp(j) /\ n = TcpUpTo(j)
    BY <1>1, <2>1 DEF BoundSoFar
  <2>4. /\ bound[m].name = running.listeners[i].name
        /\ bound[n].name = running.listeners[j].name
    BY <1>5, <2>2, <2>3 DEF IsSocket
  <2>5. i < j \/ j < i
    BY <1>3, <1>9, <2>2, <2>3
  <2>6. bound[m].address # bound[n].address
    BY <1>1, <1>9, <2>1 DEF BoundSoFar
  <2> QED BY <1>8, <2>4, <2>5, <2>6
<1>10. ASSUME NEW i \in DOMAIN running.listeners
       PROVE  running.listeners[i].filter \subseteq Chains
  BY <1>2 DEF FiltersBroken
<1> QED BY <1>2, <1>4, <1>7, <1>9, <1>10, Zenon

(* A server serves what is meant (Startup's ServesAsWritten): with an      *)
(* identity of its own, at the addresses of the TCP listeners of the       *)
(* environment if it sets them and else of those that were converted, each *)
(* in its place and no other, with a port of its own for each port 0, under*)
(* names that differ, and behind filters that parse, whoever edited the    *)
(* file or set a variable.                                                 *)
THEOREM StartupServesAsWritten == Spec => []ServesAsWritten
<1>1. Init => FileInv /\ RunInv
  BY FileInit, RunInit
<1>2. FileInv /\ RunInv /\ [Next]_vars => (FileInv /\ RunInv)'
  BY FileStep, RunStep
<1>3. FileInv /\ RunInv => ServesAsWritten
  BY ServingAsWritten
<1> QED BY <1>1, <1>2, <1>3, PTL DEF Spec

-----------------------------------------------------------------------------
(* Nothing of a text is lost: first what a line says.                      *)

(* The options of a Listen are where its grammar has them.                 *)
LEMMA OptionsAre ==
  ASSUME NEW T, NEW args \in Seq(T), NEW K \in SUBSET (6 .. Len(args)),
         OptionsOf(args, K)
  PROVE  OptionsAt(args) = K
<1> DEFINE D == 6 .. Len(args)
           name(i) == Lower(Word(args[i]))
           takes(i) == name(i) \in {"filter", "maxclients", "acl"}
           turn(f, i) == \/ i = 6
                         \/ \E j \in 6 .. i - 1 :
                               f[j] /\ i = j + OptionWidth(Lower(Word(args[j])))
           table(f) == f = [i \in D |-> turn(f, i)]
           starts == CHOOSE f : table(f)
           known == [i \in D |-> i \in K]
<1>1. Len(args) \in Nat
  OBVIOUS
<1>2. \A j : OptionWidth(Lower(Word(args[j]))) = IF takes(j) THEN 2 ELSE 1
  BY DEF OptionWidth
<1>3. \A i \in D : i \notin K <=> i - 1 \in K /\ takes(i - 1)
  BY DEF OptionsOf, Option
<1>4. \A i \in D : known[i] <=> i \in K
  OBVIOUS
<1> HIDE DEF known, table, starts, takes
<1>5. ASSUME NEW i \in D PROVE i \in K <=> turn(known, i)
  <2>1. i = 6 => i \in K
    BY <1>3
  <2>2. ASSUME NEW j \in 6 .. i - 1, known[j], i = j + OptionWidth(Lower(Word(args[j])))
        PROVE  i \in K
    <3>1. j \in K /\ j \in D
      BY <1>1, <1>4, <2>2
    <3>2. CASE takes(j)
      <4>1. i = j + 2
        BY <1>2, <2>2, <3>2
      <4>2. j + 1 \notin K
        BY <1>1, <1>3, <3>1, <3>2, <4>1
      <4> QED BY <1>1, <1>3, <4>1, <4>2
    <3>3. CASE ~ takes(j)
      <4>1. i = j + 1
        BY <1>2, <2>2, <3>3
      <4> QED BY <1>1, <1>3, <3>3, <4>1
    <3> QED BY <3>2, <3>3
  <2>3. ASSUME i \in K, i # 6
        PROVE  \E j \in 6 .. i - 1 : known[j] /\ i = j + OptionWidth(Lower(Word(args[j])))
    <3>1. i - 1 \in D /\ ~ (i - 1 \in K /\ takes(i - 1))
      BY <1>1, <1>3, <2>3
    <3>2. CASE i - 1 \in K
      <4>1. known[i - 1] /\ i = (i - 1) + OptionWidth(Lower(Word(args[i - 1])))
        BY <1>1, <1>2, <1>4, <3>1, <3>2
      <4> QED BY <1>1, <3>1, <4>1
    <3>3. CASE i - 1 \notin K
      <4>1. (i - 1) - 1 \in K /\ takes((i - 1) - 1)
        BY <1>3, <3>1, <3>3
      <4>2. (i - 1) - 1 = i - 2
        BY <1>1
      <4>3. i - 2 \in K /\ takes(i - 2) /\ i - 2 \in D
        BY <4>1, <4>2
      <4>4. known[i - 2] /\ i = (i - 2) + OptionWidth(Lower(Word(args[i - 2])))
        BY <1>1, <1>2, <1>4, <4>3
      <4> QED BY <1>1, <4>3, <4>4
    <3> QED BY <3>2, <3>3
  <2> QED BY <2>1, <2>2, <2>3
<1> HIDE DEF turn
<1>6. \E f : table(f)
  <2>1. \A i \in D : turn(known, i) \in BOOLEAN
    BY DEF turn
  <2>2. \A i \in D : (i \in K) = turn(known, i)
    BY <1>5, <2>1
  <2>3. known = [i \in D |-> turn(known, i)]
    BY <2>2, Zenon DEF known
  <2> QED BY <2>3, Zenon DEF table
<1>7. table(starts)
  BY <1>6, Zenon DEF starts
<1>8. \A i \in D : starts[i] = turn(starts, i)
  BY <1>7, Zenon DEF table
<1>9. ASSUME NEW n \in D PROVE starts[n] <=> known[n]
  <2> DEFINE fails == {i \in D : ~ (starts[i] <=> known[i])}
  <2>1. SUFFICES ASSUME fails # {} PROVE FALSE
    OBVIOUS
  <2>2. fails \subseteq D /\ fails \subseteq Nat
    BY <1>1
  <2> HIDE DEF fails
  <2>3. PICK m \in fails : \A i \in fails : m <= i
    BY <1>1, <2>1, <2>2, Smallest
  <2>4. m \in D /\ \A j \in 6 .. m - 1 : starts[j] <=> known[j]
    BY <1>1, <2>2, <2>3 DEF fails
  <2>5. turn(starts, m) <=> turn(known, m)
    BY <2>4, Zenon DEF turn
  <2> QED BY <1>4, <1>5, <1>8, <2>3, <2>4, <2>5 DEF fails
<1>10. OptionsAt(args) = {i \in D : starts[i]}
  BY Zenon DEF OptionsAt, starts, table, turn
<1>11. \A i \in D : starts[i] <=> i \in K
  BY <1>4, <1>9
<1>12. K \subseteq D
  OBVIOUS
<1> QED BY <1>10, <1>11, <1>12, Zenon

(* An address is one, or none.                                             *)
LEMMA OneAddress ==
  ASSUME NEW host, NEW port, NEW a \in Address(host, port)
  PROVE  Address(host, port) = {a}
BY DEF Address, NumberIn, NumberOf

(* Of the options of a name, one is the last.                              *)
LEMMA OneIsLast ==
  ASSUME NEW n \in Nat, NEW K \in SUBSET (1 .. n), K # {}
  PROVE  \E i \in K : \A j \in K : j <= i
<1> DEFINE R == {k \in 0 .. n : n - k \in K}
<1>1. R \subseteq Nat /\ R # {}
  <2>1. PICK i : i \in K /\ i \in 1 .. n
    OBVIOUS
  <2>2. n - i \in 0 .. n /\ n - (n - i) = i
    BY <2>1
  <2>3. n - i \in R
    BY <2>1, <2>2
  <2> QED BY <2>3
<1> HIDE DEF R
<1>2. PICK m \in R : \A k \in R : m <= k
  BY <1>1, Smallest
<1>3. m \in 0 .. n /\ n - m \in K
  BY <1>2 DEF R
<1>4. ASSUME NEW j \in K PROVE j <= n - m
  <2>1. n - j \in R
    BY DEF R
  <2>2. m <= n - j
    BY <1>2, <2>1
  <2> QED BY <1>3, <2>2
<1> QED BY <1>3, <1>4

(* A listener as far as its line says: with a name only if it has one.     *)
ListensFor(l, means) ==
  /\ [l EXCEPT !.name = NoText] = [means.value EXCEPT !.name = NoText]
  /\ means.value.name # NoText => l.name = means.value.name

(* A Listen the grammar does not have is refused, and another is read as   *)
(* it is meant, and what it leaves without a place is known as not         *)
(* supported, but for a filter without an argument.                        *)
LEMMA ListenRead ==
  ASSUME NEW T, NEW args \in Seq(T), NEW K \in SUBSET (6 .. Len(args)),
         OptionsOf(args, K), NEW means
  PROVE  /\ ListenBroken(args, K) => ParsedListen(args) = {}
         /\ ~ ListenBroken(args, K) /\ ListenMeans(args, K, means) =>
              /\ means.kind = "listener" /\ means.value.name = args[1]
              /\ ParsedListen(args) # {}
              /\ \A l \in ParsedListen(args) : ListensFor(l, means)
              /\ means.left \ Unsaid(means) \subseteq {args[i] : i \in Dropped(args)}
<1>1. OptionsAt(args) = K
  BY OptionsAre
<1>2. \A i \in K : i \in 6 .. Len(args)
  OBVIOUS
<1>3. MaxClientsRead(args) <=>
        ~ \E i \in Named(args, K, "maxclients") :
            i = Len(args) \/ NumberIn(args[i + 1], U64) = {}
  <2>1. \A i \in K : i < Len(args) <=> i # Len(args)
    BY <1>2
  <2> QED BY <1>1, <2>1 DEF MaxClientsRead, Named
<1>4. ListenBroken(args, K) => ParsedListen(args) = {}
  <2> SUFFICES ASSUME ListenBroken(args, K) PROVE ParsedListen(args) = {}
    OBVIOUS
  <2>1. CASE Address(args[4], args[5]) = {}
    BY <2>1 DEF ParsedListen
  <2>2. CASE Address(args[4], args[5]) # {}
    BY <1>3, <2>2, Zenon DEF ListenBroken, ParsedListen
  <2> QED BY <2>1, <2>2
<1>5. \A name : LastOption(args, name) = LastNamed(args, K, name)
  BY <1>1, Zenon DEF LastOption, LastNamed, Named
<1>6. \A name : ArgumentOf(args, name) = {args[i + 1] : i \in LastNamed(args, K, name) \ {Len(args)}}
  <2> SUFFICES ASSUME NEW name
               PROVE  ArgumentOf(args, name)
                        = {args[i + 1] : i \in LastNamed(args, K, name) \ {Len(args)}}
    OBVIOUS
  <2>1. {i \in LastNamed(args, K, name) : i < Len(args)}
          = LastNamed(args, K, name) \ {Len(args)}
    <3>1. LastNamed(args, K, name) \subseteq K
      BY DEF LastNamed, Named
    <3>2. \A i \in LastNamed(args, K, name) : i < Len(args) <=> i # Len(args)
      <4>1. \A i \in K : i < Len(args) <=> i # Len(args)
        BY <1>2
      <4> QED BY <3>1, <4>1, Zenon
    <3>3. \A i \in LastNamed(args, K, name) : i < Len(args) <=> i \notin {Len(args)}
      BY <3>2
    <3> QED BY <3>3, Zenon
  <2> QED BY <1>5, <2>1, Zenon DEF ArgumentOf
<1>7. ASSUME ~ ListenBroken(args, K), ListenMeans(args, K, means)
      PROVE  /\ means.kind = "listener" /\ means.value.name = args[1]
             /\ ParsedListen(args) # {}
             /\ \A l \in ParsedListen(args) : ListensFor(l, means)
             /\ means.left \ Unsaid(means) \subseteq {args[i] : i \in Dropped(args)}
  <2> DEFINE filter == {args[i + 1] : i \in LastNamed(args, K, "filter") \ {Len(args)}}
             most == UNION {NumberIn(args[i + 1], U64) : i \in LastNamed(args, K, "maxclients")}
             hidden == Named(args, K, "hidden") # {}
             listener(bind) ==
               [name |-> IF args[1] = NoText THEN Generated(args, bind) ELSE args[1],
                kind |-> Word(args[2]), protocol |-> Word(args[3]), bind |-> bind,
                filter |-> ArgumentOf(args, "filter"),
                max_clients |-> UNION {NumberIn(t, U64) : t \in ArgumentOf(args, "maxclients")},
                hidden |-> LastOption(args, "hidden") # {}]
  <2>1. ParsedListen(args) = {listener(bind) : bind \in Address(args[4], args[5])}
    BY <1>3, <1>7, Zenon DEF ParsedListen, ListenBroken
  <2>2. UNION {NumberIn(t, U64) : t \in ArgumentOf(args, "maxclients")} = most
    <3>1. ~ \E i \in Named(args, K, "maxclients") : i = Len(args)
      BY <1>7, Zenon DEF ListenBroken
    <3>2. LastNamed(args, K, "maxclients") \ {Len(args)} = LastNamed(args, K, "maxclients")
      BY <3>1 DEF LastNamed
    <3>3. ArgumentOf(args, "maxclients") = {args[i + 1] : i \in LastNamed(args, K, "maxclients")}
      BY <1>6, <3>2
    <3> QED BY <3>3
  <2>3. (LastOption(args, "hidden") # {}) = hidden
    <3>1. LastOption(args, "hidden") = LastNamed(args, K, "hidden")
      BY <1>5
    <3>2. ASSUME Named(args, K, "hidden") # {} PROVE LastNamed(args, K, "hidden") # {}
      <4>1. Named(args, K, "hidden") \in SUBSET (1 .. Len(args)) /\ Len(args) \in Nat
        <5>1. Named(args, K, "hidden") \subseteq K
          BY DEF Named
        <5>2. K \subseteq 1 .. Len(args)
          BY <1>2
        <5>3. Len(args) \in Nat
          OBVIOUS
        <5> QED BY <5>1, <5>2, <5>3, Zenon
      <4>2. PICK i \in Named(args, K, "hidden") : \A j \in Named(args, K, "hidden") : j <= i
        BY <3>2, <4>1, OneIsLast
      <4> QED BY <4>2, Zenon DEF LastNamed
    <3>3. Named(args, K, "hidden") = {} => LastNamed(args, K, "hidden") = {}
      BY DEF LastNamed
    <3> QED BY <3>1, <3>2, <3>3
  <2>4. /\ means.kind = "listener"
        /\ \E bind \in Address(args[4], args[5]) :
             means.value = [name |-> args[1], kind |-> Word(args[2]), protocol |-> Word(args[3]),
                            bind |-> bind, filter |-> filter, max_clients |-> most,
                            hidden |-> hidden]
        /\ means.left =
             {args[i] : i \in {i \in K :
                                 \/ Option(args, i) \notin {"hidden", "filter", "maxclients"}
                                 \/ Option(args, i) = "filter" /\ i = Len(args)}}
    BY <1>7, Zenon DEF ListenMeans
  <2>5. PICK meant \in Address(args[4], args[5]) :
          means.value = [name |-> args[1], kind |-> Word(args[2]), protocol |-> Word(args[3]),
                         bind |-> meant, filter |-> filter, max_clients |-> most,
                         hidden |-> hidden]
    BY <2>4
  <2>6. ASSUME NEW token \in means.left \ Unsaid(means)
        PROVE  token \in {args[i] : i \in Dropped(args)}
    <3>1. PICK i \in K : /\ token = args[i]
                        /\ \/ Option(args, i) \notin {"hidden", "filter", "maxclients"}
                           \/ Option(args, i) = "filter"
      BY <2>4, <2>6, Zenon
    <3>2. Option(args, i) # "filter"
      <4>1. token \in means.left /\ token \notin Unsaid(means)
        BY <2>6
      <4>2. Lower(Word(token)) # "filter"
        BY <2>4, <4>1, Zenon DEF Unsaid
      <4> QED BY <3>1, <4>2, Zenon DEF Option
    <3>3. i \in Dropped(args)
      BY <1>1, <3>1, <3>2, Zenon DEF Dropped
    <3> QED BY <3>1, <3>3, Zenon
  <2>7. Address(args[4], args[5]) = {meant}
    BY <2>5, OneAddress
  <2>8. ArgumentOf(args, "filter") = filter
    BY <1>6, Zenon
  <2>9. listener(meant) = [name |-> IF args[1] = NoText THEN Generated(args, meant) ELSE args[1],
                           kind |-> Word(args[2]), protocol |-> Word(args[3]), bind |-> meant,
                           filter |-> filter, max_clients |-> most, hidden |-> hidden]
    BY <2>2, <2>3, <2>8, Zenon
  <2> HIDE DEF listener, filter, most, hidden
  <2>10. ParsedListen(args) = {listener(meant)}
    BY <2>1, <2>7
  <2>11. ListensFor(listener(meant), means)
    <3>1. means.value.name = args[1]
      BY <2>5
    <3>2. [listener(meant) EXCEPT !.name = NoText] = [means.value EXCEPT !.name = NoText]
      BY <2>5, <2>9
    <3>3. args[1] # NoText => listener(meant).name = args[1]
      BY <2>9
    <3> QED BY <3>1, <3>2, <3>3 DEF ListensFor
  <2>12. means.value.name = args[1]
    BY <2>5
  <2> QED BY <2>4, <2>6, <2>10, <2>11, <2>12
<1> QED BY <1>4, <1>7, Zenon

(* The quotes, the tokens and the places in them, a piece further.         *)
LEMMA PieceFurther ==
  ASSUME NEW raw, NEW i \in Nat
  PROVE  /\ ~ Quoted(raw, 0) /\ Turn(raw, 0) = 0 /\ \A k : Place(raw, k, 0) = 0
         /\ Turn(raw, i) \in Nat /\ \A k : Place(raw, k, i) \in Nat
         /\ Quoted(raw, i + 1) <=> (raw[i + 1] = Quote <=> ~ Quoted(raw, i))
         /\ Turn(raw, i + 1) = IF InToken(raw, i + 1) /\ (i > 0 => ~ InToken(raw, i))
                               THEN Turn(raw, i) + 1 ELSE Turn(raw, i)
         /\ \A k : Place(raw, k, i + 1) =
              IF InToken(raw, i + 1) /\ raw[i + 1] # Quote /\ Turn(raw, i + 1) = k
              THEN Place(raw, k, i) + 1 ELSE Place(raw, k, i)
<1> DEFINE Q == {j \in Nat : raw[j] = Quote}
           S == {j \in Nat : InToken(raw, j) /\ (j > 1 => ~ InToken(raw, j - 1))}
           P(k) == {j \in Nat : InToken(raw, j) /\ raw[j] # Quote /\ Turn(raw, j) = k}
<1>1. i + 1 \in Nat /\ \A m \in Nat : 1 .. m \subseteq Nat
  OBVIOUS
<1>2. ASSUME NEW m \in Nat
      PROVE  /\ {j \in 1 .. m : raw[j] = Quote} = {j \in 1 .. m : j \in Q}
             /\ {j \in 1 .. m : InToken(raw, j) /\ (j > 1 => ~ InToken(raw, j - 1))}
                  = {j \in 1 .. m : j \in S}
             /\ \A k : {j \in 1 .. m : InToken(raw, j) /\ raw[j] # Quote /\ Turn(raw, j) = k}
                         = {j \in 1 .. m : j \in P(k)}
  BY <1>1, Zenon
<1>3. ASSUME NEW m \in Nat
      PROVE  /\ Quoted(raw, m) <=> UpToIn(Q, m) % 2 = 1
             /\ Turn(raw, m) = UpToIn(S, m)
             /\ \A k : Place(raw, k, m) = UpToIn(P(k), m)
  BY <1>2, Zenon DEF Quoted, Turn, Place, UpToIn
<1>4. /\ i + 1 \in Q <=> raw[i + 1] = Quote
      /\ i + 1 \in S <=> InToken(raw, i + 1) /\ (i > 0 => ~ InToken(raw, i))
      /\ \A k : i + 1 \in P(k) <=>
           InToken(raw, i + 1) /\ raw[i + 1] # Quote /\ Turn(raw, i + 1) = k
  <2>1. (i + 1) - 1 = i /\ (i + 1 > 1 <=> i > 0)
    OBVIOUS
  <2> QED BY <1>1, <2>1, Zenon
<1> HIDE DEF Q, S, P
<1>5. ~ Quoted(raw, 0) /\ Turn(raw, 0) = 0 /\ \A k : Place(raw, k, 0) = 0
  <2>1. /\ UpToIn(Q, 0) = 0 /\ UpToIn(S, 0) = 0 /\ \A k : UpToIn(P(k), 0) = 0
    BY InCounted
  <2> QED BY <1>3, <2>1
<1>6. Quoted(raw, i + 1) <=> (raw[i + 1] = Quote <=> ~ Quoted(raw, i))
  <2>1. /\ UpToIn(Q, i) \in Nat
        /\ UpToIn(Q, i + 1) = IF i + 1 \in Q THEN UpToIn(Q, i) + 1 ELSE UpToIn(Q, i)
    BY InCounted
  <2>2. Quoted(raw, i + 1) <=> UpToIn(Q, i + 1) % 2 = 1
    BY <1>1, <1>3
  <2>3. Quoted(raw, i) <=> UpToIn(Q, i) % 2 = 1
    BY <1>3
  <2>4. \A c \in Nat : (c + 1) % 2 = 1 <=> ~ (c % 2 = 1)
    OBVIOUS
  <2> QED BY <1>4, <2>1, <2>2, <2>3, <2>4
<1>7. /\ Turn(raw, i) \in Nat
      /\ Turn(raw, i + 1) = IF InToken(raw, i + 1) /\ (i > 0 => ~ InToken(raw, i))
                            THEN Turn(raw, i) + 1 ELSE Turn(raw, i)
  <2>1. /\ UpToIn(S, i) \in Nat
        /\ UpToIn(S, i + 1) = IF i + 1 \in S THEN UpToIn(S, i) + 1 ELSE UpToIn(S, i)
    BY InCounted
  <2>2. Turn(raw, i) = UpToIn(S, i) /\ Turn(raw, i + 1) = UpToIn(S, i + 1)
    BY <1>1, <1>3
  <2> QED BY <1>4, <2>1, <2>2, Zenon
<1>8. ASSUME NEW k
      PROVE  /\ Place(raw, k, i) \in Nat
             /\ Place(raw, k, i + 1) =
                  IF InToken(raw, i + 1) /\ raw[i + 1] # Quote /\ Turn(raw, i + 1) = k
                  THEN Place(raw, k, i) + 1 ELSE Place(raw, k, i)
  <2>1. /\ UpToIn(P(k), i) \in Nat
        /\ UpToIn(P(k), i + 1) = IF i + 1 \in P(k) THEN UpToIn(P(k), i) + 1
                                                   ELSE UpToIn(P(k), i)
    BY InCounted
  <2>2. Place(raw, k, i) = UpToIn(P(k), i) /\ Place(raw, k, i + 1) = UpToIn(P(k), i + 1)
    BY <1>1, <1>3
  <2> QED BY <1>4, <2>1, <2>2, Zenon
<1> QED BY <1>5, <1>6, <1>7, <1>8, Zenon

-----------------------------------------------------------------------------
(* What tokenize knows of a line, piece by piece.                          *)

(* A word is the beginning of a token, as far as the first i pieces go.    *)
Begun(raw, tokens, k, i, word) ==
  /\ Len(word) = Place(raw, k, i)
  /\ \A y \in 1 .. Len(word) : word[y] = tokens[k][y]

ScanShape ==
  [tokens : Seq(Seq(STRING)), current : Seq(STRING),
   open : BOOLEAN, quoted : BOOLEAN, comment : BOOLEAN]

Closed(raw, i) == IF i > 0 /\ InToken(raw, i) THEN Turn(raw, i) - 1 ELSE Turn(raw, i)

(* What tokenize knows behind the i-th piece, if no comment began.         *)
Told(raw, tokens, i, scan) ==
  /\ scan \in ScanShape
  /\ ~ scan.comment /\ (scan.quoted <=> Quoted(raw, i))
  /\ scan.open <=> i > 0 /\ InToken(raw, i)
  /\ Len(scan.tokens) = Closed(raw, i)
  /\ \A k \in 1 .. Closed(raw, i) : Begun(raw, tokens, k, i, scan.tokens[k])
  /\ scan.open => Begun(raw, tokens, Turn(raw, i), i, scan.current)
  /\ ~ scan.open => scan.current = <<>>
  /\ \A k \in Nat : k > Turn(raw, i) => Place(raw, k, i) = 0

(* Whether a quote is open it knows of any line.                           *)
Marked(raw, i, scan) ==
  scan \in ScanShape /\ ~ scan.comment /\ (scan.quoted <=> Quoted(raw, i))

(* A piece further it knows it still.                                      *)
LEMMA MarkedFurther ==
  ASSUME NEW raw \in Seq(STRING), NEW i \in Nat, i < Len(raw), NEW scan,
         Marked(raw, i, scan), raw[i + 1] = Hash => Quoted(raw, i + 1)
  PROVE  Marked(raw, i + 1, Scanned(scan, raw[i + 1]))
<1> DEFINE p == raw[i + 1]
           words == Append(scan.tokens, scan.current)
           word == Append(scan.current, p)
<1>1. p \in STRING
  OBVIOUS
<1>2. /\ scan \in ScanShape /\ ~ scan.comment /\ (scan.quoted <=> Quoted(raw, i))
  BY DEF Marked
<1>3. /\ words \in Seq(Seq(STRING)) /\ word \in Seq(STRING) /\ NoText \in Seq(STRING)
  BY <1>1, <1>2 DEF ScanShape, NoText
<1>4. Quoted(raw, i + 1) <=> (p = Quote <=> ~ Quoted(raw, i))
  BY PieceFurther
<1>5. Quote # Hash /\ Quote # Blank /\ Hash # Blank
  BY DEF Quote, Hash, Blank
<1>6. p = Hash => Quoted(raw, i + 1)
  OBVIOUS
<1>7. Ended(scan) = IF scan.open THEN [scan EXCEPT !.tokens = words, !.current = NoText,
                                                   !.open = FALSE]
                                 ELSE scan
  BY Zenon DEF Ended
<1>8. Scanned(scan, p) = IF p = Quote THEN [scan EXCEPT !.quoted = ~ @, !.open = TRUE]
                         ELSE IF p = Blank /\ ~ scan.quoted THEN Ended(scan)
                         ELSE [scan EXCEPT !.current = word, !.open = TRUE]
  BY <1>2, <1>4, <1>5, <1>6, Zenon DEF Scanned
<1> DEFINE next == Scanned(scan, p)
           shaped == next \in ScanShape /\ ~ next.comment
           open == Quoted(raw, i + 1)
<1> HIDE DEF words, word, p, open
<1>9. ASSUME p = Quote PROVE shaped /\ next.quoted = ~ scan.quoted
  <2>1. next = [scan EXCEPT !.quoted = ~ @, !.open = TRUE]
    BY <1>8, <1>9
  <2> HIDE DEF next
  <2> QED BY <1>2, <2>1 DEF ScanShape
<1>10. ASSUME p # Quote, p = Blank /\ ~ scan.quoted PROVE shaped /\ next.quoted = scan.quoted
  <2>1. next = IF scan.open THEN [scan EXCEPT !.tokens = words, !.current = NoText,
                                              !.open = FALSE]
                            ELSE scan
    BY <1>7, <1>8, <1>10
  <2> HIDE DEF next
  <2> QED BY <1>2, <1>3, <2>1 DEF ScanShape
<1>11. ASSUME p # Quote, ~ (p = Blank /\ ~ scan.quoted)
       PROVE  shaped /\ next.quoted = scan.quoted
  <2>1. next = [scan EXCEPT !.current = word, !.open = TRUE]
    BY <1>8, <1>11
  <2> HIDE DEF next
  <2> QED BY <1>2, <1>3, <2>1 DEF ScanShape
<1>12. shaped /\ (next.quoted <=> open)
  <2>1. open <=> (p = Quote <=> ~ scan.quoted)
    BY <1>2, <1>4, Zenon DEF open
  <2>2. scan.quoted \in BOOLEAN
    BY <1>2 DEF ScanShape
  <2> HIDE DEF next
  <2> QED BY <1>9, <1>10, <1>11, <2>1, <2>2
<1> QED BY <1>12, Zenon DEF Marked, p, open

(* A piece further it knows it of that piece too.                          *)
LEMMA ToldFurther ==
  ASSUME NEW raw \in Seq(STRING), NEW tokens, NEW i \in Nat, i < Len(raw), NEW scan,
         Told(raw, tokens, i, scan),
         raw[i + 1] = Hash => Quoted(raw, i + 1),
         InToken(raw, i + 1) /\ raw[i + 1] # Quote =>
           tokens[Turn(raw, i + 1)][Place(raw, Turn(raw, i + 1), i + 1)] = raw[i + 1]
  PROVE  Told(raw, tokens, i + 1, Scanned(scan, raw[i + 1]))
<1> DEFINE p == raw[i + 1]
           n == Turn(raw, i)
           m == Turn(raw, i + 1)
           next == Scanned(scan, p)
           place(k) == Place(raw, k, i)
           further(k) == Place(raw, k, i + 1)
           begun(k, word) == Begun(raw, tokens, k, i, word)
           goesOn(k, word) == Begun(raw, tokens, k, i + 1, word)
           in == InToken(raw, i + 1)
           open == scan.open
<1>1. /\ i + 1 > 0 /\ p \in STRING /\ i + 1 \in 1 .. Len(raw)
  OBVIOUS
<1>2. /\ scan \in ScanShape /\ ~ scan.comment /\ (scan.quoted <=> Quoted(raw, i))
      /\ open <=> i > 0 /\ InToken(raw, i)
      /\ Len(scan.tokens) = (IF open THEN n - 1 ELSE n)
      /\ \A k \in 1 .. (IF open THEN n - 1 ELSE n) : begun(k, scan.tokens[k])
      /\ open => begun(n, scan.current)
      /\ ~ open => scan.current = <<>>
      /\ \A k \in Nat : k > n => place(k) = 0
  BY Zenon DEF Told, Closed
<1>3. /\ n \in Nat /\ \A k : place(k) \in Nat
      /\ Quoted(raw, i + 1) <=> (p = Quote <=> ~ Quoted(raw, i))
      /\ m = IF in /\ ~ open THEN n + 1 ELSE n
      /\ \A k : further(k) = IF in /\ p # Quote /\ m = k THEN place(k) + 1 ELSE place(k)
  <2>1. in /\ (i > 0 => ~ InToken(raw, i)) <=> in /\ ~ open
    BY <1>2
  <2> QED BY <2>1, PieceFurther, Zenon
<1>4. in <=> (p = Blank => Quoted(raw, i + 1))
  BY DEF InToken
<1>5. Quote # Hash /\ Quote # Blank /\ Hash # Blank
  BY DEF Quote, Hash, Blank
<1>6. /\ scan.tokens \in Seq(Seq(STRING)) /\ scan.current \in Seq(STRING)
      /\ scan.open \in BOOLEAN /\ scan.quoted \in BOOLEAN /\ scan.comment = FALSE
  BY <1>2 DEF ScanShape
<1>7. \A k, word : begun(k, word) <=> /\ Len(word) = place(k)
                                     /\ \A y \in 1 .. Len(word) : word[y] = tokens[k][y]
  BY Zenon DEF Begun
<1>8. \A k, word : goesOn(k, word) <=> /\ Len(word) = further(k)
                                      /\ \A y \in 1 .. Len(word) : word[y] = tokens[k][y]
  BY Zenon DEF Begun
<1>9. /\ raw[i + 1] = Hash => Quoted(raw, i + 1)
      /\ in /\ p # Quote => tokens[m][further(m)] = p
  BY Zenon
<1>10. SUFFICES /\ next \in ScanShape /\ ~ next.comment
                /\ next.quoted <=> Quoted(raw, i + 1)
                /\ next.open <=> in
                /\ Len(next.tokens) = (IF in THEN m - 1 ELSE m)
                /\ \A k \in 1 .. (IF in THEN m - 1 ELSE m) : goesOn(k, next.tokens[k])
                /\ next.open => goesOn(m, next.current)
                /\ ~ next.open => next.current = <<>>
                /\ \A k \in Nat : k > m => further(k) = 0
  <2>1. (i + 1 > 0 /\ in) <=> in
    BY <1>1
  <2> QED BY <2>1, Zenon DEF Told, Closed
<1> HIDE DEF n, m, place, further, begun, goesOn, in, next
<1>11. \A k \in Nat : k > m => further(k) = 0
  BY <1>2, <1>3
<1>12. CASE p = Quote
  <2>1. next = [scan EXCEPT !.quoted = ~ @, !.open = TRUE]
    BY <1>2, <1>12, Zenon DEF Scanned, next
  <2>2. /\ next \in ScanShape /\ next.tokens = scan.tokens /\ next.current = scan.current
        /\ next.open = TRUE /\ next.quoted = ~ scan.quoted /\ next.comment = FALSE
    BY <1>2, <1>6, <2>1 DEF ScanShape
  <2>3. in /\ \A k : further(k) = place(k)
    BY <1>3, <1>4, <1>5, <1>12
  <2>4. m - 1 = IF open THEN n - 1 ELSE n
    BY <1>3, <2>3
  <2>5. \A k, word : goesOn(k, word) <=> begun(k, word)
    BY <1>7, <1>8, <2>3, Zenon
  <2>6. goesOn(m, next.current)
    <3>1. CASE open
      BY <1>2, <1>3, <2>2, <2>5, <3>1
    <3>2. CASE ~ open
      <4>1. m \in Nat /\ m > n
        BY <1>3, <2>3, <3>2
      <4>2. place(m) = 0 /\ scan.current = <<>>
        BY <1>2, <3>2, <4>1
      <4>3. Len(next.current) = 0 /\ 1 .. 0 = {}
        BY <2>2, <4>2
      <4> QED BY <1>8, <2>3, <4>2, <4>3
    <3> QED BY <3>1, <3>2
  <2>7. /\ Len(next.tokens) = m - 1
        /\ \A k \in 1 .. m - 1 : goesOn(k, next.tokens[k])
    BY <1>2, <2>2, <2>4, <2>5
  <2>8. next.quoted <=> Quoted(raw, i + 1)
    BY <1>2, <1>3, <1>6, <1>12, <2>2
  <2> QED BY <1>11, <2>2, <2>3, <2>6, <2>7, <2>8
<1>13. CASE p = Blank /\ ~ scan.quoted
  <2>1. next = Ended(scan)
    BY <1>2, <1>5, <1>13, Zenon DEF Scanned, next
  <2>2. ~ in /\ m = n /\ (Quoted(raw, i + 1) <=> scan.quoted)
    BY <1>2, <1>3, <1>4, <1>5, <1>13
  <2>3. \A k : further(k) = place(k)
    BY <1>3, <2>2
  <2>4. \A k, word : goesOn(k, word) <=> begun(k, word)
    BY <1>7, <1>8, <2>3, Zenon
  <2>5. CASE open
    <3>1. next = [scan EXCEPT !.tokens = Append(@, scan.current), !.current = NoText,
                              !.open = FALSE]
      BY <2>1, <2>5, Zenon DEF Ended
    <3> DEFINE more == Append(scan.tokens, scan.current)
    <3>a. more \in Seq(Seq(STRING)) /\ NoText \in Seq(STRING)
      BY <1>6 DEF NoText
    <3>b. next = [scan EXCEPT !.tokens = more, !.current = NoText, !.open = FALSE]
      BY <3>1
    <3> HIDE DEF more
    <3>2. /\ next \in ScanShape /\ next.tokens = more
          /\ next.current = NoText /\ next.open = FALSE /\ next.quoted = scan.quoted
          /\ next.comment = FALSE
      BY <1>2, <1>6, <3>a, <3>b DEF ScanShape
    <3> USE DEF more
    <3>3. /\ Len(next.tokens) = n /\ next.tokens[n] = scan.current
          /\ \A k \in 1 .. n - 1 : next.tokens[k] = scan.tokens[k]
      BY <1>2, <1>3, <1>6, <2>5, <3>2
    <3>4. \A k \in 1 .. n : goesOn(k, next.tokens[k])
      <4>1. \A k \in 1 .. n - 1 : begun(k, scan.tokens[k]) /\ begun(n, scan.current)
        BY <1>2, <2>5
      <4>2. ASSUME NEW k \in 1 .. n PROVE goesOn(k, next.tokens[k])
        <5>1. CASE k = n
          <6>1. begun(n, scan.current)
            BY <1>2, <2>5, Zenon
          <6> QED BY <2>4, <3>3, <5>1, <6>1, Zenon
        <5>2. CASE k # n
          <6>1. k \in 1 .. n - 1
            BY <1>3, <5>2
          <6> QED BY <2>4, <3>3, <4>1, <6>1, Zenon
        <5> QED BY <5>1, <5>2
      <4> QED BY <4>2
    <3>5. next.current = <<>> /\ ~ next.open /\ (IF in THEN m - 1 ELSE m) = n
      BY <2>2, <3>2 DEF NoText
    <3>6. next.quoted <=> Quoted(raw, i + 1)
      BY <2>2, <3>2
    <3> QED BY <1>11, <2>2, <3>2, <3>3, <3>4, <3>5, <3>6, Zenon
  <2>6. CASE ~ open
    <3>1. next = scan
      BY <2>1, <2>6, Zenon DEF Ended
    <3> QED BY <1>2, <1>11, <2>2, <2>4, <2>6, <3>1
  <2> QED BY <2>5, <2>6
<1>14. CASE p # Quote /\ ~ (p = Blank /\ ~ scan.quoted)
  <2>1. (Quoted(raw, i + 1) <=> scan.quoted) /\ in /\ ~ (p = Hash /\ ~ scan.quoted)
    BY <1>2, <1>3, <1>4, <1>9, <1>14
  <2>2. next = [scan EXCEPT !.current = Append(@, p), !.open = TRUE]
    BY <1>2, <1>14, <2>1, Zenon DEF Scanned, next
  <2>3. /\ next \in ScanShape /\ next.tokens = scan.tokens
        /\ next.current = Append(scan.current, p)
        /\ next.open = TRUE /\ next.quoted = scan.quoted /\ next.comment = FALSE
    <3> DEFINE more == Append(scan.current, p)
    <3>1. more \in Seq(STRING) /\ next = [scan EXCEPT !.current = more, !.open = TRUE]
      BY <1>1, <1>6, <2>2
    <3> HIDE DEF more
    <3>2. /\ next \in ScanShape /\ next.tokens = scan.tokens /\ next.current = more
          /\ next.open = TRUE /\ next.quoted = scan.quoted /\ next.comment = FALSE
      BY <1>2, <1>6, <3>1 DEF ScanShape
    <3> QED BY <3>2 DEF more
  <2>4. m - 1 = (IF open THEN n - 1 ELSE n) /\ m \in Nat
    BY <1>3, <2>1
  <2>5. further(m) = place(m) + 1 /\ \A k : k # m => further(k) = place(k)
    BY <1>3, <1>14, <2>1
  <2>6. /\ Len(next.tokens) = m - 1
        /\ \A k \in 1 .. m - 1 : goesOn(k, next.tokens[k])
    <3>1. Len(next.tokens) = m - 1 /\ \A k \in 1 .. m - 1 : begun(k, next.tokens[k])
      BY <1>2, <2>3, <2>4
    <3>2. \A k \in 1 .. m - 1 : k # m
      BY <2>4
    <3> QED BY <1>7, <1>8, <2>5, <3>1, <3>2
  <2>7. /\ Len(scan.current) = place(m)
        /\ \A y \in 1 .. Len(scan.current) : scan.current[y] = tokens[m][y]
    <3>1. CASE open
      <4>1. m = n
        BY <2>4, <3>1, <1>3
      <4> QED BY <1>2, <1>7, <3>1, <4>1
    <3>2. CASE ~ open
      <4>1. m > n
        BY <1>3, <2>4, <3>2
      <4> QED BY <1>2, <2>4, <3>2, <4>1
    <3> QED BY <3>1, <3>2
  <2>8. goesOn(m, next.current)
    <3>1. Len(next.current) = further(m)
      BY <1>1, <1>6, <2>3, <2>5, <2>7
    <3>2. next.current[further(m)] = p
      BY <1>1, <1>6, <2>3, <2>5, <2>7
    <3>3. \A y \in 1 .. Len(scan.current) : next.current[y] = scan.current[y]
      BY <1>1, <1>6, <2>3
    <3>4. ASSUME NEW y \in 1 .. Len(next.current) PROVE next.current[y] = tokens[m][y]
      <4>1. y = further(m) \/ y \in 1 .. Len(scan.current)
        BY <1>3, <2>5, <2>7, <3>1
      <4> QED BY <1>9, <1>14, <2>1, <2>7, <3>2, <3>3, <4>1
    <3> QED BY <1>8, <3>1, <3>4
  <2> QED BY <1>11, <2>1, <2>3, <2>6, <2>8
<1> QED BY <1>12, <1>13, <1>14

(* A line is split into the tokens it spells, or is not terminated: the    *)
(* scan of tokenize against the grammar of quotes, blanks and comments.    *)
LEMMA TokensRead ==
  ASSUME NEW raw \in Seq(STRING), NEW tokens, LineSpells(raw, tokens)
  PROVE  Tokens(raw) = tokens
<1> DEFINE turn(f, i) == IF i = 0 THEN NoTokens ELSE Scanned(f[i - 1], raw[i])
           table(f) == f = [i \in 0 .. Len(raw) |-> turn(f, i)]
           scan == CHOOSE f : table(f)
           end == scan[Len(raw)]
<1>1. Len(raw) \in Nat /\ \A i \in 1 .. Len(raw) : i - 1 \in 0 .. Len(raw)
  OBVIOUS
<1>2. \E f : table(f)
  <2> DEFINE upTo(f, k) == f = [i \in 0 .. k |-> turn(f, i)]
             S == {k \in 0 .. Len(raw) : \E f : upTo(f, k)}
  <2>1. 0 \in S
    <3>1. upTo([i \in 0 .. 0 |-> NoTokens], 0)
      OBVIOUS
    <3>2. 0 \in 0 .. Len(raw)
      BY <1>1
    <3> HIDE DEF upTo
    <3> QED BY <3>1, <3>2
  <2>2. ASSUME NEW k \in Nat, k \in S, k < Len(raw) PROVE k + 1 \in S
    <3>1. PICK f : upTo(f, k)
      BY <2>2
    <3> DEFINE g == [i \in 0 .. k + 1 |-> IF i = k + 1 THEN Scanned(f[k], raw[i]) ELSE f[i]]
    <3>2. ASSUME NEW i \in 0 .. k + 1 PROVE g[i] = turn(g, i)
      <4>1. CASE i = k + 1
        <5>1. k \in 0 .. k + 1 /\ k # k + 1 /\ i # 0 /\ i - 1 = k
          BY <4>1
        <5>2. g[k] = f[k] /\ g[i] = Scanned(f[k], raw[i])
          BY <4>1, <5>1
        <5> QED BY <5>1, <5>2
      <4>2. CASE i # k + 1
        <5>1. i \in 0 .. k /\ (i # 0 => i - 1 \in 0 .. k + 1 /\ i - 1 # k + 1)
          BY <4>2
        <5>2. f[i] = turn(f, i)
          BY <3>1, <5>1, Zenon
        <5>3. g[i] = f[i] /\ (i # 0 => g[i - 1] = f[i - 1])
          BY <4>2, <5>1
        <5> QED BY <5>2, <5>3, Zenon
      <4> QED BY <4>1, <4>2
    <3>3. upTo(g, k + 1)
      <4> HIDE DEF turn
      <4>1. [i \in 0 .. k + 1 |-> turn(g, i)] = [i \in 0 .. k + 1 |-> g[i]]
        BY <3>2, Zenon
      <4>2. g = [i \in 0 .. k + 1 |-> g[i]]
        OBVIOUS
      <4> QED BY <4>1, <4>2, Zenon
    <3>4. k + 1 \in 0 .. Len(raw)
      BY <1>1, <2>2
    <3> HIDE DEF g, upTo
    <3> QED BY <3>3, <3>4
  <2> HIDE DEF upTo
  <2>3. 0 .. Len(raw) \subseteq S
    <3> HIDE DEF S
    <3> QED BY <1>1, <2>1, <2>2, UpTo
  <2>4. \E f : upTo(f, Len(raw))
    BY <1>1, <2>3
  <2> QED BY <2>4, Zenon DEF upTo
<1> HIDE DEF table, scan
<1>3. table(scan)
  BY <1>2, Zenon DEF scan
<1>4. /\ scan[0] = NoTokens
      /\ \A i \in Nat : i < Len(raw) => scan[i + 1] = Scanned(scan[i], raw[i + 1])
  <2>1. \A i \in 0 .. Len(raw) : scan[i] = turn(scan, i)
    BY <1>3, Zenon DEF table
  <2>2. 0 \in 0 .. Len(raw)
    BY <1>1
  <2>3. ASSUME NEW i \in Nat, i < Len(raw)
        PROVE  i + 1 \in 0 .. Len(raw) /\ i + 1 # 0 /\ (i + 1) - 1 = i
    BY <1>1, <2>3
  <2> HIDE DEF scan
  <2> QED BY <2>1, <2>2, <2>3, Zenon
<1>5. Tokens(raw) = IF end.quoted THEN {} ELSE {Ended(end).tokens}
  BY Zenon DEF Tokens, scan, table
<1>6. PICK last \in 0 .. Len(raw) :
        /\ \A i \in 1 .. last : raw[i] = Hash => Quoted(raw, i)
        /\ last < Len(raw) => raw[last + 1] = Hash /\ ~ Quoted(raw, last + 1)
        /\ IF Quoted(raw, last) THEN tokens = {}
           ELSE \E spelled \in tokens : tokens = {spelled} /\ SpelledBy(raw, last, spelled)
  BY Zenon DEF LineSpells
<1> HIDE DEF turn
<1>l. last \in Nat /\ last <= Len(raw) /\ last \in 0 .. Len(raw)
  BY <1>1
(* Up to the comment it knows what the grammar has.                        *)
<1>7. ASSUME NEW t
      PROVE  /\ Marked(raw, last, scan[last])
             /\ (\A i \in 1 .. last : InToken(raw, i) /\ raw[i] # Quote =>
                   t[Turn(raw, i)][Place(raw, Turn(raw, i), i)] = raw[i])
                  => Told(raw, t, last, scan[last])
  <2> DEFINE spells == \A i \in 1 .. last : InToken(raw, i) /\ raw[i] # Quote =>
                         t[Turn(raw, i)][Place(raw, Turn(raw, i), i)] = raw[i]
             S == {i \in 0 .. last : /\ Marked(raw, i, scan[i])
                                     /\ spells => Told(raw, t, i, scan[i])}
  <2>1. 0 \in S
    <3>1. /\ ~ Quoted(raw, 0) /\ Turn(raw, 0) = 0 /\ \A k : Place(raw, k, 0) = 0
      BY PieceFurther
    <3>2. Closed(raw, 0) = 0
      BY <3>1 DEF Closed
    <3>3. NoTokens \in ScanShape
      BY DEF NoTokens, NoText, ScanShape
    <3>4. Told(raw, t, 0, NoTokens)
      BY <3>1, <3>2, <3>3 DEF Told, NoTokens, NoText
    <3>5. Marked(raw, 0, NoTokens)
      BY <3>1, <3>3 DEF Marked, NoTokens
    <3>6. 0 \in 0 .. last
      BY <1>l
    <3> QED BY <1>4, <3>4, <3>5, <3>6, Zenon
  <2>2. ASSUME NEW i \in Nat, i \in S, i < last PROVE i + 1 \in S
    <3>1. /\ i < Len(raw) /\ i + 1 \in 1 .. last /\ i + 1 \in 0 .. last
      BY <1>1, <1>l, <2>2
    <3>2. raw[i + 1] = Hash => Quoted(raw, i + 1)
      BY <1>6, <3>1, Zenon
    <3>3. Marked(raw, i, scan[i]) /\ (spells => Told(raw, t, i, scan[i]))
      BY <2>2
    <3>4. Marked(raw, i + 1, Scanned(scan[i], raw[i + 1]))
      BY <2>2, <3>1, <3>2, <3>3, MarkedFurther
    <3>5. ASSUME spells PROVE Told(raw, t, i + 1, Scanned(scan[i], raw[i + 1]))
      <4>1. InToken(raw, i + 1) /\ raw[i + 1] # Quote =>
              t[Turn(raw, i + 1)][Place(raw, Turn(raw, i + 1), i + 1)] = raw[i + 1]
        BY <3>1, <3>5, Zenon
      <4> HIDE DEF spells
      <4> QED BY <2>2, <3>1, <3>2, <3>3, <3>5, <4>1, ToldFurther
    <3>6. scan[i + 1] = Scanned(scan[i], raw[i + 1])
      BY <1>4, <2>2, <3>1, Zenon
    <3> QED BY <3>1, <3>4, <3>5, <3>6, Zenon
  <2> HIDE DEF S
  <2>3. 0 .. last \subseteq S
    BY <1>l, <2>1, <2>2, UpTo
  <2>4. last \in S
    BY <1>l, <2>3
  <2> QED BY <2>4 DEF S
(* Behind its # nothing of a comment is read.                              *)
<1>8. /\ end.quoted = scan[last].quoted /\ end.tokens = scan[last].tokens
      /\ end.current = scan[last].current /\ end.open = scan[last].open
      /\ end \in ScanShape /\ (end.quoted <=> Quoted(raw, last))
  <2>0. /\ scan[last] \in ScanShape /\ ~ scan[last].comment
        /\ scan[last].quoted <=> Quoted(raw, last)
    BY <1>7 DEF Marked
  <2>1. CASE last = Len(raw)
    BY <2>0, <2>1 DEF ScanShape
  <2>2. CASE last < Len(raw)
    <3> DEFINE begun == [scan[last] EXCEPT !.comment = TRUE]
               S == {i \in 0 .. Len(raw) : i > last => scan[i] = begun}
    <3>1. scan[last + 1] = begun
      <4>1. scan[last + 1] = Scanned(scan[last], raw[last + 1])
        BY <1>4, <1>6, <1>l, <2>2
      <4>2. raw[last + 1] = Hash /\ ~ Quoted(raw, last + 1) /\ last \in Nat
        BY <1>6, <1>l, <2>2
      <4>3. Quote # Hash
        BY DEF Quote, Hash
      <4>4. ~ Quoted(raw, last)
        BY <4>2, <4>3, PieceFurther
      <4>5. ~ scan[last].quoted
        BY <2>0, <4>4
      <4> QED BY <2>0, <4>1, <4>2, <4>3, <4>5, Zenon DEF Scanned
    <3>2. begun.comment = TRUE
      BY <2>0 DEF ScanShape
    <3> HIDE DEF begun
    <3>3. 0 \in S
      BY <1>1, <1>6, <1>l
    <3>4. ASSUME NEW i \in Nat, i \in S, i < Len(raw) PROVE i + 1 \in S
      <4>1. CASE i = last
        BY <1>1, <3>1, <3>4, <4>1
      <4>2. CASE i < last
        BY <1>1, <1>6, <1>l, <3>4, <4>2
      <4>3. CASE i > last
        <5>1. scan[i] = begun
          BY <3>4, <4>3
        <5>2. scan[i + 1] = Scanned(begun, raw[i + 1])
          BY <1>4, <3>4, <5>1, Zenon
        <5>3. scan[i + 1] = begun
          BY <3>2, <5>2, Zenon DEF Scanned
        <5> QED BY <1>1, <3>4, <5>3
      <4> QED BY <1>6, <1>l, <4>1, <4>2, <4>3
    <3> HIDE DEF S
    <3>5. 0 .. Len(raw) \subseteq S
      BY <1>1, <3>3, <3>4, UpTo
    <3>6. Len(raw) \in S
      BY <1>1, <3>5
    <3>7. end = begun
      BY <2>2, <3>6 DEF S
    <3> QED BY <2>0, <3>7 DEF begun, ScanShape
  <2> QED BY <1>l, <2>1, <2>2
<1> HIDE DEF end
<1>9. CASE Quoted(raw, last)
  BY <1>5, <1>6, <1>8, <1>9, Zenon
<1>10. CASE ~ Quoted(raw, last)
  <2>1. PICK t \in tokens : tokens = {t} /\ SpelledBy(raw, last, t)
    BY <1>6, <1>10, Zenon
  <2>2. Told(raw, t, last, scan[last])
    BY <1>7, <2>1, Zenon DEF SpelledBy
  <2>3. ~ end.quoted
    BY <1>8, <1>10
  <2> DEFINE n == Turn(raw, last)
             read == Ended(end).tokens
  <2>4. /\ end.tokens \in Seq(Seq(STRING)) /\ end.current \in Seq(STRING)
        /\ n \in Nat
    <3>1. n \in Nat
      BY <1>l, PieceFurther
    <3> QED BY <1>8, <3>1 DEF ScanShape
  <2>5. /\ Len(end.tokens) = (IF end.open THEN n - 1 ELSE n)
        /\ \A k \in 1 .. (IF end.open THEN n - 1 ELSE n) : Begun(raw, t, k, last, end.tokens[k])
        /\ end.open => Begun(raw, t, n, last, end.current)
    <3>1. /\ scan[last].open <=> last > 0 /\ InToken(raw, last)
          /\ Len(scan[last].tokens) = Closed(raw, last)
          /\ \A k \in 1 .. Closed(raw, last) : Begun(raw, t, k, last, scan[last].tokens[k])
          /\ scan[last].open => Begun(raw, t, n, last, scan[last].current)
      BY <2>2, Zenon DEF Told
    <3>2. Closed(raw, last) = IF end.open THEN n - 1 ELSE n
      BY <1>8, <3>1, Zenon DEF Closed
    <3> QED BY <1>8, <3>1, <3>2, Zenon
  <2>6. read = IF end.open THEN Append(end.tokens, end.current) ELSE end.tokens
    BY <1>8 DEF Ended, ScanShape
  <2> HIDE DEF read, n
  <2>7. /\ read \in Seq(Seq(STRING)) /\ Len(read) = n
        /\ \A k \in 1 .. n : Begun(raw, t, k, last, read[k])
    <3>1. CASE end.open
      <4>1. /\ read \in Seq(Seq(STRING)) /\ Len(read) = n /\ read[n] = end.current
            /\ \A k \in 1 .. n - 1 : read[k] = end.tokens[k]
        BY <2>4, <2>5, <2>6, <3>1
      <4>2. ASSUME NEW k \in 1 .. n PROVE Begun(raw, t, k, last, read[k])
        <5>1. CASE k = n
          BY <2>5, <3>1, <4>1, <5>1, Zenon
        <5>2. CASE k # n
          <6>1. k \in 1 .. n - 1
            BY <2>4, <5>2
          <6> QED BY <2>5, <3>1, <4>1, <6>1
        <5> QED BY <5>1, <5>2
      <4> QED BY <4>1, <4>2
    <3>2. CASE ~ end.open
      BY <2>4, <2>5, <2>6, <3>2
    <3> QED BY <3>1, <3>2
  <2>8. /\ t \in Seq(Seq(STRING)) /\ Len(t) = n
        /\ \A k \in DOMAIN t : Len(t[k]) = Place(raw, k, last)
    BY <2>1, Zenon DEF SpelledBy, n
  <2>9. ASSUME NEW k \in 1 .. n PROVE read[k] = t[k]
    <3>1. /\ Len(read[k]) = Len(t[k]) /\ read[k] \in Seq(STRING) /\ t[k] \in Seq(STRING)
          /\ \A y \in 1 .. Len(read[k]) : read[k][y] = t[k][y]
      BY <2>4, <2>7, <2>8 DEF Begun
    <3> DEFINE a == read[k]
               b == t[k]
    <3> HIDE DEF a, b
    <3>2. a \in Seq(STRING) /\ b \in Seq(STRING) /\ Len(a) = Len(b)
          /\ \A y \in 1 .. Len(a) : a[y] = b[y]
      BY <3>1 DEF a, b
    <3>3. a = b
      BY <3>2
    <3> QED BY <3>3 DEF a, b
  <2>10. read = t
    BY <2>7, <2>8, <2>9
  <2> QED BY <1>5, <2>1, <2>3, <2>10, Zenon DEF read
<1> QED BY <1>9, <1>10

(* A list of a configuration grows, the rest stays.                        *)
LEMMA ListGrows ==
  ASSUME NEW c, ConfigShape(c), NEW x
  PROVE  /\ LET d == [c EXCEPT !.listeners = Append(@, x)] IN
            /\ \A k \in KnownKeys : d[k] = c[k]
            /\ d.listeners = Append(c.listeners, x) /\ d.uplinks = c.uplinks
         /\ LET d == [c EXCEPT !.uplinks = Append(@, x)] IN
            /\ \A k \in KnownKeys : d[k] = c[k]
            /\ d.uplinks = Append(c.uplinks, x) /\ d.listeners = c.listeners
BY KeysAre DEF ConfigShape

Warned(about) == [line |-> Len(text) + 1, about |-> about] \in warnings'

(* What the conversion of a line does that means this: its setting, its    *)
(* listener, its uplink or its warning, and nothing else.                  *)
Done(line, means) ==
  /\ outcome = "reading" /\ outcome' = "reading"
  /\ text' = Append(text, line)
  /\ warnings \subseteq warnings'
  /\ \A k \in KnownKeys :
       config'[k] = IF means.kind = "setting" /\ means.key = k THEN means.value ELSE config[k]
  /\ means.kind = "setting" => means.key \in KnownKeys
  /\ IF means.kind = "listener"
       THEN /\ \E l : config'.listeners = Append(config.listeners, l) /\ ListensFor(l, means)
            /\ means.value.name = NoText => Warned(NoText)
       ELSE config'.listeners = config.listeners
  /\ means.kind \in {"setting", "listener", "uplink"} =>
       \A token \in means.left \ Unsaid(means) : Warned(token)
  /\ config'.uplinks = IF means.kind = "uplink" THEN Append(config.uplinks, means.value)
                                                ELSE config.uplinks
  /\ means.kind = "unsupported" => Warned(means.value)

Failed(line, means) ==
  /\ means.kind = "error"
  /\ outcome' \notin {"reading", "converted"}
  /\ text' = Append(text, line) /\ config' = config

(* Only of a Listen is anything that is left out said.                     *)
LEMMA UnsaidAll ==
  ASSUME NEW means, means.kind # "listener" PROVE means.left \ Unsaid(means) = {}
<1>1. Unsaid(means) = means.left
  BY Zenon DEF Unsaid
<1> QED BY <1>1

(* A line is converted to what it means, or it fails and means an error.   *)
LEMMA LineReads ==
  ASSUME ConfigShape(config), text \in Seq(Lines),
         NEW line \in Lines, NEW tokens \in Tokens(line.raw), NEW T, tokens \in Seq(Seq(T)),
         NEW means, LineMeans(tokens, means),
         \/ SkipLine(line, tokens) \/ SetValue(line, tokens) \/ SetStatus(line, tokens)
         \/ AddListener(line, tokens) \/ AddUplink(line, tokens) \/ WarnOf(line, tokens)
  PROVE  Done(line, means) \/ Failed(line, means)
<1> DEFINE args == Tail(tokens)
<1>0. Len(text') = Len(text) + 1 \/ text' # Append(text, line)
  OBVIOUS
<1>n. Len(tokens) \in Nat /\ (tokens # <<>> => args \in Seq(Seq(T)))
  OBVIOUS
<1> HIDE DEF args
<1>1. CASE SkipLine(line, tokens)
  <2>1. /\ outcome = "reading" /\ text' = Append(text, line)
        /\ means.kind = "nothing" /\ UNCHANGED <<config, warnings, outcome>>
    BY <1>1, Zenon DEF SkipLine, Read, LineMeans
  <2> QED BY <2>1 DEF Done
<1>2. CASE SetValue(line, tokens)
  <2>1. /\ outcome = "reading" /\ text' = Append(text, line) /\ tokens # <<>>
        /\ Name(tokens) \in DOMAIN SettingKey /\ SettingMeans(tokens, means)
    BY <1>2, Zenon DEF SetValue, ReadDirective, Read, LineMeans
  <2>2. CASE Len(tokens) # 2 /\ Fail("WrongArgumentCount")
    BY <2>1, <2>2, Zenon DEF SettingMeans, Failed, Fail
  <2>3. CASE Setting(Name(tokens), tokens[2]) = {} /\ Fail("InvalidValue")
    BY <2>1, <2>3, Zenon DEF SettingMeans, Failed, Fail
  <2>4. ASSUME Len(tokens) = 2, NEW value \in Setting(Name(tokens), tokens[2]),
               config' = [config EXCEPT ![SettingKey[Name(tokens)]] = value],
               UNCHANGED <<warnings, outcome>>
        PROVE  Done(line, means)
    <3>1. /\ means.kind = "setting" /\ means.key = SettingKey[Name(tokens)]
          /\ Setting(Name(tokens), tokens[2]) = {means.value}
      BY <2>1, <2>4, Zenon DEF SettingMeans
    <3>2. value = means.value
      BY <2>4, <3>1
    <3>3. means.key \in KnownKeys
      BY <2>1, <3>1, KeysAre DEF SettingKey
    <3>4. /\ \A x \in KnownKeys : config'[x] = IF x = means.key THEN means.value ELSE config[x]
          /\ config'.listeners = config.listeners /\ config'.uplinks = config.uplinks
      <4>1. config' = [config EXCEPT ![means.key] = means.value]
        BY <2>4, <3>1, <3>2, Zenon
      <4> QED BY <3>3, <4>1, KeysAre DEF ConfigShape
    <3>5. \A k \in KnownKeys :
            config'[k] = IF means.kind = "setting" /\ means.key = k
                           THEN means.value ELSE config[k]
      BY <3>1, <3>4, Zenon
    <3>6. means.kind # "listener" /\ means.kind # "uplink" /\ means.kind # "unsupported"
      BY <3>1
    <3>7. means.left \ Unsaid(means) = {}
      BY <3>6, UnsaidAll
    <3> QED BY <2>1, <2>4, <3>3, <3>4, <3>5, <3>6, <3>7, Zenon DEF Done
  <2> QED BY <1>2, <2>2, <2>3, <2>4, Zenon DEF SetValue
<1>3. CASE SetStatus(line, tokens)
  <2> DEFINE bind == Address(IF Len(tokens) > 1 THEN tokens[2] ELSE NoText,
                             IF Len(tokens) > 2 THEN tokens[3] ELSE NoText)
  <2>1. /\ outcome = "reading" /\ text' = Append(text, line) /\ tokens # <<>>
        /\ Name(tokens) = "httpstatus"
        /\ \/ bind = {} /\ Fail("InvalidAddress")
           \/ /\ bind # {}
              /\ config' = [config EXCEPT !.status_bind = bind]
              /\ UNCHANGED <<warnings, outcome>>
    BY <1>3, Zenon DEF SetStatus, ReadDirective, Read
  <2>2. StatusMeans(tokens, means)
    <3>1. "httpstatus" \notin DOMAIN SettingKey
      BY DEF SettingKey
    <3> QED BY <2>1, <3>1, Zenon DEF LineMeans
  <2>3. IF Len(tokens) < 3 THEN bind = {} ELSE bind = Address(tokens[2], tokens[3])
    <3>1. Word(NoText) = ""
      BY DEF Word, NoText
    <3>2. \A host : Address(host, NoText) = {}
      <4>1. "" \notin DOMAIN Numeral
        BY AprscConstants
      <4>2. NumberIn(NoText, U16) = {}
        BY <3>1, <4>1, Zenon DEF NumberIn, NumberOf
      <4>3. SUFFICES ASSUME NEW host PROVE Address(host, NoText) = {}
        OBVIOUS
      <4> QED BY <4>2 DEF Address
    <3>3. CASE Len(tokens) < 3
      BY <1>n, <3>2, <3>3
    <3>4. CASE ~ (Len(tokens) < 3)
      BY <1>n, <3>4
    <3> QED BY <3>3, <3>4
  <2> HIDE DEF bind
  <2>4. CASE bind = {} /\ Fail("InvalidAddress")
    <3>1. means.kind = "error"
      BY <2>2, <2>3, <2>4, Zenon DEF StatusMeans
    <3> QED BY <2>1, <2>4, <3>1, Zenon DEF Failed, Fail
  <2>5. CASE /\ bind # {} /\ config' = [config EXCEPT !.status_bind = bind]
             /\ UNCHANGED <<warnings, outcome>>
    <3>1. means.kind = "setting" /\ means.key = "status_bind" /\ means.value = bind
      BY <2>2, <2>3, <2>5, Zenon DEF StatusMeans
    <3>2. /\ \A x \in KnownKeys : config'[x] = IF x = means.key THEN means.value ELSE config[x]
          /\ config'.listeners = config.listeners /\ config'.uplinks = config.uplinks
          /\ means.key \in KnownKeys
      <4>1. "status_bind" \in KnownKeys
        BY KeysAre
      <4>2. means.key \in KnownKeys
        BY <3>1, <4>1
      <4>3. config' = [config EXCEPT ![means.key] = means.value]
        BY <2>5, <3>1
      <4> QED BY <4>2, <4>3, KeysAre DEF ConfigShape
    <3>3. \A k \in KnownKeys :
            config'[k] = IF means.kind = "setting" /\ means.key = k
                           THEN means.value ELSE config[k]
      BY <3>1, <3>2, Zenon
    <3>4. means.kind # "listener" /\ means.kind # "uplink" /\ means.kind # "unsupported"
      BY <3>1
    <3>5. means.left \ Unsaid(means) = {}
      BY <3>4, UnsaidAll
    <3> QED BY <2>1, <2>5, <3>2, <3>3, <3>4, <3>5, Zenon DEF Done
  <2> QED BY <2>1, <2>4, <2>5
<1>4. CASE AddListener(line, tokens)
  <2> DEFINE dropped == {args[i] : i \in Dropped(args)}
  <2> HIDE DEF dropped
  <2>1. /\ outcome = "reading" /\ text' = Append(text, line) /\ tokens # <<>>
        /\ Name(tokens) = "listen"
    BY <1>4, Zenon DEF AddListener, ReadDirective, Read
  <2>2. \/ ParsedListen(args) = {} /\ Fail("InvalidListen")
        \/ /\ \E l \in ParsedListen(args) :
                config' = [config EXCEPT !.listeners = Append(@, l)]
           /\ Warn(dropped \cup {t \in {NoText} : args[1] = NoText})
           /\ UNCHANGED outcome
    BY <1>4, Zenon DEF AddListener, args, dropped
  <2>3. PICK K \in SUBSET (6 .. Len(args)) :
          /\ OptionsOf(args, K)
          /\ IF ListenBroken(args, K) THEN means.kind = "error" ELSE ListenMeans(args, K, means)
    <3>1. "listen" \notin DOMAIN SettingKey
      BY DEF SettingKey
    <3> QED BY <2>1, <3>1, Zenon DEF LineMeans, args
  <2>4. /\ ListenBroken(args, K) => ParsedListen(args) = {}
        /\ ~ ListenBroken(args, K) /\ ListenMeans(args, K, means) =>
             /\ means.kind = "listener" /\ means.value.name = args[1]
             /\ ParsedListen(args) # {}
             /\ \A l \in ParsedListen(args) : ListensFor(l, means)
             /\ means.left \ Unsaid(means) \subseteq dropped
    <3>1. args \in Seq(Seq(T)) /\ OptionsOf(args, K) /\ K \in SUBSET (6 .. Len(args))
      BY <1>n, <2>1, <2>3
    <3> QED BY <3>1, ListenRead, Zenon DEF dropped
  <2>5. CASE ParsedListen(args) = {} /\ Fail("InvalidListen")
    BY <2>1, <2>3, <2>4, <2>5, Zenon DEF Failed, Fail
  <2>6. ASSUME NEW l \in ParsedListen(args),
               config' = [config EXCEPT !.listeners = Append(@, l)],
               Warn(dropped \cup {t \in {NoText} : args[1] = NoText}),
               UNCHANGED outcome
        PROVE  Done(line, means)
    <3>1. /\ means.kind = "listener" /\ means.value.name = args[1]
          /\ ListensFor(l, means) /\ means.left \ Unsaid(means) \subseteq dropped
      BY <2>3, <2>4, <2>6, Zenon
    <3>2. /\ \A k \in KnownKeys : config'[k] = config[k]
          /\ config'.listeners = Append(config.listeners, l) /\ config'.uplinks = config.uplinks
      BY <2>6, ListGrows, ZenonT(60)
    <3>3. warnings' = warnings \cup {[line |-> Len(text) + 1, about |-> a] :
                                       a \in dropped \cup {t \in {NoText} : args[1] = NoText}}
      <4>1. Len(text') = Len(text) + 1
        BY <1>0, <2>1
      <4> QED BY <2>6, <3>1, <4>1, Zenon DEF Warn
    <3>4. /\ warnings \subseteq warnings'
          /\ \A token \in means.left \ Unsaid(means) : Warned(token)
          /\ args[1] = NoText => Warned(NoText)
      <4> DEFINE about == dropped \cup {t \in {NoText} : args[1] = NoText}
      <4>1. means.left \ Unsaid(means) \subseteq about /\ (args[1] = NoText => NoText \in about)
        BY <3>1
      <4> HIDE DEF about
      <4>2. \A a \in about : Warned(a)
        BY <3>3, Zenon DEF Warned, about
      <4>3. warnings \subseteq warnings'
        BY <3>3, Zenon
      <4> QED BY <4>1, <4>2, <4>3, Zenon
    <3> QED BY <2>1, <2>6, <3>1, <3>2, <3>4, Zenon DEF Done
  <2> QED BY <2>2, <2>5, <2>6, Zenon
<1>5. CASE AddUplink(line, tokens)
  <2>1. /\ outcome = "reading" /\ text' = Append(text, line) /\ tokens # <<>>
        /\ Name(tokens) = "uplink"
        /\ \/ ParsedUplink(args) = {} /\ Fail("InvalidUplink")
           \/ /\ \E u \in ParsedUplink(args) :
                   config' = [config EXCEPT !.uplinks = Append(@, u)]
              /\ UNCHANGED <<warnings, outcome>>
    BY <1>5, Zenon DEF AddUplink, ReadDirective, Read, args
  <2>2. UplinkMeans(args, means)
    <3>1. "uplink" \notin DOMAIN SettingKey
      BY DEF SettingKey
    <3> QED BY <2>1, <3>1, Zenon DEF LineMeans, args
  <2>3. CASE \/ Len(args) < 5 \/ Word(args[2]) \notin DOMAIN UplinkTypes
             \/ NumberIn(args[5], U16) = {}
    <3>1. ParsedUplink(args) = {}
      <4>1. CASE Len(args) < 5 \/ Word(args[2]) \notin DOMAIN UplinkTypes
        BY <4>1, Zenon DEF ParsedUplink
      <4>2. CASE NumberIn(args[5], U16) = {}
        BY <4>2, Zenon DEF ParsedUplink
      <4> QED BY <2>3, <4>1, <4>2
    <3>2. means.kind = "error"
      BY <2>2, <2>3, Zenon DEF UplinkMeans
    <3>3. Fail("InvalidUplink")
      BY <2>1, <3>1, Zenon
    <3> QED BY <2>1, <3>2, <3>3, Zenon DEF Failed, Fail
  <2>4. CASE /\ ~ (Len(args) < 5) /\ Word(args[2]) \in DOMAIN UplinkTypes
             /\ NumberIn(args[5], U16) # {}
    <3> DEFINE uplink(p) == [name |-> args[1], kind |-> UplinkTypes[Word(args[2])],
                             address |-> <<args[4], p>>]
    <3>1. /\ means.kind = "uplink"
          /\ \E port \in NumberIn(args[5], U16) : means.value = uplink(port)
      BY <2>2, <2>4, Zenon DEF UplinkMeans
    <3>2. ParsedUplink(args) = {uplink(p) : p \in NumberIn(args[5], U16)}
      BY <2>4, Zenon DEF ParsedUplink
    <3> HIDE DEF uplink
    <3>3. PICK port \in NumberIn(args[5], U16) : means.value = uplink(port)
      BY <3>1
    <3>4. NumberIn(args[5], U16) = {port}
      BY <3>3 DEF NumberIn, NumberOf
    <3>5. ParsedUplink(args) = {means.value}
      BY <3>2, <3>3, <3>4
    <3>6. config' = [config EXCEPT !.uplinks = Append(@, means.value)]
          /\ UNCHANGED <<warnings, outcome>>
      BY <2>1, <3>5, Zenon
    <3>7. /\ \A k \in KnownKeys : config'[k] = config[k]
          /\ config'.uplinks = Append(config.uplinks, means.value)
          /\ config'.listeners = config.listeners
      BY <3>6, ListGrows, ZenonT(60)
    <3>8. means.left \ Unsaid(means) = {}
      BY <3>1, UnsaidAll
    <3> QED BY <2>1, <3>1, <3>6, <3>7, <3>8 DEF Done
  <2> QED BY <2>3, <2>4
<1>6. CASE WarnOf(line, tokens)
  <2>1. /\ outcome = "reading" /\ text' = Append(text, line) /\ tokens # <<>>
        /\ Name(tokens) \notin DOMAIN SettingKey \cup {"httpstatus", "listen", "uplink"}
        /\ warnings' = warnings \cup {[line |-> Len(text'), about |-> a] : a \in {tokens[1]}}
        /\ UNCHANGED <<config, outcome>>
    BY <1>6, Zenon DEF WarnOf, Read, Warn
  <2>2. /\ Name(tokens) \notin DOMAIN SettingKey
        /\ Name(tokens) # "httpstatus" /\ Name(tokens) # "listen" /\ Name(tokens) # "uplink"
    BY <2>1
  <2>3. means.kind = "unsupported" /\ means.value = tokens[1]
    BY <2>1, <2>2, Zenon DEF LineMeans
  <2>4. Len(text') = Len(text) + 1
    BY <1>0, <2>1
  <2>5. Warned(means.value) /\ warnings \subseteq warnings'
    BY <2>1, <2>3, <2>4, Zenon DEF Warned
  <2> QED BY <2>1, <2>3, <2>5 DEF Done
<1> QED BY <1>1, <1>2, <1>3, <1>4, <1>5, <1>6

(* How many of the first i lines of a text mean this.                      *)
HowMany(t, i, kind) == Cardinality({j \in 1 .. i : t[j].means.kind = kind})

(* How many of the lines mean this: one more with each that does.          *)
LEMMA Counted ==
  ASSUME NEW t, NEW kind
  PROVE  /\ HowMany(t, 0, kind) = 0
         /\ \A i \in Nat :
              /\ HowMany(t, i, kind) \in Nat
              /\ HowMany(t, i + 1, kind) = IF t[i + 1].means.kind = kind
                                           THEN HowMany(t, i, kind) + 1 ELSE HowMany(t, i, kind)
         /\ \A i, j \in Nat : i <= j => HowMany(t, i, kind) <= HowMany(t, j, kind)
         /\ \A i \in Nat \ {0} : t[i].means.kind = kind => HowMany(t, i, kind) \in Nat \ {0}
<1> DEFINE A == {j \in Nat : t[j].means.kind = kind}
<1>1. \A i \in Nat : i + 1 \in Nat /\ 1 .. i \subseteq Nat
  OBVIOUS
<1>2. ASSUME NEW i \in Nat PROVE HowMany(t, i, kind) = UpToIn(A, i)
  <2>1. {j \in 1 .. i : t[j].means.kind = kind} = {j \in 1 .. i : j \in A}
    BY <1>1, Zenon
  <2> QED BY <2>1, Zenon DEF HowMany, UpToIn
<1>3. \A i \in Nat : i \in A <=> t[i].means.kind = kind
  OBVIOUS
<1> HIDE DEF A
<1>4. /\ UpToIn(A, 0) = 0
      /\ \A i \in Nat :
           /\ UpToIn(A, i) \in Nat
           /\ UpToIn(A, i + 1) = IF i + 1 \in A THEN UpToIn(A, i) + 1 ELSE UpToIn(A, i)
      /\ \A i, j \in Nat : i <= j => UpToIn(A, i) <= UpToIn(A, j)
      /\ \A i \in Nat \ {0} : i \in A => UpToIn(A, i) \in Nat \ {0}
  BY InCounted
<1> QED BY <1>1, <1>2, <1>3, <1>4

(* What was counted of a text stays when a line is added.                  *)
LEMMA CountKept ==
  ASSUME NEW L, NEW t \in Seq(L), NEW line \in L, NEW kind
  PROVE  /\ \A i \in 0 .. Len(t) : HowMany(Append(t, line), i, kind) = HowMany(t, i, kind)
         /\ HowMany(Append(t, line), Len(t) + 1, kind)
              = IF line.means.kind = kind THEN HowMany(t, Len(t), kind) + 1
                                          ELSE HowMany(t, Len(t), kind)
<1>1. /\ Len(t) \in Nat /\ Append(t, line)[Len(t) + 1] = line
      /\ \A j \in 1 .. Len(t) : Append(t, line)[j] = t[j]
  OBVIOUS
<1>2. ASSUME NEW i \in 0 .. Len(t)
      PROVE  HowMany(Append(t, line), i, kind) = HowMany(t, i, kind)
  <2>1. \A j \in 1 .. i : j \in 1 .. Len(t)
    BY <1>1
  <2>2. {j \in 1 .. i : Append(t, line)[j].means.kind = kind}
          = {j \in 1 .. i : t[j].means.kind = kind}
    BY <1>1, <2>1
  <2> QED BY <2>2, Zenon DEF HowMany
<1>3. Len(t) \in 0 .. Len(t)
  BY <1>1
<1>4. HowMany(Append(t, line), Len(t) + 1, kind)
        = IF Append(t, line)[Len(t) + 1].means.kind = kind
          THEN HowMany(Append(t, line), Len(t), kind) + 1
          ELSE HowMany(Append(t, line), Len(t), kind)
  <2>1. \A i \in Nat : HowMany(Append(t, line), i + 1, kind)
                        = IF Append(t, line)[i + 1].means.kind = kind
                          THEN HowMany(Append(t, line), i, kind) + 1
                          ELSE HowMany(Append(t, line), i, kind)
    BY Counted, ZenonT(60)
  <2> QED BY <1>1, <2>1, Zenon
<1>5. HowMany(Append(t, line), Len(t), kind) = HowMany(t, Len(t), kind)
  BY <1>2, <1>3, Zenon
<1>6. Append(t, line)[Len(t) + 1] = line
  BY <1>1
<1> QED BY <1>2, <1>4, <1>5, <1>6, Zenon

(* What the i-th line of a text means is there, or was warned of.          *)
KeptIn(t, c, w, i, means) ==
  /\ means.kind = "setting" =>
       \/ c[means.key] = means.value
       \/ \E j \in i + 1 .. Len(t) :
            t[j].means.kind = "setting" /\ t[j].means.key = means.key
  /\ means.kind = "listener" =>
       /\ ListensFor(c.listeners[HowMany(t, i, "listener")], means)
       /\ means.value.name = NoText => [line |-> i, about |-> NoText] \in w
  /\ means.kind \in {"setting", "listener", "uplink"} =>
       \A token \in means.left \ Unsaid(means) : [line |-> i, about |-> token] \in w
  /\ means.kind = "uplink" => c.uplinks[HowMany(t, i, "uplink")] = means.value
  /\ means.kind = "unsupported" => [line |-> i, about |-> means.value] \in w

AllKept(t, c, w) ==
  /\ Len(c.listeners) = HowMany(t, Len(t), "listener")
  /\ Len(c.uplinks) = HowMany(t, Len(t), "uplink")
  /\ \A i \in 1 .. Len(t) : /\ KeptIn(t, c, w, i, t[i].means)
                            /\ t[i].means.kind = "setting" => t[i].means.key \in KnownKeys

(* The conversion so far: a failure is at a line that means an error.      *)
ConvertInv ==
  /\ text \in Seq(Lines)
  /\ \E S : config.uplinks \in Seq(S)
  /\ IF outcome \notin {"reading", "converted"} THEN Last(text).means.kind = "error"
     ELSE AllKept(text, config, warnings)

(* That the kept lines are what NothingLost says.                          *)
LEMMA KeptIsKept ==
  ASSUME text \in Seq(Lines), NEW i \in 1 .. Len(text), NEW means,
         KeptIn(text, config, warnings, i, means)
  PROVE  Kept(i, means)
<1>1. \A kind : Nth(i, kind) = HowMany(text, i, kind)
  BY Zenon DEF Nth, HowMany
<1>2. ASSUME means.kind = "listener"
      PROVE  LET listener == config.listeners[Nth(i, "listener")] IN
             /\ [listener EXCEPT !.name = NoText] = [means.value EXCEPT !.name = NoText]
             /\ \/ means.value.name # NoText /\ listener.name = means.value.name
                \/ means.value.name = NoText /\ WarnedOf(i, NoText)
  BY <1>1, <1>2, Zenon DEF KeptIn, ListensFor, WarnedOf
<1> QED BY <1>1, <1>2, Zenon DEF KeptIn, Kept, WarnedOf

(* What is kept is all that the property asks for.                         *)
LEMMA ConvertLosesNothing == ConvertInv => NothingLost
<1> SUFFICES ASSUME ConvertInv PROVE NothingLost
  OBVIOUS
<1>1. CASE outcome \notin {"reading", "converted"}
  BY <1>1, Zenon DEF ConvertInv, NothingLost
<1>2. CASE ~ (outcome \notin {"reading", "converted"})
  <2>1. text \in Seq(Lines) /\ AllKept(text, config, warnings)
    BY <1>2, Zenon DEF ConvertInv
  <2>2. \A i \in DOMAIN text : Kept(i, text[i].means)
    BY <2>1, KeptIsKept DEF AllKept
  <2>3. \A i, kind : Nth(i, kind) = HowMany(text, i, kind)
    BY Zenon DEF Nth, HowMany
  <2> QED BY <1>2, <2>1, <2>2, <2>3, Zenon DEF NothingLost, AllKept
<1> QED BY <1>1, <1>2

(* A line that means an error is not converted, and what the others mean   *)
(* is there with what was there before.                                    *)
LEMMA LineKeeps ==
  ASSUME ConfigShape(config), ConvertInv, NEW line \in Lines, Done(line, line.means)
  PROVE  ConvertInv'
<1> DEFINE n == Len(text)
           m == line.means
           count(i, kind) == HowMany(text, i, kind)
           size(i, kind) == HowMany(text', i, kind)
<1>1. /\ outcome = "reading" /\ outcome' = "reading" /\ text' = Append(text, line)
      /\ text \in Seq(Lines) /\ AllKept(text, config, warnings)
  BY Zenon DEF ConvertInv, Done
<1>2. /\ n \in Nat /\ text' \in Seq(Lines) /\ Len(text') = n + 1 /\ text'[n + 1] = line
      /\ \A i \in 1 .. n : text'[i] = text[i]
  BY <1>1
<1>3. \A kind : /\ \A i \in 0 .. n : size(i, kind) = count(i, kind)
                /\ size(n + 1, kind) = IF m.kind = kind THEN count(n, kind) + 1
                                                        ELSE count(n, kind)
  <2> SUFFICES ASSUME NEW kind
               PROVE  /\ \A i \in 0 .. n : size(i, kind) = count(i, kind)
                      /\ size(n + 1, kind) = IF m.kind = kind THEN count(n, kind) + 1
                                                              ELSE count(n, kind)
    OBVIOUS
  <2>1. /\ \A i \in 0 .. n : HowMany(Append(text, line), i, kind) = count(i, kind)
        /\ HowMany(Append(text, line), n + 1, kind)
             = IF m.kind = kind THEN count(n, kind) + 1 ELSE count(n, kind)
    BY <1>1, CountKept, ZenonT(60)
  <2> QED BY <1>1, <2>1, Zenon
<1>4. \A kind : /\ \A i, j \in Nat : i <= j => count(i, kind) <= count(j, kind)
                /\ \A i \in Nat : count(i, kind) \in Nat
                /\ \A i \in Nat \ {0} :
                     text[i].means.kind = kind => count(i, kind) \in Nat \ {0}
  BY Counted
<1>5. /\ \A k \in KnownKeys :
           config'[k] = IF m.kind = "setting" /\ m.key = k THEN m.value ELSE config[k]
      /\ m.kind = "setting" => m.key \in KnownKeys
      /\ warnings \subseteq warnings'
  BY Zenon DEF Done
<1>6. PICK S : config.listeners \in Seq(S)
  BY DEF ConfigShape
<1>7. PICK U : config.uplinks \in Seq(U)
  BY Zenon DEF ConvertInv
<1>8. Len(config.listeners) = count(n, "listener") /\ Len(config.uplinks) = count(n, "uplink")
  BY <1>1, Zenon DEF AllKept
<1> HIDE DEF count, size, n, m
<1>9. /\ Len(config'.listeners) = size(n + 1, "listener")
      /\ \A i \in 1 .. Len(config.listeners) : config'.listeners[i] = config.listeners[i]
      /\ m.kind = "listener" =>
           /\ ListensFor(config'.listeners[size(n + 1, "listener")], m)
           /\ m.value.name = NoText => [line |-> n + 1, about |-> NoText] \in warnings'
  <2>1. CASE m.kind = "listener"
    <3>1. PICK l : config'.listeners = Append(config.listeners, l) /\ ListensFor(l, m)
      BY <2>1, Zenon DEF Done, m
    <3>2. m.value.name = NoText => [line |-> n + 1, about |-> NoText] \in warnings'
      BY <2>1, Zenon DEF Done, m, n, Warned
    <3>3. size(n + 1, "listener") = Len(config.listeners) + 1
      BY <1>3, <1>8, <2>1
    <3>4. config.listeners \in Seq(S \cup {l})
      BY <1>6
    <3>5. /\ Len(config'.listeners) = Len(config.listeners) + 1
          /\ config'.listeners[Len(config.listeners) + 1] = l
          /\ \A i \in 1 .. Len(config.listeners) : config'.listeners[i] = config.listeners[i]
      BY <3>1, <3>4
    <3> QED BY <3>1, <3>2, <3>3, <3>5, Zenon
  <2>2. CASE m.kind # "listener"
    <3>1. config'.listeners = config.listeners
      BY <2>2, Zenon DEF Done, m
    <3> QED BY <1>3, <1>8, <2>2, <3>1
  <2> QED BY <2>1, <2>2
<1>10. /\ Len(config'.uplinks) = size(n + 1, "uplink")
       /\ \A i \in 1 .. Len(config.uplinks) : config'.uplinks[i] = config.uplinks[i]
       /\ m.kind = "uplink" => config'.uplinks[size(n + 1, "uplink")] = m.value
       /\ config'.uplinks \in Seq(U \cup {m.value})
  <2>1. config.uplinks \in Seq(U \cup {m.value})
    BY <1>7
  <2>2. CASE m.kind = "uplink"
    <3>1. config'.uplinks = Append(config.uplinks, m.value)
      BY <2>2, Zenon DEF Done, m
    <3>2. size(n + 1, "uplink") = Len(config.uplinks) + 1
      BY <1>3, <1>8, <2>2
    <3> QED BY <2>1, <3>1, <3>2
  <2>3. CASE m.kind # "uplink"
    <3>1. config'.uplinks = config.uplinks
      BY <2>3, Zenon DEF Done, m
    <3> QED BY <1>3, <1>8, <2>1, <2>3, <3>1
  <2> QED BY <2>2, <2>3
<1>11. KeptIn(text', config', warnings', n + 1, m)
  <2>1. m.kind = "setting" => config'[m.key] = m.value
    BY <1>5
  <2>2. m.kind = "unsupported" => [line |-> n + 1, about |-> m.value] \in warnings'
    BY Zenon DEF Done, m, n, Warned
  <2>3. m.kind \in {"setting", "listener", "uplink"} =>
          \A token \in m.left \ Unsaid(m) : [line |-> n + 1, about |-> token] \in warnings'
    BY Zenon DEF Done, m, n, Warned
  <2> QED BY <1>9, <1>10, <2>1, <2>2, <2>3, Zenon DEF KeptIn, size
<1>12. ASSUME NEW i \in 1 .. n PROVE KeptIn(text', config', warnings', i, text[i].means)
  <2> DEFINE o == text[i].means
  <2>1. KeptIn(text, config, warnings, i, o) /\ (o.kind = "setting" => o.key \in KnownKeys)
    BY <1>1, Zenon DEF AllKept, n
  <2>2. i \in Nat \ {0} /\ i \in Nat /\ n \in Nat /\ i <= n /\ i \in 0 .. n
    BY <1>2
  <2>3. ASSUME o.kind = "setting"
        PROVE  \/ config'[o.key] = o.value
               \/ \E j \in i + 1 .. Len(text') :
                    text'[j].means.kind = "setting" /\ text'[j].means.key = o.key
    <3>1. CASE \E j \in i + 1 .. n : text[j].means.kind = "setting" /\ text[j].means.key = o.key
      <4>1. PICK j \in i + 1 .. n : text[j].means.kind = "setting" /\ text[j].means.key = o.key
        BY <3>1
      <4>2. j \in 1 .. n /\ j \in i + 1 .. Len(text')
        BY <1>2, <2>2
      <4>3. text'[j] = text[j]
        BY <1>2, <4>2
      <4> QED BY <4>1, <4>2, <4>3, Zenon
    <3>2. CASE config[o.key] = o.value
      <4>1. CASE m.kind = "setting" /\ m.key = o.key
        <5>1. n + 1 \in i + 1 .. Len(text')
          BY <1>2, <2>2
        <5> QED BY <1>2, <4>1, <5>1, Zenon DEF m
      <4>2. CASE ~ (m.kind = "setting" /\ m.key = o.key)
        <5>1. o.key \in KnownKeys
          BY <2>1, <2>3
        <5> QED BY <1>5, <3>2, <4>2, <5>1, Zenon
      <4> QED BY <4>1, <4>2
    <3> QED BY <2>1, <2>3, <3>1, <3>2, Zenon DEF KeptIn, n
  <2>4. ASSUME NEW kind, o.kind = kind
        PROVE  size(i, kind) = count(i, kind) /\ count(i, kind) \in 1 .. count(n, kind)
    <3>1. count(i, kind) \in Nat \ {0}
      BY <1>4, <2>2, <2>4, Zenon
    <3>2. count(i, kind) <= count(n, kind) /\ count(n, kind) \in Nat
      BY <1>4, <2>2, Zenon
    <3>3. size(i, kind) = count(i, kind)
      BY <1>3, <2>2, Zenon
    <3> QED BY <3>1, <3>2, <3>3
  <2>5. ASSUME o.kind = "listener"
        PROVE  config'.listeners[size(i, "listener")] = config.listeners[count(i, "listener")]
    BY <1>8, <1>9, <2>4, <2>5, Zenon
  <2>6. ASSUME o.kind = "uplink"
        PROVE  config'.uplinks[size(i, "uplink")] = config.uplinks[count(i, "uplink")]
    BY <1>8, <1>10, <2>4, <2>6, Zenon
  <2> HIDE DEF o
  <2>7. ASSUME o.kind = "listener"
        PROVE  /\ ListensFor(config'.listeners[size(i, "listener")], o)
               /\ o.value.name = NoText => [line |-> i, about |-> NoText] \in warnings'
    <3>1. /\ ListensFor(config.listeners[count(i, "listener")], o)
          /\ o.value.name = NoText => [line |-> i, about |-> NoText] \in warnings
      BY <2>1, <2>7, Zenon DEF KeptIn, count
    <3> QED BY <1>5, <2>5, <2>7, <3>1, Zenon
  <2>8. ASSUME o.kind = "uplink" PROVE config'.uplinks[size(i, "uplink")] = o.value
    BY <2>1, <2>6, <2>8, Zenon DEF KeptIn, count
  <2>9. ASSUME o.kind = "unsupported" PROVE [line |-> i, about |-> o.value] \in warnings'
    BY <1>5, <2>1, <2>9, Zenon DEF KeptIn
  <2>10. ASSUME o.kind \in {"setting", "listener", "uplink"}
         PROVE  \A token \in o.left \ Unsaid(o) : [line |-> i, about |-> token] \in warnings'
    BY <1>5, <2>1, <2>10, Zenon DEF KeptIn
  <2> QED BY <2>3, <2>7, <2>8, <2>9, <2>10, Zenon DEF KeptIn, size, o
<1>13. AllKept(text', config', warnings')
  <2>1. ASSUME NEW i \in 1 .. Len(text')
        PROVE  /\ KeptIn(text', config', warnings', i, text'[i].means)
               /\ text'[i].means.kind = "setting" => text'[i].means.key \in KnownKeys
    <3>1. CASE i = n + 1
      BY <1>2, <1>5, <1>11, <3>1, Zenon DEF m
    <3>2. CASE i # n + 1
      <4>1. i \in 1 .. n
        BY <1>2, <3>2
      <4>2. text'[i] = text[i]
        BY <1>2, <4>1
      <4>3. text[i].means.kind = "setting" => text[i].means.key \in KnownKeys
        BY <1>1, <4>1, Zenon DEF AllKept, n
      <4> QED BY <1>12, <4>1, <4>2, <4>3, Zenon
    <3> QED BY <3>1, <3>2
  <2>2. /\ Len(config'.listeners) = size(Len(text'), "listener")
        /\ Len(config'.uplinks) = size(Len(text'), "uplink")
    BY <1>2, <1>9, <1>10
  <2> QED BY <2>1, <2>2, Zenon DEF AllKept, size
<1> QED BY <1>1, <1>2, <1>10, <1>13, Zenon DEF ConvertInv

(* The conversion fails at a line that means an error.                     *)
LEMMA FailureMeant ==
  ASSUME ConvertInv, NEW line \in Lines, line.means.kind = "error",
         outcome' \notin {"reading", "converted"}, text' = Append(text, line), config' = config
  PROVE  ConvertInv'
<1>1. text' \in Seq(Lines) /\ Len(text') = Len(text) + 1 /\ text'[Len(text')] = line
  BY DEF ConvertInv
<1>2. Last(text') = line
  BY <1>1, Zenon DEF Last
<1> QED BY <1>1, <1>2, Zenon DEF ConvertInv

(* Warnings are only added to.                                             *)
LEMMA WarningsGrow ==
  ASSUME ConvertInv, UNCHANGED <<text, config>>, warnings \subseteq warnings',
         outcome' = outcome \/ (outcome = "reading" /\ outcome' = "converted")
  PROVE  ConvertInv'
<1>1. ASSUME NEW i, NEW means, KeptIn(text, config, warnings, i, means)
      PROVE  KeptIn(text, config, warnings', i, means)
  BY <1>1, Zenon DEF KeptIn
<1>2. AllKept(text, config, warnings) => AllKept(text, config, warnings')
  BY <1>1, Zenon DEF AllKept
<1>3. text' = text /\ config' = config
  OBVIOUS
<1>4. outcome' \notin {"reading", "converted"} <=> outcome \notin {"reading", "converted"}
  OBVIOUS
<1> QED BY <1>2, <1>3, <1>4, Zenon DEF ConvertInv

(* Every line keeps the lines before it, and the rest of a run all of      *)
(* them.                                                                   *)
LEMMA ConvertStep ==
  ASSUME FileInv, ConvertInv, [Next]_vars PROVE ConvertInv'
<1>1. CASE Converting
  <2>1. CASE EndOfText
    <3>1. UNCHANGED <<text, config, warnings>> /\ outcome = "reading" /\ outcome' = "converted"
      BY <2>1, Zenon DEF EndOfText
    <3> QED BY <3>1, WarningsGrow
  <2>2. ASSUME NEW line \in Lines, Unterminated(line) PROVE ConvertInv'
    <3>1. /\ Tokens(line.raw) = {} /\ text' = Append(text, line)
          /\ outcome' = "UnterminatedQuote" /\ config' = config
      BY <2>2, Zenon DEF Unterminated, Read, Fail
    <3>2. line.means.kind = "error"
      <4>1. /\ line.raw \in Seq(STRING) /\ LineSpells(line.raw, line.tokens)
            /\ line.tokens = {} => line.means.kind = "error"
        BY LinesMean, Zenon
      <4>2. Tokens(line.raw) = line.tokens
        BY <4>1, TokensRead, Zenon
      <4> QED BY <3>1, <4>1, <4>2, Zenon
    <3> QED BY <3>1, <3>2, FailureMeant
  <2>3. ASSUME NEW line \in Lines, NEW tokens \in Tokens(line.raw),
               \/ SkipLine(line, tokens) \/ SetValue(line, tokens)
               \/ SetStatus(line, tokens) \/ AddListener(line, tokens)
               \/ AddUplink(line, tokens) \/ WarnOf(line, tokens)
        PROVE  ConvertInv'
    <3>1. /\ line.raw \in Seq(STRING) /\ LineSpells(line.raw, line.tokens)
          /\ \A t \in line.tokens : LineMeans(t, line.means)
      BY LinesMean, Zenon
    <3>2. tokens \in Seq(Seq(STRING)) /\ LineMeans(tokens, line.means)
      <4>1. Tokens(line.raw) = line.tokens
        BY <3>1, TokensRead, Zenon
      <4>2. tokens \in Seq(Seq(STRING))
        BY <3>1, <4>1, Zenon DEF LineSpells, SpelledBy
      <4> QED BY <3>1, <4>1, <4>2, Zenon
    <3>3. ConfigShape(config) /\ text \in Seq(Lines)
      BY Zenon DEF FileInv, ConvertInv
    <3>4. Done(line, line.means) \/ Failed(line, line.means)
      BY <2>3, <3>2, <3>3, LineReads, Zenon
    <3>5. CASE Done(line, line.means)
      BY <3>3, <3>5, LineKeeps
    <3>6. CASE Failed(line, line.means)
      BY <3>6, FailureMeant DEF Failed
    <3> QED BY <3>4, <3>5, <3>6
  <2> QED BY <1>1, <2>1, <2>2, <2>3, Zenon DEF Converting, Convert, ConvertLine
<1>2. CASE WriteFile
  <2>1. /\ UNCHANGED <<text, config, outcome>>
        /\ warnings' = warnings \cup
             {[line |-> 0, about |-> id] : id \in {id \in {config.id} :
                                              Folded(id) = Folded(PlaceholderId)}}
    BY <1>2, Zenon DEF WriteFile
  <2>2. warnings \subseteq warnings' /\ outcome' = outcome
    BY <2>1, Zenon
  <2>3. UNCHANGED <<text, config>>
    BY <2>1
  <2> QED BY <2>2, <2>3, WarningsGrow
<1>3. CASE Edit \/ Load \/ MakeRunDir \/ OpenStore \/ BindListener \/ Serve \/ UNCHANGED vars
  <2>1. UNCHANGED convertVars
    BY <1>3, Zenon DEF Edit, Load, MakeRunDir, OpenStore, BindListener, Serve, vars
  <2>2. UNCHANGED <<text, config>> /\ warnings \subseteq warnings' /\ outcome' = outcome
    BY <2>1 DEF convertVars
  <2> QED BY <2>2, WarningsGrow
<1>4. [Next]_vars => \/ Converting \/ WriteFile
                    \/ Edit \/ Load \/ MakeRunDir \/ OpenStore \/ BindListener \/ Serve
                    \/ UNCHANGED vars
  BY Zenon DEF Next
<1> QED BY <1>1, <1>2, <1>3, <1>4, Zenon

(* No line was read, and no listener or uplink is there.                   *)
LEMMA ConvertFirst == Init => ConvertInv
<1> SUFFICES ASSUME Init PROVE ConvertInv
  OBVIOUS
<1>1. /\ text = <<>> /\ outcome = "reading"
      /\ config = Over([id |-> PlaceholderId, listeners |-> <<>>, uplinks |-> <<>>], Default)
  BY Zenon DEF Init, ConvertInit
<1>2. config.listeners = <<>> /\ config.uplinks = <<>>
  BY <1>1, KeysAre DEF Over
<1>3. Len(text) = 0 /\ \A kind : HowMany(text, 0, kind) = 0
  BY <1>1, Counted
<1>4. /\ text \in Seq(Lines) /\ Len(text) = 0
      /\ config.uplinks \in Seq({}) /\ Len(config.uplinks) = 0
      /\ Len(config.listeners) = 0 /\ 1 .. Len(text) = {}
  <2>1. \A S : <<>> \in Seq(S)
    OBVIOUS
  <2>2. Len(<<>>) = 0
    OBVIOUS
  <2>3. text \in Seq(Lines) /\ config.uplinks \in Seq({})
    BY <1>1, <1>2, <2>1, Zenon
  <2>4. Len(text) = 0 /\ Len(config.uplinks) = 0 /\ Len(config.listeners) = 0
    BY <1>1, <1>2, <2>2, Zenon
  <2>5. 1 .. Len(text) = {}
    BY <2>4
  <2> QED BY <2>3, <2>4, <2>5
<1>5. /\ Len(config.listeners) = HowMany(text, Len(text), "listener")
      /\ Len(config.uplinks) = HowMany(text, Len(text), "uplink")
  BY <1>3, <1>4
<1>6. AllKept(text, config, warnings)
  BY <1>4, <1>5 DEF AllKept
<1>7. ~ (outcome \notin {"reading", "converted"})
  BY <1>1
<1> QED BY <1>4, <1>6, <1>7, Zenon DEF ConvertInv

(* Nothing of a text is lost (Aprsc's NothingLost): what a line that was   *)
(* converted means is in the configuration in its place, or a later line   *)
(* overrides it, or a warning names the line and what was left out, save   *)
(* for what Unsaid names.                                                  *)
THEOREM NothingIsLost == Spec => []NothingLost
<1>1. Init => FileInv /\ ConvertInv
  BY FileInit, ConvertFirst
<1>2. FileInv /\ ConvertInv /\ [Next]_vars => (FileInv /\ ConvertInv)'
  BY FileStep, ConvertStep
<1>3. ConvertInv => NothingLost
  BY ConvertLosesNothing
<1> QED BY <1>1, <1>2, <1>3, PTL DEF Spec

=============================================================================
