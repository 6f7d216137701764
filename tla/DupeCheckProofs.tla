-------------------------- MODULE DupeCheckProofs ---------------------------
(***************************************************************************)
(* The duplicate detector is correct for every set of digests, every       *)
(* window and every behaviour of the wall clock.                           *)
(***************************************************************************)
EXTENDS DupeCheck, TLAPS

(* The ring has at least two slots, numbered from zero.                    *)
LEMMA SpanType == Span \in Nat /\ Span >= 1 /\ BucketCount \in Nat /\ BucketCount > 1
BY DupeConstants DEF Span, BucketCount

(* A second has a slot.                                                    *)
LEMMA SlotType == ASSUME NEW s \in Nat PROVE Slot(s) \in Slots
<1>1. /\ (s % BucketCount) \in Int
      /\ 0 <= (s % BucketCount)
      /\ (s % BucketCount) < BucketCount
  BY SpanType
<1> QED BY <1>1, SpanType DEF Slot, Slots, BucketCount

(* Two multiples of B less than B apart are equal.                         *)
LEMMA MultiplesApart ==
  ASSUME NEW B \in Nat, B > 0, NEW k \in Int, B * k < B, -B < B * k
  PROVE  k = 0
<1>1. CASE k >= 1
  <2>1. B * k >= B * 1
    BY <1>1
  <2> QED BY <2>1
<1>2. CASE k <= -1
  <2>1. B * k <= B * (-1)
    BY <1>2
  <2> QED BY <2>1
<1> QED BY <1>1, <1>2

(* Euclid's division, for a second and the ring.                           *)
LEMMA SlotDivision ==
  ASSUME NEW s \in Nat
  PROVE  \E q \in Int : s = BucketCount * q + Slot(s)
<1>1. /\ (s \div BucketCount) \in Int
      /\ s = BucketCount * (s \div BucketCount) + (s % BucketCount)
  BY SpanType
<1> QED BY <1>1 DEF Slot

(* Two seconds less than a ring apart share a slot only when they are the  *)
(* same second: this is what the extra bucket is for.                      *)
LEMMA SlotInjective ==
  ASSUME NEW a \in Nat, NEW b \in Nat, a < b, b - a < BucketCount
  PROVE  Slot(a) # Slot(b)
<1>1. PICK p \in Int : a = BucketCount * p + Slot(a)
  BY SlotDivision
<1>2. PICK q \in Int : b = BucketCount * q + Slot(b)
  BY SlotDivision
<1>3. SUFFICES ASSUME Slot(a) = Slot(b) PROVE FALSE
  OBVIOUS
<1>4. b - a = BucketCount * (q - p)
  BY <1>1, <1>2, <1>3, SpanType, SlotType DEF Slots
<1>5. q - p = 0
  BY <1>4, SpanType, MultiplesApart
<1> QED BY <1>4, <1>5, SpanType

(* A second one whole ring later is in the same slot.                      *)
LEMMA SlotPeriodic == ASSUME NEW a \in Nat PROVE Slot(a + BucketCount) = Slot(a)
<1> DEFINE b == a + BucketCount
<1>1. b \in Nat
  BY SpanType
<1>2. PICK p \in Int : a = BucketCount * p + Slot(a)
  BY SlotDivision
<1>3. PICK q \in Int : b = BucketCount * q + Slot(b)
  BY <1>1, SlotDivision
<1>4. BucketCount * (q - p - 1) = Slot(a) - Slot(b)
  BY <1>1, <1>2, <1>3, SpanType, SlotType DEF Slots
<1>5. /\ Slot(a) - Slot(b) < BucketCount
      /\ -BucketCount < Slot(a) - Slot(b)
  BY <1>1, SpanType, SlotType DEF Slots, BucketCount
<1>6. q - p - 1 = 0
  BY <1>4, <1>5, SpanType, MultiplesApart
<1> QED BY <1>1, <1>4, <1>6, SpanType, SlotType DEF Slots

-----------------------------------------------------------------------------
(* The eviction step, when less than a whole ring elapsed: the digests in  *)
(* the drained buckets are exactly those that left the window.             *)
LEMMA ExpiredIsAged ==
  ASSUME DupeInv, NEW t \in Nat, t > now, t - now < BucketCount,
         NEW d \in Digest
  PROVE  d \in Expired(t) <=> d \in DOMAIN seen /\ t - seen[d] > Span
<1> USE DEF DupeInv, TypeOK
<1>1. ASSUME d \in DOMAIN seen, t - seen[d] > Span
      PROVE  d \in Expired(t)
  <2> DEFINE step == seen[d] + BucketCount - now
  <2>1. seen[d] \in Nat /\ seen[d] <= now /\ now - seen[d] <= Span
    BY <1>1 DEF InWindow
  <2>2. step \in 1 .. t - now
    BY <1>1, <2>1, SpanType DEF BucketCount
  <2>3. now + step = seen[d] + BucketCount
    BY <2>1, SpanType
  <2>4. Slot(now + step) = Slot(seen[d])
    BY <2>1, <2>3, SlotPeriodic
  <2>5. d \in buckets[Slot(seen[d])]
    BY <1>1, <2>1, SlotType DEF RingMatchesMap
  <2> QED BY <2>2, <2>4, <2>5 DEF Expired, Turned
<1>2. ASSUME d \in Expired(t)
      PROVE  d \in DOMAIN seen /\ t - seen[d] > Span
  <2>1. PICK step \in 1 .. t - now : d \in buckets[Slot(now + step)]
    BY <1>2 DEF Expired, Turned
  <2>2. now + step \in Nat /\ Slot(now + step) \in Slots
    BY SlotType
  <2>3. d \in DOMAIN seen /\ Slot(seen[d]) = Slot(now + step)
    BY <2>1, <2>2 DEF RingMatchesMap
  <2>4. seen[d] \in Nat /\ seen[d] <= now
    BY <2>3 DEF InWindow
  <2>5. ~ (now + step - seen[d] < BucketCount)
    BY <2>2, <2>3, <2>4, SlotInjective
  <2> QED BY <2>3, <2>4, <2>5, SpanType DEF BucketCount
<1> QED BY <1>1, <1>2

(* advance_to(t) moves the clock to the later of now and t, keeps exactly  *)
(* the entries still inside the window, unchanged, and keeps map and ring  *)
(* in step.                                                                *)
LEMMA AdvanceCorrect ==
  ASSUME DupeInv, NEW t \in Nat
  PROVE  LET a == Advanced(t) IN
    /\ a.now \in Nat /\ a.now >= now /\ a.now = Promise!Later(now, t)
    /\ DOMAIN a.seen \subseteq Digest /\ a.seen \in [DOMAIN a.seen -> Nat]
    /\ \A d \in Digest :
         /\ d \in DOMAIN a.seen <=> d \in DOMAIN seen /\ a.now - seen[d] <= Span
         /\ d \in DOMAIN a.seen => a.seen[d] = seen[d]
    /\ a.buckets \in [Slots -> SUBSET Digest]
    /\ \A d \in Digest, s \in Slots :
         d \in a.buckets[s] <=> d \in DOMAIN a.seen /\ Slot(a.seen[d]) = s
<1> DEFINE a == Advanced(t)
<1> USE DEF DupeInv, TypeOK
<1>0. \A d \in DOMAIN seen : seen[d] \in Nat /\ seen[d] <= now /\ now - seen[d] <= Span
  BY DEF InWindow
<1>1. CASE t <= now
  <2>1. a = [now |-> now, seen |-> seen, buckets |-> buckets]
    BY <1>1 DEF Advanced
  <2> QED BY <1>0, <1>1, <2>1 DEF RingMatchesMap, Promise!Later
<1>2. CASE t > now /\ t - now >= BucketCount
  <2>1. a = [now |-> t, seen |-> [d \in {} |-> 0],
             buckets |-> [s \in Slots |-> {}]]
    BY <1>2 DEF Advanced
  <2>2. \A d \in DOMAIN seen : ~ (t - seen[d] <= Span)
    BY <1>0, <1>2, SpanType DEF BucketCount
  <2> QED BY <1>2, <2>1, <2>2 DEF Promise!Later
<1>3. CASE t > now /\ t - now < BucketCount
  <2>1. a = [now |-> t,
             seen |-> [d \in DOMAIN seen \ Expired(t) |-> seen[d]],
             buckets |-> [s \in Slots |->
                            IF s \in Turned(t) THEN {} ELSE buckets[s]]]
    BY <1>3, SpanType DEF Advanced
  <2>2. \A d \in Digest :
          d \in Expired(t) <=> d \in DOMAIN seen /\ t - seen[d] > Span
    BY <1>3, ExpiredIsAged
  <2>3. ASSUME NEW d \in Digest
        PROVE  /\ d \in DOMAIN a.seen <=> d \in DOMAIN seen /\ t - seen[d] <= Span
               /\ d \in DOMAIN a.seen => a.seen[d] = seen[d]
    BY <1>0, <2>1, <2>2, SpanType
  <2>4. ASSUME NEW d \in Digest, NEW s \in Slots
        PROVE  d \in a.buckets[s] <=> d \in DOMAIN a.seen /\ Slot(a.seen[d]) = s
    <3>1. CASE s \in Turned(t)
      <4>1. d \notin a.buckets[s]
        BY <2>1, <3>1
      <4>2. ASSUME d \in DOMAIN seen, Slot(seen[d]) = s PROVE d \in Expired(t)
        BY <3>1, <4>2 DEF RingMatchesMap, Expired
      <4> QED BY <2>1, <2>3, <4>1, <4>2
    <3>2. CASE s \notin Turned(t)
      <4>1. a.buckets[s] = buckets[s]
        BY <2>1, <3>2
      <4>2. ASSUME d \in Expired(t), d \in DOMAIN seen PROVE Slot(seen[d]) # s
        <5>1. PICK r \in Turned(t) : d \in buckets[r]
          BY <4>2 DEF Expired
        <5>2. r \in Slots
          BY SlotType DEF Turned
        <5> QED BY <3>2, <5>1, <5>2 DEF RingMatchesMap
      <4> QED BY <2>1, <2>3, <4>1, <4>2 DEF RingMatchesMap
    <3> QED BY <3>1, <3>2
  <2>5. a.now = t /\ a.now = Promise!Later(now, t)
    BY <1>3, <2>1 DEF Promise!Later
  <2>6. DOMAIN a.seen \subseteq Digest /\ a.seen \in [DOMAIN a.seen -> Nat]
    BY <2>1
  <2>7. a.buckets \in [Slots -> SUBSET Digest]
    BY <2>1
  <2> QED BY <1>3, <2>3, <2>4, <2>5, <2>6, <2>7
<1> QED BY <1>1, <1>2, <1>3, SpanType

-----------------------------------------------------------------------------
(* The initial state satisfies the invariant.                              *)
LEMMA DupeInit == Init => DupeInv
<1> SUFFICES ASSUME Init PROVE DupeInv
  OBVIOUS
<1>1. TypeOK
  BY DEF Init, TypeOK, Never
<1>2. RingMatchesMap
  BY DEF Init, RingMatchesMap
<1>3. InWindow /\ MapIsWindow /\ PassesArePast
  BY DEF Init, InWindow, MapIsWindow, PassesArePast, Never
<1> QED BY <1>1, <1>2, <1>3 DEF DupeInv

(* A repeat keeps the invariant and does what the promise says.            *)
LEMMA RepeatStep ==
  ASSUME DupeInv, NEW d \in Digest, NEW t \in Clock, Repeat(d, t)
  PROVE  DupeInv' /\ Promise!Check(d, t)
<1> DEFINE a == Advanced(t)
<1>1. t \in Nat
  BY DupeConstants
<1>2. /\ a.now \in Nat /\ a.now >= now /\ a.now = Promise!Later(now, t)
      /\ DOMAIN a.seen \subseteq Digest /\ a.seen \in [DOMAIN a.seen -> Nat]
      /\ \A e \in Digest :
           /\ e \in DOMAIN a.seen <=> e \in DOMAIN seen /\ a.now - seen[e] <= Span
           /\ e \in DOMAIN a.seen => a.seen[e] = seen[e]
      /\ a.buckets \in [Slots -> SUBSET Digest]
      /\ \A e \in Digest, s \in Slots :
           e \in a.buckets[s] <=> e \in DOMAIN a.seen /\ Slot(a.seen[e]) = s
  BY <1>1, AdvanceCorrect
<1>3. /\ d \in DOMAIN a.seen /\ now' = a.now /\ seen' = a.seen
      /\ buckets' = a.buckets /\ duplicate' = TRUE /\ lastPass' = lastPass
  BY DEF Repeat
<1> HIDE DEF a
<1> USE SpanType DEF DupeInv, TypeOK
<1>4. TypeOK'
  BY <1>2, <1>3
<1>5. RingMatchesMap'
  BY <1>2, <1>3 DEF RingMatchesMap
<1>6. InWindow' /\ PassesArePast'
  BY <1>2, <1>3 DEF InWindow, PassesArePast, Never
<1>7. MapIsWindow'
  BY <1>2, <1>3 DEF MapIsWindow, Never
<1>8. Promise!Remembered(d, now')
  BY <1>2, <1>3 DEF MapIsWindow, Promise!Remembered, Promise!Span, Span,
                    Promise!Never, Never
<1> QED BY <1>2, <1>3, <1>4, <1>5, <1>6, <1>7, <1>8 DEF Promise!Check

(* A first sighting keeps the invariant and does what the promise says.    *)
LEMMA FirstSightingStep ==
  ASSUME DupeInv, NEW d \in Digest, NEW t \in Clock, FirstSighting(d, t)
  PROVE  DupeInv' /\ Promise!Check(d, t)
<1> DEFINE a == Advanced(t)
<1>1. t \in Nat
  BY DupeConstants
<1>2. /\ a.now \in Nat /\ a.now >= now /\ a.now = Promise!Later(now, t)
      /\ DOMAIN a.seen \subseteq Digest /\ a.seen \in [DOMAIN a.seen -> Nat]
      /\ \A e \in Digest :
           /\ e \in DOMAIN a.seen <=> e \in DOMAIN seen /\ a.now - seen[e] <= Span
           /\ e \in DOMAIN a.seen => a.seen[e] = seen[e]
      /\ a.buckets \in [Slots -> SUBSET Digest]
      /\ \A e \in Digest, s \in Slots :
           e \in a.buckets[s] <=> e \in DOMAIN a.seen /\ Slot(a.seen[e]) = s
  BY <1>1, AdvanceCorrect
<1>3. /\ d \notin DOMAIN a.seen /\ now' = a.now
      /\ seen' = [e \in DOMAIN a.seen \cup {d} |->
                    IF e = d THEN a.now ELSE a.seen[e]]
      /\ buckets' = [a.buckets EXCEPT ![Slot(a.now)] = @ \cup {d}]
      /\ duplicate' = FALSE
      /\ lastPass' = [lastPass EXCEPT ![d] = a.now]
  BY DEF FirstSighting
<1>4. Slot(a.now) \in Slots
  BY <1>2, SlotType
<1> HIDE DEF a
<1> USE SpanType DEF DupeInv, TypeOK
<1>5. TypeOK'
  BY <1>2, <1>3, <1>4
<1>6. /\ DOMAIN seen' = DOMAIN a.seen \cup {d}
      /\ seen'[d] = a.now
      /\ \A e \in DOMAIN a.seen : seen'[e] = a.seen[e]
      /\ lastPass'[d] = a.now
      /\ \A e \in Digest \ {d} : lastPass'[e] = lastPass[e]
  BY <1>2, <1>3
<1>7. RingMatchesMap'
  <2> SUFFICES ASSUME NEW e \in Digest, NEW s \in Slots
               PROVE  e \in buckets'[s] <=> e \in DOMAIN seen' /\ Slot(seen'[e]) = s
    BY DEF RingMatchesMap
  <2>1. CASE e = d
    BY <1>2, <1>3, <1>4, <1>6, <2>1
  <2>2. CASE e # d
    BY <1>2, <1>3, <1>4, <1>6, <2>2
  <2> QED BY <2>1, <2>2
<1>8. InWindow' /\ PassesArePast'
  BY <1>2, <1>3, <1>6 DEF InWindow, PassesArePast, Never
<1>9. MapIsWindow'
  BY <1>2, <1>3, <1>6 DEF MapIsWindow, Never
<1>10. ~ Promise!Remembered(d, now')
  BY <1>2, <1>3 DEF MapIsWindow, Promise!Remembered, Promise!Span, Span,
                    Promise!Never, Never
<1>11. duplicate' = Promise!Remembered(d, now')
  BY <1>3, <1>10 DEF Promise!Remembered
<1>12. /\ now' = Promise!Later(now, t)
       /\ lastPass' = IF duplicate' THEN lastPass
                                   ELSE [lastPass EXCEPT ![d] = now']
  BY <1>2, <1>3
<1> QED BY <1>5, <1>7, <1>8, <1>9, <1>11, <1>12 DEF Promise!Check

(* A stuttering step keeps the invariant.                                  *)
LEMMA DupeStutter == DupeInv /\ UNCHANGED vars => DupeInv'
BY DEF DupeInv, TypeOK, RingMatchesMap, InWindow, MapIsWindow, PassesArePast, vars

(* No step of the detector disturbs its invariant.                         *)
LEMMA DupeNextStep == DupeInv /\ [Next]_vars => DupeInv'
<1> SUFFICES ASSUME DupeInv, [Next]_vars PROVE DupeInv'
  OBVIOUS
<1>1. ASSUME NEW d \in Digest, NEW t \in Clock, Repeat(d, t)
      PROVE  DupeInv'
  BY <1>1, RepeatStep
<1>2. ASSUME NEW d \in Digest, NEW t \in Clock, FirstSighting(d, t)
      PROVE  DupeInv'
  BY <1>2, FirstSightingStep
<1>3. CASE UNCHANGED vars
  BY <1>3, DupeStutter
<1> QED BY <1>1, <1>2, <1>3 DEF Next

(* The invariant holds in every reachable state: the variables are well    *)
(* typed, ring and map agree, and the map holds exactly the digests that   *)
(* passed inside the window.                                               *)
THEOREM DupeInvariant == Spec => []DupeInv
<1>1. Init => DupeInv
  BY DupeInit
<1>2. DupeInv /\ [Next]_vars => DupeInv'
  BY DupeNextStep
<1> QED BY <1>1, <1>2, PTL DEF Spec

(* Type correctness of the detector.                                       *)
THEOREM DupeTypeCorrect == Spec => []TypeOK
<1>1. DupeInv => TypeOK
  BY DEF DupeInv
<1> QED BY <1>1, DupeInvariant, PTL

(* The map and the ring never disagree.                                    *)
THEOREM DupeRingMatchesMap == Spec => []RingMatchesMap
<1>1. DupeInv => RingMatchesMap
  BY DEF DupeInv
<1> QED BY <1>1, DupeInvariant, PTL

(* The map is exactly the window of the packets that passed.               *)
THEOREM DupeMapIsWindow == Spec => []MapIsWindow
<1>1. DupeInv => MapIsWindow
  BY DEF DupeInv
<1> QED BY <1>1, DupeInvariant, PTL

-----------------------------------------------------------------------------
(* Map, ring and lazy eviction implement the rule by age: every answer of  *)
(* check_digest is the one DupeWindow prescribes.                          *)
THEOREM DupeRefinement == Spec => ImplementsWindow
<1>1. Init => Promise!DupeInit
  BY DEF Init, Promise!DupeInit, Promise!Never, Never
<1>2. DupeInv /\ [Next]_vars => [Promise!DupeNext]_(Promise!dupeVars)
  <2> SUFFICES ASSUME DupeInv, [Next]_vars
               PROVE  [Promise!DupeNext]_(Promise!dupeVars)
    OBVIOUS
  <2>1. ASSUME NEW d \in Digest, NEW t \in Clock,
               Repeat(d, t) \/ FirstSighting(d, t)
        PROVE  Promise!DupeNext
    BY <2>1, RepeatStep, FirstSightingStep DEF Promise!DupeNext
  <2>2. CASE UNCHANGED vars
    BY <2>2 DEF vars, Promise!dupeVars
  <2> QED BY <2>1, <2>2 DEF Next
<1> QED BY <1>1, <1>2, DupeInvariant, PTL
        DEF Spec, ImplementsWindow, Promise!DupeSpec

(* The clock never runs back, and a transmission passes twice only more    *)
(* than a window apart.                                                    *)
THEOREM DupePassesAreApart == Spec => PassesAreApart
<1> DEFINE Apart ==
      /\ now' >= now
      /\ ~ duplicate' =>
           \E d \in Digest :
             /\ lastPass'[d] # lastPass[d]
             /\ lastPass[d] # Never => lastPass'[d] - lastPass[d] > Span
<1>1. DupeInv /\ [Next]_vars => [Apart]_vars
  <2> SUFFICES ASSUME DupeInv, NEW d \in Digest, NEW t \in Clock,
                      Repeat(d, t) \/ FirstSighting(d, t)
               PROVE  Apart
    BY DEF Next
  <2>1. Promise!Check(d, t)
    BY RepeatStep, FirstSightingStep
  <2>2. now' \in Nat /\ now' >= now
    BY <2>1, DupeConstants DEF Promise!Check, Promise!Later, DupeInv, TypeOK
  <2>3. ASSUME ~ duplicate'
        PROVE  /\ lastPass'[d] = now'
               /\ lastPass[d] # Never => now' - lastPass[d] > Span
    <3>1. lastPass' = [lastPass EXCEPT ![d] = now']
      BY <2>1, <2>3 DEF Promise!Check
    <3>2. ~ Promise!Remembered(d, now')
      BY <2>1, <2>3 DEF Promise!Check
    <3>3. lastPass[d] \in Nat \cup {Never}
      BY DEF DupeInv, TypeOK
    <3>4. lastPass[d] # Never => now' - lastPass[d] > Span
      BY <2>2, <3>2, <3>3, SpanType
         DEF Promise!Remembered, Promise!Span, Span, Promise!Never, Never
    <3> QED BY <3>1, <3>4 DEF DupeInv, TypeOK
  <2>4. ASSUME ~ duplicate' PROVE lastPass'[d] # lastPass[d]
    BY <2>2, <2>3, <2>4, SpanType DEF Never, DupeInv, TypeOK
  <2> QED BY <2>2, <2>3, <2>4
<1> QED BY <1>1, DupeInvariant, PTL DEF Spec, PassesAreApart
=============================================================================
