----------------------------- MODULE DupeCheck ------------------------------
(***************************************************************************)
(* The duplicate detector (aprsr-core/src/dupecheck.rs).                   *)
(*                                                                         *)
(* `seen` maps the digest of each remembered packet to the second it was   *)
(* first seen, and a ring of Span + 1 buckets lists, per second, the       *)
(* digests inserted in it, so that expiry walks buckets and never scans    *)
(* the map.  Nothing refreshes an entry: a repeat leaves it as it is.      *)
(*                                                                         *)
(* A digest is a value of the set Digest, so distinct transmissions have   *)
(* distinct digests: collisions of the 64-bit hash are not modelled.  A    *)
(* bucket is the set of the digests in the code's Vec, whose order no      *)
(* operation reads.  The u64 counters `checked` and `duplicates` feed      *)
(* only statistics and are left out.                                       *)
(***************************************************************************)
EXTENDS Integers, FiniteSets

CONSTANTS Digest, Window, Clock

ASSUME DupeConstants == Window \in Nat /\ Clock \subseteq Nat

VARIABLES
  seen,        \* digest -> second first seen, for the digests remembered
  buckets,     \* slot -> digests inserted during the slot's second
  now,         \* the latest second the detector was advanced to
  lastPass,    \* history: digest -> second check last answered "not a duplicate"
  duplicate    \* the answer to the last check

vars == <<seen, buckets, now, lastPass, duplicate>>

-----------------------------------------------------------------------------

Never == -1

Span == IF Window = 0 THEN 1 ELSE Window

(* One more than the window, so that the slot written is never the slot    *)
(* being evicted.                                                          *)
BucketCountExact == Span       \* mutant: no extra bucket
BucketCount == Span + 1

Slots == 0 .. Span

Slot(second) == second % BucketCount

(* What advance_to(t) leaves of the state, as a record: nothing changes    *)
(* unless t is later than now; everything goes when the whole ring turned  *)
(* over; otherwise the slots of the seconds now + 1 .. t are drained.      *)
Turned(t) == {Slot(now + step) : step \in 1 .. t - now}

Expired(t) == UNION {buckets[s] : s \in Turned(t)}

(* Mutants: the ring itself is cleared; the map is not; the guard against   *)
(* a clock that runs back is missing.                                      *)
AdvancedLosesRing(t) ==
  IF t <= now THEN [now |-> now, seen |-> seen, buckets |-> buckets]
  ELSE IF t - now >= BucketCount
    THEN [now |-> t, seen |-> [d \in {} |-> 0], buckets |-> [s \in {} |-> {}]]
  ELSE [now |-> t,
        seen |-> [d \in DOMAIN seen \ Expired(t) |-> seen[d]],
        buckets |-> [s \in Slots |-> IF s \in Turned(t) THEN {} ELSE buckets[s]]]

AdvancedKeepsMap(t) ==
  IF t <= now THEN [now |-> now, seen |-> seen, buckets |-> buckets]
  ELSE IF t - now >= BucketCount
    THEN [now |-> t, seen |-> seen, buckets |-> [s \in Slots |-> {}]]
  ELSE [now |-> t,
        seen |-> [d \in DOMAIN seen \ Expired(t) |-> seen[d]],
        buckets |-> [s \in Slots |-> IF s \in Turned(t) THEN {} ELSE buckets[s]]]

AdvancedEitherWay(t) ==
  [now |-> t,
   seen |-> [d \in DOMAIN seen \ Expired(t) |-> seen[d]],
   buckets |-> [s \in Slots |-> IF s \in Turned(t) THEN {} ELSE buckets[s]]]

Advanced(t) ==
  IF t <= now THEN [now |-> now, seen |-> seen, buckets |-> buckets]
  ELSE IF t - now >= BucketCount
    THEN [now |-> t,
          seen |-> [d \in {} |-> 0],
          buckets |-> [s \in Slots |-> {}]]
  ELSE [now |-> t,
        seen |-> [d \in DOMAIN seen \ Expired(t) |-> seen[d]],
        buckets |-> [s \in Slots |-> IF s \in Turned(t) THEN {} ELSE buckets[s]]]

-----------------------------------------------------------------------------

Init ==
  /\ seen = [d \in {} |-> 0]
  /\ buckets = [s \in Slots |-> {}]
  /\ now = 0
  /\ lastPass = [d \in Digest |-> Never]
  /\ duplicate = FALSE

(* Mutant: a repeat refreshes the entry.                                   *)
RepeatRefreshes(d, t) ==
  LET a == Advanced(t) IN
  /\ d \in DOMAIN a.seen
  /\ now' = a.now
  /\ seen' = [a.seen EXCEPT ![d] = a.now]
  /\ buckets' = [s \in Slots |-> IF s = Slot(a.now) THEN a.buckets[s] \cup {d}
                                 ELSE a.buckets[s] \ {d}]
  /\ duplicate' = TRUE
  /\ UNCHANGED lastPass

(* check_digest(d, t) finds d in the map: nothing is inserted.             *)
Repeat(d, t) ==
  LET a == Advanced(t) IN
  /\ d \in DOMAIN a.seen
  /\ now' = a.now
  /\ seen' = a.seen
  /\ buckets' = a.buckets
  /\ duplicate' = TRUE
  /\ UNCHANGED lastPass

(* check_digest(d, t) does not find d: it is remembered under the second   *)
(* the detector is now at, which is not t when t lies in the past.         *)
FirstSighting(d, t) ==
  LET a == Advanced(t) IN
  /\ d \notin DOMAIN a.seen
  /\ now' = a.now
  /\ seen' = [e \in DOMAIN a.seen \cup {d} |-> IF e = d THEN a.now ELSE a.seen[e]]
  /\ buckets' = [a.buckets EXCEPT ![Slot(a.now)] = @ \cup {d}]
  /\ duplicate' = FALSE
  /\ lastPass' = [lastPass EXCEPT ![d] = a.now]

Next == \E d \in Digest, t \in Clock : Repeat(d, t) \/ FirstSighting(d, t)

Spec == Init /\ [][Next]_vars

-----------------------------------------------------------------------------

(* Every variable has its type; `seen` is defined on some of the digests.  *)
TypeOK ==
  /\ now \in Nat
  /\ DOMAIN seen \subseteq Digest
  /\ seen \in [DOMAIN seen -> Nat]
  /\ buckets \in [Slots -> SUBSET Digest]
  /\ lastPass \in [Digest -> Nat \cup {Never}]
  /\ duplicate \in BOOLEAN

(* The map and the ring tell the same story: a digest lies in a bucket     *)
(* exactly when the map remembers it for a second of that bucket's slot.   *)
(* An entry in the map without its bucket would be suppressed for ever,    *)
(* and one bucket draining another second's entry would re-admit it early. *)
RingMatchesMap ==
  \A d \in Digest, s \in Slots :
    d \in buckets[s] <=> d \in DOMAIN seen /\ Slot(seen[d]) = s

(* A remembered second is inside the window that ends at now.              *)
InWindow == \A d \in DOMAIN seen : seen[d] <= now /\ now - seen[d] <= Span

(* The map remembers exactly the digests that passed within the window,    *)
(* under the second they passed: a repeat neither refreshes an entry nor   *)
(* loses it, whatever jumps the clock made in between.                     *)
MapIsWindow ==
  \A d \in Digest :
    /\ d \in DOMAIN seen <=> lastPass[d] # Never /\ now - lastPass[d] <= Span
    /\ d \in DOMAIN seen => seen[d] = lastPass[d]

(* The passes recorded so far lie in the detector's past.                  *)
PassesArePast == \A d \in Digest : lastPass[d] <= now

DupeInv ==
  /\ TypeOK
  /\ RingMatchesMap
  /\ InWindow
  /\ MapIsWindow
  /\ PassesArePast

-----------------------------------------------------------------------------

(* The map and the ring implement the age rule of DupeWindow.              *)
Promise == INSTANCE DupeWindow
  WITH now <- now, lastPass <- lastPass, duplicate <- duplicate
ImplementsWindow == Promise!DupeSpec

(* Time never runs backwards for the detector, and the same transmission   *)
(* passes twice only more than a window apart, also when the wall clock is *)
(* set back (dupecheck.rs: "the window can never be rewound into           *)
(* re-admitting duplicates").                                              *)
PassesAreApart ==
  [][/\ now' >= now
     /\ ~ duplicate' =>
          \E d \in Digest :
            /\ lastPass'[d] # lastPass[d]
            /\ lastPass[d] # Never => lastPass'[d] - lastPass[d] > Span]_vars
=============================================================================
