----------------------------- MODULE DupeWindow -----------------------------
(***************************************************************************)
(* What the duplicate detector of aprsr-core promises, with no data        *)
(* structure: a transmission passes when it never passed before, or when   *)
(* the last time it passed is more than Window seconds ago on the          *)
(* detector's own clock.  That clock is the latest second it was told.     *)
(*                                                                         *)
(* DupeCheck implements this promise with a map and a ring of buckets;     *)
(* Dispatch uses the promise for the checker its dispatch task owns.       *)
(***************************************************************************)
EXTENDS Integers

CONSTANTS
  Digest,   \* the digests of (source, destination, trimmed payload)
  Window,   \* the configured window in seconds; zero is treated as one
  Clock     \* the seconds the wall clock may show

ASSUME DupeConstants == Window \in Nat /\ Clock \subseteq Nat

VARIABLES
  now,        \* the latest second the detector was advanced to
  lastPass,   \* digest -> second it last passed, Never if it never did
  duplicate   \* the answer to the last check

dupeVars == <<now, lastPass, duplicate>>

-----------------------------------------------------------------------------

Never == -1

(* with_window: a window of zero would remember nothing.                   *)
Span == IF Window = 0 THEN 1 ELSE Window

Later(s, t) == IF t > s THEN t ELSE s

(* Whether d passed at most Span seconds before second t.                  *)
Remembered(d, t) == lastPass[d] # Never /\ t - lastPass[d] <= Span

DupeInit ==
  /\ now = 0
  /\ lastPass = [d \in Digest |-> Never]
  /\ duplicate = FALSE

(* Mutant: a clock set back is trusted, and nothing is in its window yet.  *)
CheckRewound(d, t) ==
  /\ now' = t
  /\ duplicate' = (t >= now /\ Remembered(d, t))
  /\ lastPass' = IF duplicate' THEN lastPass ELSE [lastPass EXCEPT ![d] = t]

(* One call of check_digest(d, t).                                         *)
Check(d, t) ==
  /\ now' = Later(now, t)
  /\ duplicate' = Remembered(d, now')
  /\ lastPass' = IF duplicate' THEN lastPass ELSE [lastPass EXCEPT ![d] = now']

DupeNext == \E d \in Digest, t \in Clock : Check(d, t)

DupeSpec == DupeInit /\ [][DupeNext]_dupeVars
=============================================================================
