------------------------------ MODULE Intervals ------------------------------
(***************************************************************************)
(* Interval, the durations of aprsr.toml and aprsc.conf                    *)
(* (aprsr-config/src/duration.rs).                                         *)
(*                                                                         *)
(* The text of an interval is a sequence of groups [count, unit], a number *)
(* and the letter behind it: 1h30m is <<[1, h], [30, m]>>.  A number with  *)
(* nothing behind it has the unit "", a letter with nothing in front of it *)
(* the count NoCount; "?" stands for any letter that is no unit.           *)
(*                                                                         *)
(* What may fail is a set: of the value, or of nothing.                    *)
(***************************************************************************)
EXTENDS Integers, Sequences

CONSTANT MaxU64   \* the largest u64

ASSUME IntervalConstants == MaxU64 \in Nat

NoCount == -1

SecondsIn == [d |-> 86400, h |-> 3600, m |-> 60, s |-> 1]

(* One turn of the loop of parse: checked_mul, checked_add.                *)
Added(total, group) ==
  {t + group.count * SecondsIn[group.unit] :
     t \in {t \in total :
              /\ group.unit \in DOMAIN SecondsIn
              /\ group.count \in 0 .. MaxU64
              /\ group.count <= (MaxU64 - t) \div SecondsIn[group.unit]}}

(* The total after the groups of the text, one turn at a time.             *)
Summed(text) ==
  LET total[i \in 0 .. Len(text)] == IF i = 0 THEN {0} ELSE Added(total[i - 1], text[i])
  IN total[Len(text)]

(* Interval::parse: a bare number is seconds.                              *)
ParseInterval(text) ==
  IF text = <<>> THEN {}
  ELSE IF Len(text) = 1 /\ text[1].unit = "" THEN {text[1].count} \cap 0 .. MaxU64
  ELSE Summed(text)

(* How often a unit goes into what the larger ones leave.                  *)
CountOf(seconds, unit) ==
  CASE unit = "d" -> seconds \div SecondsIn.d
    [] unit = "h" -> (seconds % SecondsIn.d) \div SecondsIn.h
    [] unit = "m" -> (seconds % SecondsIn.h) \div SecondsIn.m
    [] unit = "s" -> seconds % SecondsIn.m

Part(seconds, unit) ==
  IF CountOf(seconds, unit) = 0 THEN <<>>
  ELSE <<[count |-> CountOf(seconds, unit), unit |-> unit]>>

(* Display: the units that occur, the largest first.                       *)
RenderIntervalByHour(seconds) ==    \* mutant: days are not written
  Part(seconds, "h") \o Part(seconds, "m") \o Part(seconds, "s")

RenderInterval(seconds) ==
  IF seconds = 0 THEN <<[count |-> 0, unit |-> "s"]>>
  ELSE Part(seconds, "d") \o Part(seconds, "h") \o Part(seconds, "m") \o Part(seconds, "s")
=============================================================================
