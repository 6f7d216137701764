----------------------------- MODULE Coordinates -----------------------------
(***************************************************************************)
(* Where a packet says its station is: the three encodings of a position   *)
(* (aprsr-core/src/aprs/position.rs) and the part of aprs::parse that      *)
(* chooses among them (aprs/mod.rs).                                       *)
(*                                                                         *)
(* An information field is a sequence of bytes.  A place is [lat, lon] in  *)
(* hundredths of a minute, positive north and east; the code computes in   *)
(* degrees as f64, and what a compressed position says beyond a hundredth  *)
(* of a minute is dropped here.  What may fail is a set: of the result, or *)
(* of nothing.                                                             *)
(***************************************************************************)
EXTENDS Integers, Sequences

Degree == 6000
MinuteOf == 100

Point(lat, lon) == [lat |-> lat, lon |-> lon]

(* Position::new.                                                          *)
InRange(p) == p.lat \in -90 * Degree .. 90 * Degree /\ p.lon \in -180 * Degree .. 180 * Degree

Position(lat, lon) == {p \in {Point(lat, lon)} : InRange(p)}

Signed(positive, value) == IF positive THEN value ELSE -value

(* has_valid_table: / \ 0-9 A-Z.                                           *)
ValidTables == {47, 92} \cup 48 .. 57 \cup 65 .. 90

-----------------------------------------------------------------------------
(* Uncompressed: DDMM.hhN/DDDMM.hhW$.                                      *)

Space == 32
Dot == 46
Digits == 48 .. 57

DigitOf(byte) == IF byte = Space THEN 0 ELSE byte - 48

TwoDigits(b, i) == 10 * DigitOf(b[i]) + DigitOf(b[i + 1])

ThreeDigits(b, i) == 10 * TwoDigits(b, i) + DigitOf(b[i + 2])

AllIn(b, positions, allowed) == \A i \in positions : b[i] \in allowed

ParseUncompressed(b) ==
  IF /\ Len(b) >= 19
     /\ AllIn(b, {1, 2, 10, 11, 12}, Digits)
     /\ AllIn(b, {3, 4, 6, 7, 13, 14, 16, 17}, Digits \cup {Space})
     /\ b[5] = Dot /\ b[15] = Dot
     /\ b[8] \in {78, 83}                      \* N, S
     /\ b[18] \in {69, 87}                     \* E, W
     /\ b[9] \in ValidTables
  THEN Position(
         Signed(b[8] = 78, TwoDigits(b, 1) * Degree + TwoDigits(b, 3) * MinuteOf
                             + TwoDigits(b, 6)),
         Signed(b[18] = 69, ThreeDigits(b, 10) * Degree + TwoDigits(b, 13) * MinuteOf
                              + TwoDigits(b, 16)))
  ELSE {}

-----------------------------------------------------------------------------
(* Compressed: /YYYYXXXX$csT in base 91.                                   *)

Base91(b, i) ==
  91 * (91 * (91 * (b[i] - 33) + (b[i + 1] - 33)) + (b[i + 2] - 33)) + (b[i + 3] - 33)

LatDivisor == 380926
LonDivisor == 190463

(* raw / divisor degrees.  LatDivisor is twice LonDivisor, so that half as *)
(* many hundredths of a minute per LonDivisor do, and no product exceeds   *)
(* an Int of TLC.                                                          *)
LatFactor == 3000
LonFactor == 6000

Hundredths(raw, divisor, factor) ==
  (raw \div divisor) * Degree + ((raw % divisor) * factor) \div LonDivisor

ParseCompressed(b) ==
  IF Len(b) >= 13 /\ b[1] \in ValidTables /\ AllIn(b, 2 .. 9, 33 .. 124)
  THEN LET lat == Base91(b, 2)
           lon == Base91(b, 6)
       IN {p \in Position(90 * Degree - Hundredths(lat, LatDivisor, LatFactor),
                          -180 * Degree + Hundredths(lon, LonDivisor, LonFactor)) :
             lat <= 180 * LatDivisor /\ lon <= 360 * LonDivisor}
  ELSE {}

-----------------------------------------------------------------------------
(* Mic-E: the latitude in the destination, the longitude in three bytes.   *)

MicEDigit(c) ==
  CASE c \in Digits -> {c - 48}
    [] c \in 65 .. 74 -> {c - 65}              \* A-J
    [] c \in 80 .. 89 -> {c - 80}              \* P-Y
    [] c \in {75, 76, 90} -> {0}               \* K, L, Z
    [] OTHER -> {}

Custom(c) == c \in 80 .. 90                    \* P-Z

(* The degrees of the longitude: the codes of 100-109 and of 0-9 are       *)
(* wrapped back.                                                           *)
MicEDegreesShort(byte, offset) ==    \* mutant: the last code of each is left out
  LET d == byte - 28 + (IF offset THEN 100 ELSE 0) IN
  IF d \in 180 .. 188 THEN d - 80 ELSE IF d \in 190 .. 198 THEN d - 190 ELSE d

MicEDegrees(byte, offset) ==
  LET d == byte - 28 + (IF offset THEN 100 ELSE 0) IN
  IF d \in 180 .. 189 THEN d - 80 ELSE IF d \in 190 .. 199 THEN d - 190 ELSE d

MicEMinutes(byte) == IF byte - 28 >= 60 THEN byte - 88 ELSE byte - 28

ParseMicE(dest, b) ==
  IF Len(dest) < 6 \/ Len(b) < 8 \/ \E i \in 1 .. 6 : MicEDigit(dest[i]) = {} THEN {}
  ELSE LET digit == [i \in 1 .. 6 |-> CHOOSE d \in MicEDigit(dest[i]) : TRUE]
           degrees == MicEDegrees(b[1], Custom(dest[5]))
           minutes == MicEMinutes(b[2])
           hundredths == b[3] - 28
           lat == (10 * digit[1] + digit[2]) * Degree + (10 * digit[3] + digit[4]) * MinuteOf
                    + 10 * digit[5] + digit[6]
       IN {p \in Position(Signed(Custom(dest[4]), lat),
                          Signed(~ Custom(dest[6]),
                                 degrees * Degree + minutes * MinuteOf + hundredths)) :
             /\ degrees \in 0 .. 179 /\ minutes \in 0 .. 59 /\ hundredths \in 0 .. 99
             /\ b[8] \in ValidTables}

-----------------------------------------------------------------------------
(* aprs::parse, as far as the position goes.                               *)

Behind(bytes, n) == SubSeq(bytes, n, Len(bytes))

(* apply_position: uncompressed, else compressed.                          *)
ApplyPosition(data) ==
  IF ParseUncompressed(data) # {} THEN ParseUncompressed(data) ELSE ParseCompressed(data)

(* split_item_name: the position behind the first ! or _ of an item.       *)
ItemData(rest) ==
  LET ends == {i \in DOMAIN rest : rest[i] \in {33, 95}}
      first == CHOOSE i \in ends : \A j \in ends : i <= j
  IN IF ends # {} /\ first - 1 \in 3 .. 9 THEN Behind(rest, first + 1) ELSE <<>>

Placed(dest, payload) ==
  IF payload = <<>> THEN {}
  ELSE CASE payload[1] \in {33, 61} -> ApplyPosition(Behind(payload, 2))       \* ! =
         [] payload[1] \in {47, 64} -> ApplyPosition(Behind(payload, 9))       \* / @
         [] payload[1] = 59 -> ApplyPosition(Behind(payload, 19))              \* ;
         [] payload[1] = 41 -> ApplyPosition(ItemData(Behind(payload, 2)))     \* )
         [] payload[1] \in {96, 39, 28, 29} -> ParseMicE(dest, Behind(payload, 2))
         [] OTHER -> {}
=============================================================================
