------------------------------- MODULE Reports -------------------------------
(***************************************************************************)
(* What a position report says, by the encodings of the APRS Protocol      *)
(* Reference and without a parser: which angles its characters spell, read *)
(* from the side of a sender.  An angle is in hundredths of a minute, and  *)
(* a digit that is left blank may stand for any, so that a report says a   *)
(* set of latitudes and one of longitudes.                                 *)
(*                                                                         *)
(* Nothing here models code; Coordinates has the parsers that are judged   *)
(* by it.  Where a parser is more lenient than the reference and could not *)
(* be said to misread, this follows it: minutes may be 60 and more, blanks *)
(* may be in front of digits, and a digit of base 91 may be 91.            *)
(***************************************************************************)
EXTENDS Coordinates

Power == <<1, 10, 100, 1000>>

(* The digit at a place of a number, from the right.                       *)
Digit(n, place) == (n \div Power[place]) % 10

(* The numbers that these characters may stand for.                        *)
Numbers(bytes) ==
  {n \in 0 .. Power[Len(bytes) + 1] - 1 :
     \A i \in DOMAIN bytes : bytes[i] \in {Space, 48 + Digit(n, Len(bytes) + 1 - i)}}

Angles(degrees, minutes, hundredths) ==
  {d * Degree + m * MinuteOf + h : d \in degrees, m \in minutes, h \in hundredths}

(* Those on one side of the equator or of the meridian, and on the earth.  *)
Within(positive, angles, limit) ==
  {a \in {Signed(positive, n) : n \in angles} : a \in -limit * Degree .. limit * Degree}

Nothing == [lat |-> {}, lon |-> {}]

(* DDMM.hhN/DDDMM.hhW                                                      *)
FormedUncompressed(b) ==
  /\ Len(b) >= 19
  /\ \A i \in {1, 2, 10, 11, 12} : b[i] # Space
  /\ b[5] = Dot /\ b[15] = Dot
  /\ b[8] \in {78, 83} /\ b[18] \in {69, 87} /\ b[9] \in ValidTables

SaysUncompressed(b) ==
  IF ~ FormedUncompressed(b) THEN Nothing
  ELSE [lat |-> Within(b[8] = 78,
                       Angles(Numbers(<<b[1], b[2]>>), Numbers(<<b[3], b[4]>>),
                              Numbers(<<b[6], b[7]>>)), 90),
        lon |-> Within(b[18] = 69,
                       Angles(Numbers(<<b[10], b[11], b[12]>>), Numbers(<<b[13], b[14]>>),
                              Numbers(<<b[16], b[17]>>)), 180)]

(* /YYYYXXXX: a number in base 91 for each, of which so many make a degree *)
(* and which counts from the north pole and from the date line.            *)
Number91(a, b, c, d) ==
  753571 * (a - 33) + 8281 * (b - 33) + 91 * (c - 33) + (d - 33)

(* The hundredths of a minute, rounded down, that v parts of a degree are: *)
(* whole degrees, and r for a rest that is no longer one.                  *)
Turned(v, parts, factor, limit) ==
  {a \in {q * Degree + r : q \in {q \in 0 .. limit : v - q * parts \in 0 .. parts - 1},
                          r \in {r \in 0 .. Degree - 1 :
                                  /\ r * LonDivisor <= (v % parts) * factor
                                  /\ (v % parts) * factor < (r + 1) * LonDivisor}} :
     v <= limit * parts}

FormedCompressed(b) ==
  /\ Len(b) >= 13
  /\ b[1] \in ValidTables \ Digits
  /\ \A i \in 2 .. 9 : b[i] - 33 \in 0 .. 91

SaysCompressed(b) ==
  IF ~ FormedCompressed(b) THEN Nothing
  ELSE [lat |-> {90 * Degree - a :
                   a \in Turned(Number91(b[2], b[3], b[4], b[5]), LatDivisor, LatFactor, 180)},
        lon |-> {a - 180 * Degree :
                   a \in Turned(Number91(b[6], b[7], b[8], b[9]), LonDivisor, LonFactor, 360)}]

(* Mic-E: a digit of the latitude is one of three characters, which also   *)
(* carry the hemispheres; K, L and Z are blanks.  Degrees of the longitude *)
(* below 10 and from 100 to 109 are moved behind those that others use,    *)
(* minutes below 10 behind the others.                                     *)
Blank == {75, 76, 90}

MicENumbers(bytes) ==
  {n \in 0 .. 99 :
     \A i \in {1, 2} : LET d == Digit(n, 3 - i) IN
       bytes[i] \in {48 + d, 65 + d, 80 + d} \cup Blank}

MicELons(b, offset) ==
  Angles({d \in 0 .. 179 :
            b[1] - 28 + (IF offset THEN 100 ELSE 0) \in
              {d} \cup (IF d \in 0 .. 9 THEN {d + 190} ELSE {})
                  \cup (IF d \in 100 .. 109 THEN {d + 80} ELSE {})},
         {m \in 0 .. 59 : b[2] - 28 \in {m, m + 60}},
         {h \in 0 .. 99 : b[3] - 28 = h})

SaysMicE(dest, b) ==
  IF Len(dest) < 6 \/ Len(b) < 8 \/ b[8] \notin ValidTables THEN Nothing
  ELSE [lat |-> Within(dest[4] \in 80 .. 90,
                       Angles(MicENumbers(<<dest[1], dest[2]>>),
                              MicENumbers(<<dest[3], dest[4]>>),
                              MicENumbers(<<dest[5], dest[6]>>)), 90),
        lon |-> {Signed(dest[6] \notin 80 .. 90, n) :
                   n \in MicELons(b, dest[5] \in 80 .. 90)}]

(* Where the position begins: behind the type, a timestamp, the name of an *)
(* object and its timestamp, or an item's name of 3 to 9 characters, which *)
(* ! or _ ends.                                                            *)
PositionAt(payload) ==
  {i \in 2 .. Len(payload) :
     \/ payload[1] \in {33, 61} /\ i = 2
     \/ payload[1] \in {47, 64} /\ i = 9
     \/ payload[1] = 59 /\ i = 19
     \/ /\ payload[1] = 41 /\ i \in 6 .. 12
        /\ payload[i - 1] \in {33, 95}
        /\ \A j \in 2 .. i - 2 : payload[j] \notin {33, 95}}

Readings(dest, payload) ==
  (UNION {{SaysUncompressed(Behind(payload, i)), SaysCompressed(Behind(payload, i))} :
            i \in PositionAt(payload)})
    \cup (IF payload # <<>> /\ payload[1] \in {96, 39, 28, 29}
          THEN {SaysMicE(dest, Behind(payload, 2))} ELSE {})

(* What the report says: both angles, or nothing.                          *)
Said(dest, payload) ==
  {said \in Readings(dest, payload) : said.lat # {} /\ said.lon # {}}
=============================================================================
