------------------------------ MODULE MCQRelay ------------------------------
(***************************************************************************)
(* The relayed packet for TLC: two servers of each kind of port, the       *)
(* packet's station and two that relay it, and paths as a tracker, an      *)
(* IGate and a pre-tagging client send them, all with one report; and with *)
(* the tracker's path, reports in each encoding from the places where the  *)
(* encodings have their edges, and damaged ones.  Hops take one byte.      *)
(***************************************************************************)
EXTENDS QRelay

MCStation == {"N0CALL", "GATE1", "GATE2"}
MCServer == {"T2A", "T2B", "T2C"}
MCTcpip == {"TCPIP", "TCPXX"}
MCAlias == MCTcpip \cup {"WIDE1-1"}
MCLength == [h \in Hop |-> 1]
MCOrigins ==
  {<<>>, <<"TCPIP">>, <<"WIDE1-1">>, <<"WIDE1-1", "WIDE1-1">>,
   <<"GATE2", "WIDE1-1">>, <<"TCPXX", "GATE1">>, <<"GATE2", "WIDE1-1", "TCPIP">>}
  \cup {<<"GATE1", "I">>, <<"WIDE1-1", "GATE1", "I">>, <<"TCPIP", "GATE2", "I">>,
         <<"TCPIP", "qAS", "GATE1", "I">>}
  \cup {<<"TCPIP", c, g>> : c \in {"qAC", "qAR", "qAS", "qAo", "qAI"},
                            g \in {"GATE1", "T2C"}}
  \cup {<<"WIDE1-1", "I">>, <<"TCPIP", "qAo", "I">>, <<"TCPIP", "qAR">>,
         <<"TCPIP", "qAC", "GATE1", "WIDE1-1">>, <<"qAS", "GATE1", "qAo", "GATE2">>}
  \cup {<<"qAR", "GATE2">>, <<"TCPIP", "qAZ", "T2A">>}

-----------------------------------------------------------------------------
(* The encoders of the APRS protocol reference, as a sender has them.      *)

Size10(n) == IF n < 0 THEN -n ELSE n

(* n in so many decimal digits.                                            *)
Decimal(n, width) ==
  [i \in 1 .. width |->
     48 + ((n \div <<100, 10, 1>>[3 - width + i]) % 10)]

Degrees(n) == Size10(n) \div Degree
Minutes(n) == (Size10(n) % Degree) \div MinuteOf
Rest100(n) == Size10(n) % MinuteOf

MinuteText(n) == Decimal(Minutes(n), 2) \o <<Dot>> \o Decimal(Rest100(n), 2)

(* Blanks replace the last digits of the minutes.                          *)
Blanked(minutes, blanks) ==
  LET order == <<5, 4, 2, 1>> IN
  [i \in 1 .. 5 |-> IF \E k \in 1 .. blanks : order[k] = i THEN Space ELSE minutes[i]]

(* The angles that are left, on the earth.                                 *)
Left(n, limit, blanks) ==
  LET size == <<1, 10, 100, 1000, 10000>>[blanks + 1]
      low == Size10(n) - (IF blanks = 4 THEN Size10(n) % Degree ELSE (Size10(n) % Degree) % size)
      high == IF low + size - 1 > limit * Degree THEN limit * Degree ELSE low + size - 1
  IN {IF n < 0 THEN -a ELSE a : a \in low .. high}

Uncompressed(p, blanks) ==
  Decimal(Degrees(p.lat), 2) \o Blanked(MinuteText(p.lat), blanks)
    \o <<IF p.lat >= 0 THEN 78 ELSE 83, 47>>
    \o Decimal(Degrees(p.lon), 3) \o Blanked(MinuteText(p.lon), blanks)
    \o <<IF p.lon >= 0 THEN 69 ELSE 87, 62>>

InBase91(n) ==
  <<33 + (n \div 753571), 33 + ((n \div 8281) % 91), 33 + ((n \div 91) % 91), 33 + (n % 91)>>

(* So many hundredths of a minute, in parts of a degree, rounded up.       *)
Scaled(n, parts, degree) ==
  (n \div Degree) * 2 * degree + ((n % Degree) * degree + parts - 1) \div parts

Compressed(p) ==
  <<47>> \o InBase91(Scaled(90 * Degree - p.lat, 3000, 190463))
         \o InBase91(((p.lon + 180 * Degree) \div Degree) * 190463
                       + ((p.lon % Degree) * 190463 + 5999) \div 6000)
         \o <<62, 32, 115, 84>>

MicEDest(p) ==
  LET d == Decimal(Degrees(p.lat), 2) \o Decimal(Minutes(p.lat), 2) \o Decimal(Rest100(p.lat), 2)
  IN [i \in 1 .. 6 |->
        d[i] + (IF \/ i = 4 /\ p.lat >= 0
                   \/ i = 5 /\ Degrees(p.lon) \notin 10 .. 99
                   \/ i = 6 /\ p.lon < 0 THEN 32 ELSE 0)]

MicEData(p) ==
  LET d == Degrees(p.lon) IN
  <<IF d \in 0 .. 9 THEN d + 118 ELSE IF d \in 10 .. 99 THEN d + 28
    ELSE IF d \in 100 .. 109 THEN d + 8 ELSE d - 72,
    IF Minutes(p.lon) < 10 THEN Minutes(p.lon) + 88 ELSE Minutes(p.lon) + 28,
    Rest100(p.lon) + 28, 108, 32, 32, 62, 47>>

Apz == <<65, 80, 90, 48, 48, 49>>
Time == <<48, 57, 50, 51, 52, 53, 122>>

Meaning(p, blanks, dest, payload) ==
  [dest |-> dest, payload |-> payload,
   means |-> {[lat |-> Left(p.lat, 90, blanks), lon |-> Left(p.lon, 180, blanks)]}]

Damaged(payload) == [dest |-> Apz, payload |-> payload, means |-> {}]

Signs(n) == {n, -n}

Lats == UNION {Signs(n) : n \in {0, 7, 5959, 294350, 539999, 540000}}
Lons == UNION {Signs(d * Degree + m) : d \in {0, 9, 10, 59, 99, 100, 109, 110, 179},
                                         m \in {0, 999, 1000, 5907}}
Places == {Point(lat, 432175) : lat \in Lats} \cup {Point(294350, lon) : lon \in Lons}

ReportsOf(p) ==
  {Meaning(p, 0, Apz, <<33>> \o Uncompressed(p, 0)),
   Meaning(p, 0, Apz, <<64>> \o Time \o Compressed(p)),
   Meaning(p, 0, MicEDest(p), <<96>> \o MicEData(p))}

Home == Point(294350, -432175)
Antimeridian == Point(-294359, -1080000)
East == Point(294350, 432175)

MCReports ==
  UNION {ReportsOf(p) : p \in Places}
    \cup {Meaning(p, blanks, Apz, <<61>> \o Uncompressed(p, blanks)) :
            p \in {Home, Antimeridian, East}, blanks \in 1 .. 4}
    \cup {Meaning(Home, 0, Apz, <<59>> \o [i \in 1 .. 17 |-> 65] \o Uncompressed(Home, 0)),
          Meaning(Home, 0, Apz, <<41, 65, 65, 65, 95>> \o Compressed(Home)),
          Meaning(Home, 0, [MicEDest(Home) EXCEPT ![3] = 65], <<39>> \o MicEData(Home))}
    \cup {Damaged(payload) : payload \in
            {<<33>> \o [Uncompressed(Home, 0) EXCEPT ![8] = 88],
             <<33>> \o [Uncompressed(Home, 0) EXCEPT ![1] = Space],
             <<33>> \o SubSeq(Uncompressed(Home, 0), 1, 12),
             <<33>> \o Uncompressed(Point(540001, 0), 0),
             <<64>> \o Time \o [Compressed(Home) EXCEPT ![1] = 97],
             <<64>> \o Time \o [Compressed(Home) EXCEPT ![3] = 32],
             <<64>> \o Time \o [Compressed(Home) EXCEPT ![2] = 124, ![3] = 124],
             <<41, 65, 65, 95>> \o Compressed(Home),
             <<62, 65>>, <<>>}}
    \cup {[dest |-> MicEDest(Home), payload |-> <<96>> \o [MicEData(Home) EXCEPT ![2] = 27],
           means |-> {}],
          [dest |-> <<65, 80, 77, 48, 48, 49>>, payload |-> <<96>> \o MicEData(Home),
           means |-> {}],
          [dest |-> MicEDest(Point(540100, 0)), payload |-> <<96>> \o MicEData(Home),
           means |-> {}]}

AtHome == Meaning(Home, 0, Apz, <<33>> \o Uncompressed(Home, 0))

MCSent ==
  {[path |-> hops, report |-> AtHome] : hops \in MCOrigins}
    \cup {[path |-> <<"TCPIP">>, report |-> r] : r \in MCReports}
=============================================================================
