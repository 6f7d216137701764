----------------------------- MODULE MCFilters -----------------------------
(***************************************************************************)
(* Filters for TLC: a station's client and an IGate's client on one port,  *)
(* positions, an object and a message, direct, gated and looping, and      *)
(* expressions that use every filter, negated ones among them, or are      *)
(* malformed or over one of the limits.                                    *)
(* The world is a small grid whose distance counts steps.                  *)
(***************************************************************************)
EXTENDS Filters

CONSTANTS walker, gate

MCCallOf == [c \in Client |-> IF c = walker THEN "N0CALL" ELSE "GATE1"]
MCTcpip == {"TCPIP"}
MCAlias == MCTcpip \cup {"WIDE1-1"}
MCLength == [h \in Hop |-> 1]

Here == [lat |-> 0, lon |-> 0]
There == [lat |-> 0, lon |-> 3]
MCPlace == {Here, There}
Gap(m, n) == IF m > n THEN m - n ELSE n - m
MCDistance(p, q) == Gap(p.lat, q.lat) + Gap(p.lon, q.lon)

MCNumbers == {"0", "1", "2", "-1", "91"}
MCValue == [n \in MCNumbers |->
              CASE n = "0" -> 0 [] n = "1" -> 1 [] n = "2" -> 2
                [] n = "-1" -> -1 [] n = "91" -> 91]

Args == MCNumbers \cup {"", "p", "no", "C", "I", ">", "N0CALL", "GATE*", "SKYWARN", "APRS", "T2A", "GATE1", "WIDE1-1"}
MCChars == [x \in Args |->
              CASE x = "no" -> {"n", "o"}
                [] x \in {"p", "C", "I", ">"} -> {x}
                [] OTHER -> {"?"} \ {IF x = "" THEN "?" ELSE ""}]
MCFits == [x \in Args |-> IF x = "GATE*" THEN {"GATE1"} ELSE {x}]
MCBegins == MCFits
MCNwsNames == {"SKYWARN"}

Plain(source, path, login) ==
  [source |-> source, dest |-> "APRS", path |-> path, digis |-> {}, login |-> login,
   kind |-> "position", place |-> Here, symbol |-> [table |-> "/", code |-> ">"],
   name |-> NoName, addressee |-> NoName]

Report == Plain("N0CALL", <<"TCPIP">>, "N0CALL")
Gated == [Plain("N0CALL", <<"WIDE1-1", "GATE1", "I">>, "GATE1") EXCEPT
            !.place = There, !.digis = {"WIDE1-1"}]
MCPacket ==
  {Report, [Report EXCEPT !.place = There], Gated,
   Plain("GATE1", <<>>, "GATE1"),
   [Report EXCEPT !.kind = "object", !.place = There, !.name = "SKYWARN"],
   [Gated EXCEPT !.kind = "message", !.place = Nowhere, !.symbol = NoSymbol,
                 !.addressee = "GATE1"],
   [Report EXCEPT !.path = <<"qAC", "T2A">>]}

F(code, args) == [negated |-> FALSE, code |-> code, args |-> args]
Not(filter) == [filter EXCEPT !.negated = TRUE]
MCExpression ==
  {<<F("m", <<"1">>), F("a", <<"1", "2", "0", "-1">>), F("p", <<"GATE*">>)>>,
   <<F("f", <<"N0CALL", "1">>), F("t", <<"no">>), F("o", <<"", "SKYWARN">>)>>,
   <<F("t", <<"p", "N0CALL", "2">>), Not(F("e", <<"GATE*">>)), F("u", <<"APRS">>)>>,
   <<F("q", <<"C", "I">>), F("g", <<"GATE*">>), F("s", <<">">>)>>,
   <<F("r", <<"0", "1", "2">>), Not(F("b", <<"GATE*">>)), F("d", <<"WIDE1-1">>)>>,
   <<F("u", <<"APRS">>), F("g", <<"GATE1">>), F("e", <<"T2A">>), F("m", <<"1">>)>>,
   <<F("a", <<"1", "2", "0", "-1">>), F("a", <<"1", "0", "0", "2">>)>>,
   <<F("r", <<"91", "0", "1">>)>>, <<F("m", <<"0">>)>>, <<F("m", <<"1">>)>>, <<F("b", <<"">>)>>,
   <<F("b", <<"GATE1", "GATE1", "N0CALL">>)>>}
=============================================================================
