----------------------------- MODULE MCSessions -----------------------------
(***************************************************************************)
(* The life of connections for TLC: connections x and y on one port with   *)
(* room for a single client, z on a port without a cap, w on one that      *)
(* forces a filter; and what they send for a login.                        *)
(***************************************************************************)
EXTENDS Sessions, TLC

CONSTANTS w, x, y, z, capped, open, held

MCOn == [c \in Conn |-> CASE c = z -> open [] c = w -> held [] OTHER -> capped]
MCCapped == {capped} \cap Listener
MCLimit == [l \in Listener |-> 1]
MCSymmetry == Permutations(Conn \ {w, z})

MCIgate == {open, held} \cap Listener
MCForced == [l \in Listener |-> IF l = held THEN {<<"m/50">>} ELSE {}]
MCChains == {<<"m/50">>, <<"p/N", "-b/N0CALL">>}

MCLowered == ("USER" :> "user") @@ ("Filter" :> "filter") @@ ("UDP" :> "udp")
               @@ ("n0call" :> "n0call")
MCNumeral == ("-1" :> -1) @@ ("13023" :> 13023) @@ ("14580" :> 14580) @@ ("70000" :> 70000)
N0CALL == <<78, 48, 67, 65, 76, 76>>
MCBytes == ("N0CALL" :> N0CALL) @@ ("N0CALL-13" :> N0CALL \o <<45, 49, 51>>)
             @@ ("N0CALL-130" :> N0CALL \o <<45, 49, 51, 48>>)
             @@ ("N0" :> <<78, 48>>)
             @@ ("n0call" :> <<110, 48, 99, 97, 108, 108>>)
             @@ ("W1AW" :> <<87, 49, 65, 87>>)

(* The vectors of passcode.rs.                                             *)
ASSUME Vectors ==
  /\ Generate(N0CALL) = 13023
  /\ Generate(MCBytes["W1AW"]) = 25988
  /\ Generate(MCBytes["n0call"]) = 13023

Means(words, callsign, verified, software, filter) ==
  [words |-> words,
   means |-> {[callsign |-> callsign, verified |-> verified,
               software |-> software, filter |-> filter]}]

Nonsense(words) == [words |-> words, means |-> {}]

Plain ==
  Means(<<"user", "N0CALL", "pass", "13023">>, "N0CALL", TRUE, {}, {})

MCFirstLine ==
  {Plain,
   Means(<<"USER", "N0CALL-13", "pass", "13023", "vers", "filter", "1.0", "Filter",
           "p/N", "-b/N0CALL">>,
         "N0CALL-13", TRUE, {<<"filter", "1.0">>}, {<<"p/N", "-b/N0CALL">>}),
   Means(<<"user", "N0CALL", "pass", "-1", "vers", "soft", "udp", "UDP", "14580",
           "filter", "m/50">>,
         "N0CALL", FALSE, {<<"soft", "udp">>}, {<<"m/50">>}),
   Means(<<"user", "W1AW", "pass", "13023", "keepalive", "filter", "x/", "filter">>,
         "W1AW", FALSE, {}, {}),
   Nonsense(<<"user", "N0CALL", "pass", "13023", "udp", "70000">>),
   Nonsense(<<"user", "N0CALL", "pass", "13023", "vers", "soft", "1", "udp">>),
   Nonsense(<<"user", "n0call", "pass", "13023">>),
   Nonsense(<<"user", "N0CALL-130", "pass", "13023">>),
   Nonsense(<<"user", "N0", "pass", "-1">>),
   Nonsense(<<"user", "N0CALL", "13023", "pass">>),
   Nonsense(<<"user", "N0CALL", "pass", "N0CALL">>),
   Nonsense(<<"user", "N0CALL", "pass">>),
   Nonsense(<<"N0CALL>APRS:>hello">>)}

MCTwoLines == {Plain, Nonsense(<<"user", "N0CALL", "pass">>)}
MCOneLine == {Plain}
=============================================================================
