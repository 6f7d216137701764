------------------------------ MODULE MCStartup ------------------------------
(* An instance of Startup: the lines of a small aprsc.conf, what they mean,*)
(* and what the operator and the environment may change.                   *)
EXTENDS Startup

(* How a line is spelled: a token of several words, or of none, in quotes. *)
Spelled(token) ==
  IF Len(token) = 1 THEN token \o <<Blank>>
  ELSE <<Quote>> \o token \o <<Quote, Blank>>

Spelling(tokens) == FlattenSeq([i \in DOMAIN tokens |-> Spelled(tokens[i])])

Sets(directive, token, key, value) ==
  [raw |-> Spelling(<<<<directive>>, token>>),
   tokens |-> {<<<<directive>>, token>>},
   means |-> [kind |-> "setting", key |-> key, value |-> value, left |-> {}]]

Listens(name, rest, value, left) ==
  [raw |-> Spelling(<<<<"Listen">>, name>> \o rest),
   tokens |-> {<<<<"Listen">>, name>> \o rest},
   means |-> [kind |-> "listener", left |-> left,
              value |-> [name |-> name] @@ value]]

Words(words) == [i \in DOMAIN words |-> <<words[i]>>]

Says(words, means) ==
  [raw |-> Spelling(Words(words)), tokens |-> {Words(words)}, means |-> means]

Wrong(words) == Says(words, [kind |-> "error"])

Full == [kind |-> "fullfeed", protocol |-> "tcp", bind |-> <<"0.0.0.0", 10152>>,
         filter |-> {}, max_clients |-> {}, hidden |-> TRUE]
Igate == [kind |-> "igate", protocol |-> "tcp", bind |-> <<"0.0.0.0", 14580>>,
          filter |-> {}, max_clients |-> {}, hidden |-> FALSE]
Twin == [Igate EXCEPT !.bind = <<"::", 14580>>]
Submit == [Igate EXCEPT !.kind = "udpsubmit", !.protocol = "udp"]
Held == [Igate EXCEPT !.filter = {<<"m/50">>}, !.max_clients = {10},
                      !.bind = <<"0.0.0.0", 10152>>]
Unheld == [Held EXCEPT !.filter = {<<"zz">>}, !.max_clients = {}]

HashInName == <<"Ann", Blank, Hash, Blank, "OH2">>

MCLines == {
  Sets("ServerId", <<"T2AAA">>, "id", <<"T2AAA">>),
  Sets("SERVERID", <<"nocall">>, "id", <<"nocall">>),
  Sets("ServerId", <<"T2/AAA">>, "id", <<"T2/AAA">>),
  Sets("PassCode", <<"-1">>, "passcode", -1),
  Sets("ClientTimeout", <<"1d2h5s">>, "client_timeout", 93605),
  Sets("ClientTimeout", <<"90">>, "client_timeout", 90),
  Sets("UpstreamTimeout", <<"0s">>, "upstream_timeout", 0),
  Sets("FileLimit", <<"450000">>, "file_limit", 450000),
  Sets("RunDir", <<"/var/aprs">>, "run_dir", <<"/var/aprs">>),
  [Sets("MyAdmin", HashInName, "admin", HashInName)
     EXCEPT !.raw = @ \o <<Hash, Quote>>],
  Listens(<<"Full", Blank, "feed">>,
          Words(<<"fullfeed", "tcp", "0.0.0.0", "10152", "HIDDEN", "filter">>), Full,
          {<<"filter">>}),
  Listens(NoText, Words(<<"igate", "tcp", "0.0.0.0", "14580">>), Igate, {}),
  Listens(NoText, Words(<<"igate", "tcp", "::", "14580">>), Twin, {}),
  Listens(<<"Sub">>, Words(<<"udpsubmit", "udp", "0.0.0.0", "14580">>), Submit, {}),
  Listens(<<"SUB">>,
          Words(<<"igate", "tcp", "0.0.0.0", "10152", "ibc", "acl", "hidden",
                  "filter", "m/50", "maxclients", "10">>),
          Held, {<<"ibc">>, <<"acl">>}),
  Listens(<<"User">>,
          Words(<<"igate", "tcp", "0.0.0.0", "10152", "filter", "zz">>), Unheld, {}),
  Says(<<"Uplink", "Core", "ro", "tcp", "rotate", "10152", "ssl">>,
       [kind |-> "uplink", left |-> {<<"tcp">>, <<"ssl">>},
        value |-> [name |-> <<"Core">>, kind |-> "readonly",
                   address |-> <<<<"rotate">>, 10152>>]]),
  Says(<<"HTTPStatus", "0.0.0.0", "14501", "hidden">>,
       [kind |-> "setting", key |-> "status_bind", left |-> {<<"hidden">>},
        value |-> {<<"0.0.0.0", 14501>>}]),
  Says(<<"MagicBadness", "42.7">>, [kind |-> "unsupported", value |-> <<"MagicBadness">>]),
  [raw |-> <<Hash, "ServerId", Blank, Quote>>, tokens |-> {<<>>},
   means |-> [kind |-> "nothing"]],
  [raw |-> <<"MyEmail", Blank, Quote, "a@b">>, tokens |-> {}, means |-> [kind |-> "error"]],
  Wrong(<<"ServerId", "T2AAA", "T2BBB">>),
  Wrong(<<"ClientTimeout", "9d">>),
  Wrong(<<"HTTPStatus", "0.0.0.0">>),
  Wrong(<<"Listen", "a", "igate", "sctp", "::", "14580">>),
  Wrong(<<"Uplink", "Core", "rw", "tcp", "rotate", "10152">>) }

MCNumeral == [w \in {"-1", "90", "450000", "10", "10152", "14580", "14501"} |->
                CASE w = "-1" -> -1 [] w = "90" -> 90 [] w = "450000" -> 450000
                  [] w = "10" -> 10 [] w = "10152" -> 10152
                  [] w = "14580" -> 14580 [] w = "14501" -> 14501]

Group(count, unit) == [count |-> count, unit |-> unit]

MCIntervalText ==
  [w \in {"1d2h5s", "90", "0s", "9d"} |->
     CASE w = "1d2h5s" -> <<Group(1, "d"), Group(2, "h"), Group(5, "s")>>
       [] w = "90" -> <<Group(90, "")>>
       [] w = "0s" -> <<Group(0, "s")>>
       [] w = "9d" -> <<Group(9, "d")>>]

MCLowered ==
  [w \in {"NOCALL", "ServerId", "SERVERID", "PassCode", "ClientTimeout", "UpstreamTimeout",
          "FileLimit", "RunDir", "MyAdmin", "MyEmail", "Listen", "Uplink", "HTTPStatus",
          "MagicBadness", "HIDDEN", "SUB", "Sub"} |->
     CASE w = "NOCALL" -> "nocall" [] w \in {"ServerId", "SERVERID"} -> "serverid"
       [] w = "PassCode" -> "passcode" [] w = "ClientTimeout" -> "clienttimeout"
       [] w = "UpstreamTimeout" -> "upstreamtimeout" [] w = "FileLimit" -> "filelimit"
       [] w = "RunDir" -> "rundir" [] w = "MyAdmin" -> "myadmin"
       [] w = "MyEmail" -> "myemail" [] w = "Listen" -> "listen"
       [] w = "Uplink" -> "uplink" [] w = "HTTPStatus" -> "httpstatus"
       [] w = "MagicBadness" -> "magicbadness" [] w = "HIDDEN" -> "hidden"
       [] w \in {"SUB", "Sub"} -> "sub"]

MCBytes ==
  ("T2AAA" :> <<84, 50, 65, 65, 65>>) @@ ("T2BBB" :> <<84, 50, 66, 66, 66>>)
    @@ ("T2/AAA" :> <<84, 50, 47, 65, 65, 65>>)
    @@ ("NOCALL" :> <<78, 79, 67, 65, 76, 76>>)
    @@ ("nocall" :> <<110, 111, 99, 97, 108, 108>>)
MCChains == {<<"m/50">>}
MCIp == {"0.0.0.0", "::"}

DataUrl == Default.url
MemoryUrl == <<"sqlite::memory:">>

MCEdits == {"id" :> <<"T2BBB">>, "keepalive_interval" :> <<Group(90, "x")>>,
            "run_dir" :> NoText}
MCNewNames == {<<"User">>}

Variables(settings) == [settings |-> settings]

Port0 == [name |-> <<"Sub">>, kind |-> "igate", bind |-> <<"127.0.0.1", 0>>]
Ports == <<Port0, [Port0 EXCEPT !.name = <<"User">>],
           [Port0 EXCEPT !.name = <<"Core">>, !.bind = <<"127.0.0.1", 49152>>]>>

MCEnvironments ==
  {NoVariables, Variables("id" :> <<"nocall">>), Variables("port" :> <<"1">>),
   [settings |-> "url" :> MemoryUrl, listen |-> Ports, uplink |-> <<>>],
   [settings |-> <<>>, listen |-> <<[name |-> <<"Sub">>, kind |-> "igate"]>>]}
MCEphemeral == {49152, 49153}
MCNeeds == (DataUrl :> {<<"data">>}) @@ (MemoryUrl :> {})
=============================================================================
