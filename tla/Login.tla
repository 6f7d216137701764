-------------------------------- MODULE Login --------------------------------
(***************************************************************************)
(* LoginRequest::parse (aprsr-core/src/login.rs): a login line, as the     *)
(* sequence of its words.  What may be absent or fail is a set.            *)
(***************************************************************************)
EXTENDS Callsign

(* How many words an optional keyword takes, itself included; `filter`     *)
(* takes the rest, an unknown word is skipped.                             *)
WidthNameOnly(keyword) ==    \* mutant: the version is a keyword
  CASE keyword = "vers" -> 2 [] keyword = "udp" -> 2 [] OTHER -> 1

Width(keyword) ==
  CASE keyword = "vers" -> 3 [] keyword = "udp" -> 2 [] OTHER -> 1

(* The positions the loop over the rest of the line stops at.              *)
Keywords(line) ==
  LET at[i \in 5 .. Len(line) + 3] ==
        \/ i = 5
        \/ \E j \in 5 .. i - 1 :
             /\ at[j] /\ j <= Len(line)
             /\ Lower(line[j]) # "filter"
             /\ i = j + Width(Lower(line[j]))
  IN {i \in 5 .. Len(line) : at[i]}

Stops(line, keyword) == {i \in Keywords(line) : Lower(line[i]) = keyword}

WordAt(line, i) == {line[j] : j \in {i} \cap DOMAIN line}

(* The word so far behind the last keyword of this name.                   *)
WordBehind(line, keyword, offset) ==
  UNION {WordAt(line, i + offset) :
           i \in {i \in Stops(line, keyword) : \A j \in Stops(line, keyword) : j <= i}}

Ports == 0 .. 65535
I32 == -2147483647 - 1 .. 2147483647

PortAt(line, i) == UNION {NumberOf(word, Ports) : word \in WordAt(line, i)}

ParseLogin(line) ==
  IF \/ Len(line) < 4
     \/ Lower(line[1]) # "user"
     \/ ~ ParsesAsLogin(line[2])
     \/ Lower(line[3]) # "pass"
     \/ \E i \in Stops(line, "udp") : PortAt(line, i + 1) = {}
  THEN {}
  ELSE {[callsign |-> line[2],
         passcode |-> code,
         software |-> WordBehind(line, "vers", 1),
         version |-> WordBehind(line, "vers", 2),
         udp |-> UNION {NumberOf(word, Ports) : word \in WordBehind(line, "udp", 1)},
         filter |-> {SubSeq(line, i + 1, Len(line)) : i \in Stops(line, "filter") \ {Len(line)}}] :
           code \in NumberOf(line[4], I32)}
=============================================================================
