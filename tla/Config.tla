------------------------------- MODULE Config -------------------------------
(***************************************************************************)
(* Config: what aprsr.toml says, how it is written and read, and when it   *)
(* is accepted (aprsr-config/src/lib.rs).                                  *)
(*                                                                         *)
(* Text is abstracted to tokens: a token is the sequence of its words.     *)
(*                                                                         *)
(* A document of TOML is [settings, listen, uplink]: the values of the     *)
(* keys of its tables that are written, and per section the same.          *)
(***************************************************************************)
EXTENDS Intervals, Callsign, Functions

CONSTANTS
  Chains,         \* tokens that FilterChain::parse accepts
  MaxI64          \* the largest integer TOML can write

ASSUME ConfigConstants == MaxI64 \in 0 .. MaxU64

NoText == <<>>

(* One function, and another where the first says nothing.                 *)
Over(f, g) ==
  [k \in DOMAIN f \cup DOMAIN g |-> IF k \in DOMAIN f THEN f[k] ELSE g[k]]

Folded(token) == [i \in DOMAIN token |-> Lower(token[i])]

(* The token of one word as that word; no keyword is spelled otherwise.    *)
Word(token) == IF Len(token) = 1 THEN token[1] ELSE ""

-----------------------------------------------------------------------------

PlaceholderId == <<"NOCALL">>

IntervalKeys ==
  {"client_timeout", "upstream_timeout", "dupecheck_window", "keepalive_interval"}

Default ==
  [passcode |-> 0, admin |-> NoText, email |-> NoText, run_dir |-> <<"data">>,
   client_timeout |-> 172800, upstream_timeout |-> 15,
   dupecheck_window |-> 30, keepalive_interval |-> 20,
   file_limit |-> 10000, client_queue |-> 1024,
   url |-> <<"sqlite://data/aprsr.sqlite?mode=rwc">>, status_bind |-> {}]

ASSUME DefaultsFit == \A k \in IntervalKeys : Default[k] \in 0 .. MaxU64

ListenerDefault ==
  [protocol |-> "tcp", filter |-> {}, max_clients |-> {}, hidden |-> FALSE]

ListenerNeeds == {"name", "kind", "bind"}
UplinkNeeds == {"name", "kind", "address"}

Numbers(config) ==
  {config.file_limit, config.client_queue}
    \cup UNION {l.max_clients : l \in Range(config.listeners)}

(* What is written of the settings, and of a listener: an empty option and *)
(* an unset `hidden` are left out, an interval is text.                    *)
WrittenSettings(config) ==
  [k \in {k \in DOMAIN config \ {"listeners", "uplinks"} :
            k = "status_bind" => config[k] # {}} |->
     IF k \in IntervalKeys THEN RenderInterval(config[k]) ELSE config[k]]

WrittenListener(l) ==
  [k \in {k \in DOMAIN l : /\ k \in {"filter", "max_clients"} => l[k] # {}
                           /\ k = "hidden" => l.hidden} |-> l[k]]

(* to_toml: an integer has to fit an i64.                                  *)
Rendered(config) ==
  IF \E n \in Numbers(config) : n > MaxI64 THEN {}
  ELSE {[settings |-> WrittenSettings(config),
         listen |-> [i \in DOMAIN config.listeners |-> WrittenListener(config.listeners[i])],
         uplink |-> config.uplinks]}

(* Figment: the file, then the environment over it, which is a document    *)
(* that may be without `listen` and `uplink`.  Tables are merged, an array *)
(* is replaced.                                                            *)
Merged(file, environment) ==
  [Over(environment, file) EXCEPT !.settings = Over(environment.settings, file.settings)]

KnownKeys == DOMAIN Default \cup {"id"}

(* An entry of an array has the keys it needs and no unknown one.          *)
Fits(entry, needs, optional) ==
  needs \subseteq DOMAIN entry /\ DOMAIN entry \subseteq needs \cup optional

(* extract: a key nobody knows is refused, an absent one has its default,  *)
(* if it has one.                                                          *)
Extracted(document) ==
  LET settings == document.settings
      values == Over(settings, Default)
      reads == [k \in IntervalKeys |->
                  IF k \in DOMAIN settings THEN ParseInterval(settings[k])
                  ELSE {Default[k]}]
  IN IF \/ "id" \notin DOMAIN settings
        \/ DOMAIN settings \ KnownKeys # {}
        \/ \E k \in IntervalKeys : reads[k] = {}
        \/ \E l \in Range(document.listen) :
             ~ Fits(l, ListenerNeeds, DOMAIN ListenerDefault)
        \/ \E u \in Range(document.uplink) : ~ Fits(u, UplinkNeeds, {})
       THEN {}
     ELSE {[k \in KnownKeys \cup {"listeners", "uplinks"} |->
              CASE k = "listeners" -> [i \in DOMAIN document.listen |->
                                         Over(document.listen[i], ListenerDefault)]
                [] k = "uplinks" -> document.uplink
                [] k \in IntervalKeys -> CHOOSE n \in reads[k] : TRUE
                [] OTHER -> values[k]]}

-----------------------------------------------------------------------------

(* The listeners the loop of validate stops at.                            *)
NamesTaken(config) ==
  {i \in DOMAIN config.listeners : \E j \in 1 .. i - 1 :
     Folded(config.listeners[j].name) = Folded(config.listeners[i].name)}

FiltersBroken(config) ==
  {i \in DOMAIN config.listeners : config.listeners[i].filter \ Chains # {}}

(* Mutant: the identity is only looked at as a login.                      *)
ComplaintUnplaced(config) ==
  LET stops == NamesTaken(config) \cup FiltersBroken(config)
      first == CHOOSE i \in stops : \A j \in stops : i <= j
  IN IF ~ ParsesAsLogin(Word(config.id)) THEN "InvalidServerId"
     ELSE IF config.listeners = <<>> THEN "NoListeners"
     ELSE IF stops = {} THEN "none"
     ELSE IF first \in NamesTaken(config) THEN "DuplicateListenerName"
     ELSE "InvalidListenerFilter"

(* Config::validate: what it complains of first.                           *)
Complaint(config) ==
  LET stops == NamesTaken(config) \cup FiltersBroken(config)
      first == CHOOSE i \in stops : \A j \in stops : i <= j
  IN IF Folded(config.id) = Folded(PlaceholderId) THEN "PlaceholderServerId"
     ELSE IF ~ ParsesAsLogin(Word(config.id)) THEN "InvalidServerId"
     ELSE IF config.listeners = <<>> THEN "NoListeners"
     ELSE IF stops = {} THEN "none"
     ELSE IF first \in NamesTaken(config) THEN "DuplicateListenerName"
     ELSE "InvalidListenerFilter"
=============================================================================
