-------------------------------- MODULE Aprsc --------------------------------
(***************************************************************************)
(* aprsr convert-config: an aprsc.conf read line by line                   *)
(* (aprsr-config/src/aprsc.rs).                                            *)
(*                                                                         *)
(* A raw line is a sequence of pieces: Quote, Hash, Blank (one or more     *)
(* white characters) and words, the runs of other characters.  The         *)
(* operators that may fail return a set: of the result, or of nothing.  A  *)
(* line also carries the tokens its author spells with it and what they    *)
(* mean, which only the property reads.                                    *)
(***************************************************************************)
EXTENDS Config, FiniteSets

CONSTANTS
  IntervalText, \* word -> its groups, of words that are read as intervals
  Ip,           \* words that are an IP address
  MaxI32,       \* the largest i32
  Lines,        \* bound: the lines an aprsc.conf may consist of: [raw, tokens, means]
  MaxText       \* bound: how many lines it has

Quote == "'"
Hash == "#"
Blank == " "

ASSUME AprscConstants ==
  /\ MaxI32 \in 0 .. MaxI64
  /\ MaxText \in Nat
  /\ \A word \in DOMAIN IntervalText :
       IntervalText[word] \in Seq([count : Int, unit : STRING])
  /\ "" \notin Ip \cup DOMAIN Numeral

VARIABLES
  text,         \* history: the lines converted so far
  config,       \* the Config being built
  warnings,     \* [line, about] of each warning: about which piece of the line
  outcome       \* "reading", "converted", or the ConvertError

convertVars == <<text, config, warnings, outcome>>

-----------------------------------------------------------------------------
(* tokenize.                                                               *)

NoTokens == [tokens |-> <<>>, current |-> NoText, open |-> FALSE,
             quoted |-> FALSE, comment |-> FALSE]

Ended(scan) ==
  IF scan.open
    THEN [scan EXCEPT !.tokens = Append(@, scan.current), !.current = NoText, !.open = FALSE]
    ELSE scan

ScannedUnquoted(scan, piece) ==    \* mutant: a # in quotes starts a comment
  IF scan.comment \/ piece = Hash THEN [scan EXCEPT !.comment = TRUE]
  ELSE IF piece = Quote THEN [scan EXCEPT !.quoted = ~ @, !.open = TRUE]
  ELSE IF piece = Blank /\ ~ scan.quoted THEN Ended(scan)
  ELSE [scan EXCEPT !.current = Append(@, piece), !.open = TRUE]

Scanned(scan, piece) ==
  IF scan.comment THEN scan
  ELSE IF piece = Quote THEN [scan EXCEPT !.quoted = ~ @, !.open = TRUE]
  ELSE IF piece = Hash /\ ~ scan.quoted THEN [scan EXCEPT !.comment = TRUE]
  ELSE IF piece = Blank /\ ~ scan.quoted THEN Ended(scan)
  ELSE [scan EXCEPT !.current = Append(@, piece), !.open = TRUE]

Tokens(raw) ==
  LET scan[i \in 0 .. Len(raw)] ==
        IF i = 0 THEN NoTokens ELSE Scanned(scan[i - 1], raw[i])
  IN IF scan[Len(raw)].quoted THEN {} ELSE {Ended(scan[Len(raw)]).tokens}

-----------------------------------------------------------------------------
(* What the arguments of a directive read as.                              *)

NumberIn(token, range) == NumberOf(Word(token), range)

IntervalIn(token) ==
  IF Word(token) \in DOMAIN IntervalText
    THEN ParseInterval(IntervalText[Word(token)]) ELSE {}

I32 == -MaxI32 .. MaxI32
U64 == 0 .. MaxU64
U16 == 0 .. 65535

(* address: an IP address and a port.                                      *)
Address(host, port) ==
  {<<h, p>> : h \in {Word(host)} \cap Ip, p \in NumberIn(port, U16)}

(* The directives with a single argument: the key each sets, and to what.  *)
SettingKey ==
  [serverid |-> "id", passcode |-> "passcode", myadmin |-> "admin",
   myemail |-> "email", rundir |-> "run_dir", filelimit |-> "file_limit",
   clienttimeout |-> "client_timeout", upstreamtimeout |-> "upstream_timeout"]

Setting(directive, token) ==
  CASE directive = "passcode" -> NumberIn(token, I32)
    [] directive = "filelimit" -> NumberIn(token, U64)
    [] directive \in {"clienttimeout", "upstreamtimeout"} -> IntervalIn(token)
    [] OTHER -> {token}

PortTypes == {"fullfeed", "igate", "dupefeed", "udpsubmit"}
Protocols == {"tcp", "udp"}
UplinkTypes == [full |-> "full", ro |-> "readonly"]

(* The name of a listener that has none.                                   *)
Generated(args, bind) ==
  <<Word(args[2]), Blank, Word(args[3]), Blank, ToString(bind[2])>>

(* parse_listen, its options: how many tokens each one takes.              *)
OptionWidth(option) ==
  IF option \in {"filter", "maxclients", "acl"} THEN 2 ELSE 1

OptionsAt(args) ==
  LET starts[i \in 6 .. Len(args)] ==
        \/ i = 6
        \/ \E j \in 6 .. i - 1 :
             starts[j] /\ i = j + OptionWidth(Lower(Word(args[j])))
  IN {i \in 6 .. Len(args) : starts[i]}

Option(args, i) == Lower(Word(args[i]))

(* The last of the options of this name, and its argument.                 *)
LastOption(args, name) ==
  LET at == {i \in OptionsAt(args) : Option(args, i) = name} IN
  {i \in at : \A j \in at : j <= i}

ArgumentOf(args, name) ==
  {args[i + 1] : i \in {i \in LastOption(args, name) : i < Len(args)}}

MaxClientsRead(args) ==
  \A i \in {i \in OptionsAt(args) : Option(args, i) = "maxclients"} :
    i < Len(args) /\ NumberIn(args[i + 1], U64) # {}

Dropped(args) ==
  {i \in OptionsAt(args) : Option(args, i) \notin {"hidden", "filter", "maxclients"}}

ParsedListen(args) ==
  IF \/ Len(args) < 5
     \/ Word(args[2]) \notin PortTypes
     \/ Word(args[3]) \notin Protocols
     \/ ~ MaxClientsRead(args)
  THEN {}
  ELSE {[name |-> IF args[1] = NoText THEN Generated(args, bind) ELSE args[1],
         kind |-> Word(args[2]), protocol |-> Word(args[3]), bind |-> bind,
         filter |-> ArgumentOf(args, "filter"),
         max_clients |-> UNION {NumberIn(t, U64) : t \in ArgumentOf(args, "maxclients")},
         hidden |-> LastOption(args, "hidden") # {}] :
          bind \in Address(args[4], args[5])}

ParsedUplink(args) ==
  IF Len(args) < 5 \/ Word(args[2]) \notin DOMAIN UplinkTypes THEN {}
  ELSE {[name |-> args[1], kind |-> UplinkTypes[Word(args[2])],
         address |-> <<args[4], p>>] : p \in NumberIn(args[5], U16)}

-----------------------------------------------------------------------------
(* convert, one line at a time.                                            *)

ConvertInit ==
  /\ text = <<>>
  /\ config = Over([id |-> PlaceholderId, listeners |-> <<>>, uplinks |-> <<>>], Default)
  /\ warnings = {}
  /\ outcome = "reading"

Read(line) ==
  /\ outcome = "reading"
  /\ text' = Append(text, line)

Name(tokens) == Lower(Word(tokens[1]))

(* The line has a directive of one of these names.                         *)
ReadDirective(line, tokens, names) ==
  /\ Read(line)
  /\ tokens # <<>>
  /\ Name(tokens) \in names

Fail(error) == outcome' = error /\ UNCHANGED <<config, warnings>>

Warn(about) ==
  warnings' = warnings \cup {[line |-> Len(text'), about |-> a] : a \in about}

(* A quoted string that does not end, and a line of nothing but comment.   *)
Unterminated(line) ==
  /\ Read(line)
  /\ Tokens(line.raw) = {}
  /\ Fail("UnterminatedQuote")

SkipLine(line, tokens) ==
  /\ Read(line)
  /\ tokens = <<>>
  /\ UNCHANGED <<config, warnings, outcome>>

(* A directive that sets a value: single, number, interval.                *)
SetValue(line, tokens) ==
  /\ ReadDirective(line, tokens, DOMAIN SettingKey)
  /\ \/ /\ Len(tokens) # 2
        /\ Fail("WrongArgumentCount")
     \/ /\ Len(tokens) = 2
        /\ Setting(Name(tokens), tokens[2]) = {}
        /\ Fail("InvalidValue")
     \/ /\ Len(tokens) = 2
        /\ \E value \in Setting(Name(tokens), tokens[2]) :
             config' = [config EXCEPT ![SettingKey[Name(tokens)]] = value]
        /\ UNCHANGED <<warnings, outcome>>

(* HTTPStatus.                                                             *)
SetStatus(line, tokens) ==
  /\ ReadDirective(line, tokens, {"httpstatus"})
  /\ LET bind == Address(IF Len(tokens) > 1 THEN tokens[2] ELSE NoText,
                         IF Len(tokens) > 2 THEN tokens[3] ELSE NoText)
     IN \/ bind = {} /\ Fail("InvalidAddress")
        \/ /\ bind # {}
           /\ config' = [config EXCEPT !.status_bind = bind]
           /\ UNCHANGED <<warnings, outcome>>

AddListener(line, tokens) ==
  LET args == Tail(tokens) IN
  /\ ReadDirective(line, tokens, {"listen"})
  /\ \/ ParsedListen(args) = {} /\ Fail("InvalidListen")
     \/ /\ \E l \in ParsedListen(args) :
             config' = [config EXCEPT !.listeners = Append(@, l)]
        /\ Warn({args[i] : i \in Dropped(args)}
                  \cup {t \in {NoText} : args[1] = NoText})
        /\ UNCHANGED outcome

AddUplink(line, tokens) ==
  LET args == Tail(tokens) IN
  /\ ReadDirective(line, tokens, {"uplink"})
  /\ \/ ParsedUplink(args) = {} /\ Fail("InvalidUplink")
     \/ /\ \E u \in ParsedUplink(args) :
             config' = [config EXCEPT !.uplinks = Append(@, u)]
        /\ UNCHANGED <<warnings, outcome>>

(* HTTPUpload, UplinkBind, LogRotate, MagicBadness, and unknown ones.      *)
WarnOf(line, tokens) ==
  /\ Read(line)
  /\ tokens # <<>>
  /\ Name(tokens) \notin DOMAIN SettingKey \cup {"httpstatus", "listen", "uplink"}
  /\ Warn({tokens[1]})
  /\ UNCHANGED <<config, outcome>>

EndOfText ==
  /\ outcome = "reading"
  /\ outcome' = "converted"
  /\ UNCHANGED <<text, config, warnings>>

ConvertLine(line) ==
  \/ Unterminated(line)
  \/ \E tokens \in Tokens(line.raw) :
       \/ SkipLine(line, tokens)
       \/ SetValue(line, tokens)
       \/ SetStatus(line, tokens)
       \/ AddListener(line, tokens)
       \/ AddUplink(line, tokens)
       \/ WarnOf(line, tokens)

Convert ==
  \/ EndOfText
  \/ Len(text) < MaxText /\ \E line \in Lines : ConvertLine(line)

-----------------------------------------------------------------------------
(* The grammar of a line, against which the lines of Lines are annotated.  *)

(* A quote is open behind the i-th piece: an odd number of them came.      *)
Quoted(raw, i) == Cardinality({j \in 1 .. i : raw[j] = Quote}) % 2 = 1

(* The i-th piece belongs to a token, to the Turn-th, and is its Place-th. *)
InToken(raw, i) == raw[i] = Blank => Quoted(raw, i)

Turn(raw, i) ==
  Cardinality({j \in 1 .. i : InToken(raw, j) /\ (j > 1 => ~ InToken(raw, j - 1))})

Place(raw, turn, i) ==
  Cardinality({j \in 1 .. i : /\ InToken(raw, j) /\ raw[j] # Quote
                              /\ Turn(raw, j) = turn})

(* These are the tokens of the first pieces of a line.                     *)
SpelledBy(raw, last, tokens) ==
  /\ tokens \in Seq(Seq(STRING))
  /\ Len(tokens) = Turn(raw, last)
  /\ \A turn \in DOMAIN tokens : Len(tokens[turn]) = Place(raw, turn, last)
  /\ \A i \in 1 .. last :
       InToken(raw, i) /\ raw[i] # Quote =>
         tokens[Turn(raw, i)][Place(raw, Turn(raw, i), i)] = raw[i]

(* A line is spelled up to the first # that is not in quotes.              *)
LineSpells(raw, tokens) ==
  \E last \in 0 .. Len(raw) :
    /\ \A i \in 1 .. last : raw[i] = Hash => Quoted(raw, i)
    /\ last < Len(raw) => raw[last + 1] = Hash /\ ~ Quoted(raw, last + 1)
    /\ IF Quoted(raw, last) THEN tokens = {}
       ELSE \E spelled \in tokens : tokens = {spelled} /\ SpelledBy(raw, last, spelled)

(* Besides what it sets, a line leaves some of its tokens without a place  *)
(* in the Config (`left`).  An option that is not supported is left with   *)
(* its argument; of an option that is repeated the last counts.            *)

(* Behind the port of a Listen a token is an option unless the option      *)
(* before it takes it.                                                     *)
OptionsOf(args, K) ==
  \A i \in 6 .. Len(args) :
    i \notin K <=> i - 1 \in K /\ Option(args, i - 1) \in {"filter", "maxclients", "acl"}

Named(args, K, name) == {i \in K : Option(args, i) = name}

LastNamed(args, K, name) ==
  {i \in Named(args, K, name) : \A j \in Named(args, K, name) : j <= i}

ListenBroken(args, K) ==
  \/ Len(args) < 5
  \/ Word(args[2]) \notin PortTypes
  \/ Word(args[3]) \notin Protocols
  \/ Address(args[4], args[5]) = {}
  \/ \E i \in Named(args, K, "maxclients") :
       i = Len(args) \/ NumberIn(args[i + 1], U64) = {}

ListenMeans(args, K, means) ==
  /\ means.kind = "listener"
  /\ \E bind \in Address(args[4], args[5]) :
       means.value =
         [name |-> args[1], kind |-> Word(args[2]), protocol |-> Word(args[3]),
          bind |-> bind,
          filter |-> {args[i + 1] : i \in LastNamed(args, K, "filter") \ {Len(args)}},
          max_clients |-> UNION {NumberIn(args[i + 1], U64) :
                                   i \in LastNamed(args, K, "maxclients")},
          hidden |-> Named(args, K, "hidden") # {}]
  /\ means.left =
       {args[i] : i \in {i \in K :
                           \/ Option(args, i) \notin {"hidden", "filter", "maxclients"}
                           \/ Option(args, i) = "filter" /\ i = Len(args)}}

UplinkMeans(args, means) ==
  IF \/ Len(args) < 5
     \/ Word(args[2]) \notin DOMAIN UplinkTypes
     \/ NumberIn(args[5], U16) = {}
  THEN means.kind = "error"
  ELSE /\ means.kind = "uplink"
       /\ \E port \in NumberIn(args[5], U16) :
            means.value = [name |-> args[1], kind |-> UplinkTypes[Word(args[2])],
                           address |-> <<args[4], port>>]
       /\ means.left = {args[i] : i \in {3} \cup 6 .. Len(args)}

SettingMeans(tokens, means) ==
  IF Len(tokens) # 2 \/ Setting(Name(tokens), tokens[2]) = {} THEN means.kind = "error"
  ELSE /\ means.kind = "setting"
       /\ means.key = SettingKey[Name(tokens)]
       /\ Setting(Name(tokens), tokens[2]) = {means.value}
       /\ means.left = {}

StatusMeans(tokens, means) ==
  IF Len(tokens) < 3 \/ Address(tokens[2], tokens[3]) = {} THEN means.kind = "error"
  ELSE /\ means.kind = "setting"
       /\ means.key = "status_bind"
       /\ means.value = Address(tokens[2], tokens[3])
       /\ means.left = {tokens[i] : i \in 4 .. Len(tokens)}

LineMeans(tokens, means) ==
  LET args == Tail(tokens) IN
  IF tokens = <<>> THEN means.kind = "nothing"
  ELSE IF Name(tokens) \in DOMAIN SettingKey THEN SettingMeans(tokens, means)
  ELSE IF Name(tokens) = "httpstatus" THEN StatusMeans(tokens, means)
  ELSE IF Name(tokens) = "listen" THEN
    \E K \in SUBSET (6 .. Len(args)) :
      /\ OptionsOf(args, K)
      /\ IF ListenBroken(args, K) THEN means.kind = "error" ELSE ListenMeans(args, K, means)
  ELSE IF Name(tokens) = "uplink" THEN UplinkMeans(args, means)
  ELSE means.kind = "unsupported" /\ means.value = tokens[1]

ASSUME LinesMean ==
  \A line \in Lines :
    /\ line.raw \in Seq(STRING) /\ LineSpells(line.raw, line.tokens)
    /\ line.tokens = {} => line.means.kind = "error"
    /\ \A tokens \in line.tokens : LineMeans(tokens, line.means)

(* The lines up to the i-th that mean a listener, or an uplink.            *)
Nth(i, kind) == Cardinality({j \in 1 .. i : text[j].means.kind = kind})

WarnedOf(i, about) == [line |-> i, about |-> about] \in warnings

(* What a line leaves without a place and convert drops without a warning: *)
(* a filter at the end of a Listen that has no argument, the protocol of   *)
(* an Uplink and what is behind its port, what is behind the port of an    *)
(* HTTPStatus.                                                             *)
Unsaid(means) ==
  IF means.kind = "listener" THEN {t \in means.left : Lower(Word(t)) = "filter"}
  ELSE means.left

(* What the i-th line means is there, or a warning names it.               *)
Kept(i, means) ==
  /\ means.kind = "setting" =>
       \/ config[means.key] = means.value
       \/ \E j \in i + 1 .. Len(text) :
            text[j].means.kind = "setting" /\ text[j].means.key = means.key
  /\ means.kind = "listener" =>
       LET listener == config.listeners[Nth(i, "listener")] IN
       /\ [listener EXCEPT !.name = NoText] = [means.value EXCEPT !.name = NoText]
       /\ \/ means.value.name # NoText /\ listener.name = means.value.name
          \/ means.value.name = NoText /\ WarnedOf(i, NoText)
  /\ means.kind = "uplink" => config.uplinks[Nth(i, "uplink")] = means.value
  /\ means.kind = "unsupported" => WarnedOf(i, means.value)
  /\ means.kind \in {"setting", "listener", "uplink"} =>
       \A token \in means.left \ Unsaid(means) : WarnedOf(i, token)

(* What a line that was converted means is in the configuration, or a      *)
(* later line overrides it, or a warning names the line and what of it has *)
(* no place there; and the configuration has no listener and no uplink     *)
(* that no line means.  A conversion fails only at a line that means an    *)
(* error.  That everything without a place is "reported as Warnings rather *)
(* than silently dropped" is not so: Unsaid is what is dropped.            *)
NothingLost ==
  IF outcome \notin {"reading", "converted"} THEN Last(text).means.kind = "error" ELSE
    /\ Len(config.listeners) = Nth(Len(text), "listener")
    /\ Len(config.uplinks) = Nth(Len(text), "uplink")
    /\ \A i \in DOMAIN text : Kept(i, text[i].means)
=============================================================================
