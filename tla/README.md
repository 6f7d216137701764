# aprsr in TLA+

A verification development for aprsr, an APRS-IS server in Rust: TLA+ modules that follow the
code function by function, TLC runs on small instances, and theorems checked by TLAPS.
`PROJECT.json` maps every definition to the source lines it models, and lists the runs, the
mutants that show each property can fail, the findings, the hazards and the theorems.

## The system

A connection (`client.rs`) is a task: it reads lines through `LineCodec`, writes a banner,
waits for a login, opens a log row, enters the `ClientRegistry`, and then reads submissions
while a second task, the writer, drains an outbox to the socket. Every packet line is submitted
with `try_send` to one bounded queue. One dispatch task owns the duplicate detector; for each
line it runs `dispatch::process`: refuse unverified senders, parse, check for a duplicate, apply
the q algorithm, parse the result again, record a position, and offer the line to every
registered client (`ClientRegistry::broadcast`). A shutdown is a watch channel: accept loops,
readers and writers see it, `Server::run` joins the accept loops, waits until every sender of
the dispatch queue is gone and the queue is drained, and saves the positions. A `maintain` task
saves them every minute as well.

Before any of this a configuration is made: `convert-config` turns an `aprsc.conf` into an
`aprsr.toml` with warnings for what it leaves out, `Config::load` merges that file with `APRSR_`
variables and validates the result, and `run` makes the run directory, opens the database and binds
every listener before it serves.

| component | source | state | operations | what is hard | what makes it correct | module |
|---|---|---|---|---|---|---|
| duplicate detector | `dupecheck.rs` | map of digests, ring of buckets, the second reached | check, advance | ring and map must agree; the clock may be set back | it is a sliding window and never rewinds | `DupeWindow`, `DupeCheck` |
| dispatch | `dispatch.rs` | bounded queue, detector | submit, process | order of refusals, full queues, stuck clients | each line decided and counted once, order kept, nobody stalls it | `Dispatch` |
| registry | `registry.rs` | DashMap of clients, their filters and outboxes | insert, remove, broadcast, count | the walk is not atomic | no echo, no repeat, no uncounted loss, ports respected | `Feed`, `Dispatch`, `Sessions` |
| connection | `client.rs` | position in `serve`, writer task, log row | handshake, register, serve, teardown | awaits between check and act; timers; abort against farewell | caps, deadlines, counters and rows consistent | `Sessions` |
| server | `lib.rs` | shutdown watch, tasks | accept, run | who waits for whom | the shutdown ends and loses nothing | `Sessions` |
| framing | `codec.rs` | buffer, discarding flag, scan index | decode, decode_eof | any cut into reads; the limit | the lines of the stream, in bounded memory | `LineCodec` |
| q algorithm | `qconstruct.rs`, `path.rs` | none | apply_client | composition across servers | one construct, no growth, no false vouching | `QConstruct`, `QRelay` |
| positions | `aprsr-store/src/lib.rs`, `commands.rs` | cache, table, passes under way | record, save, load | two savers, crashes, a load that fails, clock | a finished pass is not undone but where the table was not read | `PositionStore` |
| metrics | `metrics.rs` | atomic counters | incr, decr | wrap-around, what is counted twice or never | they balance | `Dispatch`, `Sessions` |
| filters | `filter/mod.rs`, `geo.rs` | a chain per client | parse, matches | chains are replaced and positions move during a walk | within the limits, centred on the last report, a station's own report included | `Filters` |
| login, passcodes, callsigns | `login.rs`, `passcode.rs`, `callsign.rs` | none | parse, generate, verify | keyword groups of different widths, SSIDs, widths of integers | a client is registered as its line means | `Words`, `Callsign`, `Login`, `Sessions` |
| positions in packets | `aprs/mod.rs`, `aprs/position.rs` | none | parse | three encodings, one tried after the other; offsets that wrap | a station is placed where it says, or nowhere | `Coordinates`, `Reports`, `QRelay` |
| packet framing | `packet.rs` | none | parse, render | the length limit after a construct is added | outcomes only | `QRelay` |
| configuration | `aprsr-config` | none | convert, render, load, validate | quoting, options of different widths, defaults, overrides, 64-bit sums | nothing is lost unsaid; what is written is read back; what serves was validated | `Intervals`, `Config`, `Aprsc`, `Startup` |
| command line, listeners | `commands.rs`, `listener.rs` | the file, directories, sockets | convert-config, check-config, run, bind_all | one step of several failing | all listeners are bound or none | `Startup`, `PositionStore` |
| store schema, log | `aprsr-store` entities, migration | tables | open, close, sample, prune | rows left open | a row says what happened | `Sessions`, `PositionStore` |
| status pages | `aprsr-web` | none | render | reads while others write | | not modelled |

## Modules

**`DupeWindow`** promises what the detector is for: a digest passes unless it passed within the
last `Span` seconds, where a second earlier than one already seen counts as the latest.
**`DupeCheck`** is the code: `seen` and `buckets`, `Advanced` for `advance_to` with its two
branches, `Repeat` and `FirstSighting` for the two outcomes of `check_digest`. The history
`lastPass` is the refinement mapping, so that `DupeCheck` implements `DupeWindow`
(`ImplementsWindow`).

**`Dispatch`** composes the packet path with `DupeWindow` (the dispatch task's detector; that the
ring implements it is shown above). Readers are `Register`, `Submit`, `ReadUnusable`,
`FilterCommand`, `Hangup`, `Unregister`; the dispatch task is one refusal action per early
return of `process`, `Deliver`, then one `PassOver`, `Offer` or `Drop` per client and
`EndBroadcast`; a writer is `WriteFirst` (the flushed first line of a burst), `WriteMore` and
`Flush`. A line is named by its place in the history `log`; a filter is the set of lines it
matches. Parsing, the q algorithm and rendering appear by their verdict: the sets `Malformed`,
`Looping`, `Overlong`.

**`Feed`** promises what clients are served: one log of broadcasts, a transmission not twice within
the window, and each client receiving from it in the order of the log, with gaps at most, nothing
twice, nothing of its own and nothing its port does not carry. `Dispatch` implements it
(`ImplementsFeed`) with `received <- wire`, what was flushed to each socket: queue, walk, outbox
and write buffer are hidden, every `Deliver` is a `Broadcast` and every flush a `Receive`.

**`Sessions`** is `serve` with a program counter per connection, one action between two awaits,
together with the accept loops, `Server::run`, and the ends of writers and of the dispatch task. A
line is only counted here, except for the one that logs a client in: `said` is its words, with what
they mean by the grammar of logins (`LinesMean` is that grammar, and TLC finds it true of every line
of an instance), and `LogIn`, `Refuse` and `Malformed` are decided by `ParseLogin` of **`Login`**
and `Verify` of **`Callsign`**; `Insert` registers what `register` puts into the `Client`.
**`Words`** has what text becomes here: a word is a string, and its lower case, its number and its
bytes are constants, so that the grammar is followed word by word and a callsign byte by byte.

**`QConstruct`** has the rules of `apply_client` as operators on sequences of hops; **`QRelay`**
lets stations carry one packet from server to server, each server doing what `process` does from the
q algorithm to the broadcast, the position it records included. **`Coordinates`** has the parsers of
the three encodings of a position on bytes, in hundredths of a minute. **`Reports`** models no code:
it is what a report says, by the encodings and without a parser, as a set of latitudes and one of
longitudes, because a blanked digit may stand for any: together the box that the blanks leave. A
number is said by the digits that spell it, a compressed angle by bounds on a product, a Mic-E byte
by the values a sender wraps to it. `PlacedAsSent` judges the parsers by it: a station is placed in
its box, and at the south-west corner where the box is north of the equator and east of the
meridian. In a southern or western box the code takes another corner than its documentation (see the
findings), and the property says no more there than that the place is in the box.

**`LineCodec`** is `decode`, one action per arm of its `match`, in the loop of a `FramedRead`.

**`PositionStore`** has the cache, the table, and two passes of `save_positions` that interleave
between the question and the write for each station. The process ends at the end of `run` (`Exit`)
or anywhere (`Crash`), and every start either loads the table into the cache (`Loaded`) or, when
`load_positions` fails, starts "cold" with an empty cache (`Cold`). A cold start leaves rows in the
table that the process knows nothing of, and `save_positions` deletes none: the history `unread`
keeps them until an undisturbed pass has written their station, and the three properties of cache
and table say what holds beside them.

**`Filters`** has the parser of filter expressions with its limits, the fourteen filters and
`MatchesChain` as operators, on packets that carry what `aprs::parse` decodes. `Process` applies
the operators of `QConstruct`, records the position in the cache and begins a walk; `Visit` judges
one client by the chain it has at that moment; `FilterCommand` replaces a chain at any time. Text
is not taken apart: what an argument means as a number, a set of characters or a pattern is a
constant.

**`Aprsc`** is the importer, one action per line of an `aprsc.conf`: the tokenizer on the characters
that it tells apart, and an outcome per directive. A line comes with its tokens and with what it
means, and its `LinesMean` says by a grammar of quotes, blanks, comments and directives what these
may be, every word that has no place in the configuration included (`left`). `Unsaid` are those of
them that the code drops without a warning; `NothingLost` claims a warning for all others.
**`Intervals`** parses and renders durations,
**`Config`** has defaults, the TOML document, the merge with the environment, extraction and
`validate`. The merge is over the whole document: a variable for `listen` or `uplink` replaces the
array of the file, and an element that lacks a key without a default is refused (`Fits`).
**`Startup`** is the life of that file: converted, written, edited, loaded by a command,
and then the directory, the database and each turn of `bind_all` with its failures. A listener on
port 0 is bound at a port that the system picks, one of `Ephemeral`, so that several of them may
share a configured address (`Assigned`). What a server should listen at is `Meant`: the listeners of
the environment if it has any, and otherwise those that were converted.

An `MC...` module gives each of them model values. Operators marked "mutant" stand next to the
definition they mutate and are used by no specification. Every module states a type invariant; for
`Sessions`, `LineCodec` and `PositionStore`, where an ill-typed value would stop TLC in one of the
other properties, no run lists it. Modules with theorems also state the parts of their inductive
invariant and join them in `DupeInv`, `DispatchInv`, `SessionsInv`, `PositionsInv`, `QRelayInv`,
`FiltersInv`, `LineCodecInv` and, of `Startup`, `FileInv`, `RunInv` and `ConvertInv`; the theorems
are in a `...Proofs` module beside each.

## Runs

| run | checks | instance | why it is enough |
|---|---|---|---|
| `dupe_check` | types, ring = map, map = window, refinement, passes apart | 2 digests, a window of 2 s, clock values beyond two windows | the ring turns over partly and entirely, and the clock jumps back |
| `dispatch` | types, order, no echo, no duplicate broadcast, no silent loss, entitlement, refinement of the feed | a client on a full feed, one behind a forced filter, one unverified that changes its filter; queues one deep, two lines read, one second inside and one outside the window | each client may come, go, stall or fail at every point of a walk; the second line meets a full queue, a full outbox or its own duplicate |
| `dispatch_live` | the queue drains, a queued line is flushed, counters | full feed and forced filter, lines that every step of `process` refuses; fairness only of the dispatch task | every early return of `process` fires, writers may never move |
| `sessions` | types, gauge, exit, farewells, rows, saved lines | two connections on a port with room for one, one packet line | each connection can be at any await while the other registers or leaves, and while the server stops |
| `session_stop` | the shutdown and every teardown end; a client is registered as its login line means | one connection, 13 login lines on a port that leaves the filter to the client (and the verdict for a full-feed and a forced port in every state), one packet line, fair | blocked sockets are possible; the lines have every keyword, cut short, in capitals, with the wrong passcode, number or callsign |
| `relay` | one construct, bounded path, never vouched again, placed as sent | 3 stations, 3 servers (client, send-only, UDP), 23 paths with one report, and one path with reports in each encoding | every rule of the algorithm, in any order of servers; positions at the poles, the date line, the meridian and each wrap of Mic-E, with 0 to 4 blanks, north and south, east and west, damaged, as objects, items, with and without a time. What a report means comes from the encoders of `MCQRelay`, written from the side of a sender, and `ReportsMean` finds that it is what `Reports` says |
| `codec` | framing, bounded buffer, no spinning | limit 2, reads of 1 to 3 bytes, 7 bytes | lines of less, exactly, one more and more than twice the limit, cut anywhere |
| `filters` | types and limits, centres, own reports | a station's client and an IGate's, 7 packets (positions, an object, a message; direct, gated, looping), 11 expressions of which 6 are malformed or over a limit (3 filters, 2 entries, 1 area), 2 clock values | every filter matches and fails to, is negated, and is replaced at every point of a walk; reports come in one second, in another, and with the clock set back |
| `positions` | a finished pass holds, cache leads, a quiet shutdown saves, what is heard is saved | 2 stations, 2 clock values, two crashes, failing statements or failing loads, fair | both savers can be at every statement; insert and update; a start finds rows it can or cannot read, with the clock set back or not |
| `config` | nothing lost, loads as converted, serves as written | every text of up to 3 lines out of 26 (each directive, quoting, options, duplicates, errors), one edit of the file, 5 environments (no variable; an identifier that is none; an unknown key; a database and listeners of its own, two of them on port 0; a listener without a key it needs); 64-bit, signed and 32-bit limits scaled down | three lines make duplicate names, clashing addresses and repeated settings; refusals of `convert`, every one of `validate` and of `bind_all` are reached |

Bounds that are not the code's: `MaxReads`, `MaxLines`, `MaxNoise`, `MaxBytes`, `MaxRead`,
`MaxTime`, `MaxText` (lines of an `aprsc.conf`), `Edits`, `NewNames`, `Environments`, `Ephemeral`
(the ports that the system picks from), `MaxMishaps` (crashes, failing statements and failing loads
together), `LoginTimeout` in units of the 30 seconds. `MaxFilters`, `MaxListEntries` and
`MaxAreaFilters` are the code's limits with smaller values, and so are `MaxU64`, `MaxI64` and
`MaxI32`, whose order is kept: TLC's own integers have 32 bits. Each bound stands in a guard and is
named in the module. Deadlock checking is off where a system may rest: all clients gone and all
lines read, or the stream ended.

### Fairness

The dispatch task never awaits anything but a line, and tokio polls a runnable task, hence weak
fairness of `DispatchTask`. Writers get none: `OutboxReachesWire` is stated under the hypothesis
`SocketsTake`, that sockets take what writers hand them. Readers and peers never get any. In
`Sessions` the steps of a `serve` task, its timers included, are fair, a writer only while its
socket takes data, and peers and the operator never. In `PositionStore` the tick of the interval and
a pass under way are fair, and the database fails finitely often. `LineCodec` assumes that
`FramedRead` calls the decoder again after a line. All of them are weak: nothing waits on a
condition that others can keep toggling.

## Findings

Runs with `expect: violation` check one sentence of the repository and show that the code does
something else.

- `client_cap`: the cap is tested at accept and the client counted at registration; connections
  logging in together pass it.
- `positions_stop`: `maintain` is stopped after `run` has saved, not before, and a pass it has
  under way writes older positions over newer ones. `QuietShutdownSaves` is what holds.

Behaviour that a reader may not expect and the models contain, though no run is about it:

- each line before the login starts the 30 seconds anew, and the login wait does not see the
  shutdown, so one peer that keeps sending comments keeps `run` from returning. `ShutdownCompletes`
  holds because `MaxNoise` bounds those comments;
- a damaged uncompressed report that starts with a digit is read as a compressed one and placed
  elsewhere (`MisreadAsCompressed` of `QRelay`), though the parser is meant to return none "rather
  than a partial result" (aprsr-core/src/aprs/position.rs:12);
- blanked digits count as zeros, which gives the corner of the box nearest to the equator and the
  meridian, while "the south-west corner of the ambiguity box" is documented
  (aprsr-core/src/aprs/position.rs:68-70, docs/protocol.md:134-136). The two agree in boxes north of
  the equator and east of the meridian, and of these alone `PlacedAsSent` claims the corner
  (`Cornered`); for a southern or western box the sentence is not what the code does;
- minutes of 60 and more are accepted;
- `vers` without a version takes the next keyword for one, and callsigns in a login must be in upper
  case (`Login`, `Callsign`);
- two listeners without names on one port of an IPv4 and an IPv6 address are given the same name and
  the converted file is refused (`Generated` of `Aprsc`);
- `RunDir` does not move the default database, whose directory `data` `run` then does not create
  (`OpenStore`); a configuration of UDP listeners alone is valid and does not start (`Serve`); a
  `FileLimit` beyond 2^63 - 1 converts and cannot be written (`Serialise`);
- of repeated directives and options the last wins;
- the importer drops some words without a warning (`Unsaid`): the protocol of an uplink and what
  follows its address, a `filter` at the end of a `Listen` that has no argument, and what follows the
  port of an `HTTPStatus`. The documentation says that whatever is not imported is reported
  (src/README.md:52-53, docs/architecture.md:98-101, aprsr-config/src/aprsc.rs:7-10);
- after a cold start (aprsr-server/src/lib.rs:157-160) rows stay that the cache does not hold, and if
  the clock was set back meanwhile, an older report replaces a newer row at the next pass: the
  exception of `CheckpointHolds`;
- variables that give listeners replace those of the file, all of them, and two listeners on one
  address and port 0 are valid and get a port each (`Merged`, `Assigned`);
- a filter configured on a full-feed port is ignored by `accepts` (`Accepts` of `Dispatch`),
  though the configuration promises "Filter forced on every client of this port"
  (aprsr-config/src/lib.rs:198);
- an object's or item's position is recorded under the station that sent it and moves the centre
  of `m/`, `f/` and `t/` filters (`misled` of `Filters` marks these stations);
- `t/` takes any number of arguments behind its radius (`WellFormed`);
- a log row whose closing failed stays open (`CloseRow`), and silent connections count as refused
  logins (`NoLogin`);
- relayed by another client, a packet carries that client's callsign behind the construct in place
  of the server's, so the same server broadcasts it again once the duplicate window is over
  (`Broadcast` of `QRelay` is enabled again);
- an `I` behind an existing construct yields a second construct, and what follows the first is no
  callsign (`OneConstruct` excludes them: `WellTagged`); with a code in front of the
  `I`, as in `TCPIP,qAo,I`, the code is taken for a callsign and the packet is vouched for again
  (`CodeBeforeI`);
- a packet near 510 bytes outgrows the limit with its construct and is dropped as invalid
  (`RefuseOverlong`), which a comment calls unreachable;
- the decoder's limit does not count the newline (`Overlong` of `LineCodec`);
- two passes may both find no row for a new station; the second insert is refused and the rest of
  that pass is not written (`InsertRefused`). `HeardIsSaved` shows that a later pass makes up for it.

## Proofs

Eight modules prove for every value of the constants what the runs check on small ones. Nothing is
assumed beyond the named assumptions on constants, which TLC evaluates in every run. Those that are
more than types: a window and the clock's seconds are natural numbers; the clients, listeners and
connections are finitely many; the gauge's modulus (2^64) exceeds the number of connections; the
empty string is no callsign, number or address; the default intervals fit into 64 bits; a packet
sets out within the length limit; callsigns are distinct from the codes of a construct (they are in
upper case, codes are not); a place is at distance 0 from itself; the ports that the system picks
for port 0 are ports other than 0; the listeners of an environment are a list; and the login lines,
the lines of an `aprsc.conf` and the reports of positions come with what they mean by the grammars
of `LinesMean` and `ReportsMean`. These two define a part of the input and restrict none of it:
every line, and every report of bytes, means something or nothing. TLC checked each inductive
invariant on the instances of the runs before it was proved. Each proof has a lemma per action,
split by the parts of the invariant that the action can disturb.

*Detector* (`DupeCheckProofs`). The inductive invariant `DupeInv` joins the types, `RingMatchesMap`
(a digest is in the map exactly if it is in the bucket of its second, and in no other), `InWindow`,
`MapIsWindow` and `PassesArePast`. `RingMatchesMap` alone is not inductive: that a bucket about to be
reused holds only expired digests needs the window, and that needs arithmetic modulo the number of
buckets, which the first lemmas provide. From it follow the five properties and the refinement:
every step of `DupeCheck` is a step of `DupeWindow` or a stutter.

*Packet path* (`DispatchProofs`). `DispatchInv` adds to the checked invariants `WalkIsNewest` (the walk
offers the newest line, and whom it has not visited holds only older ones), which carries
`FeedInOrder`; `LogIsRemembered` (the detector knows when each logged line passed), which carries
`NoDuplicateBroadcast`; and `HeldFilter`, which carries `OnlyEntitled`. `NoSilentLoss` is inductive
on top of it. What a client `Missed` is what was due to it and is in none of wire, buffer and
outbox; the sets are finite, so it is enough to follow them step by step. Writers leave streams as
they are (`MoveStep`); a line becomes due when the walk reaches the client (`ReachOwes`), and it is
then in its stream (`OfferKeeps`) or on its counter (`DropKeeps`); the walk ends without whom it did
not reach only if they registered too late for its line (`EndKeeps`); a filter that locks does not
change under it (`QuietKeeps`). `CountersBalance` compares counters with a sum over all clients,
and a sum is a fold, about which nothing can be proved by induction here: it is therefore stated as
the number of pairs of a client and one of its counted lines (`Ticks`), which a step at one client
changes by one pair (`OneMore`).

*Feed* (`DispatchProofs`). Under `DispatchInv` every step of `Dispatch` is a step of `Feed` or a
stutter. A writer's step moves lines from the outbox through the buffer to the wire and leaves their
concatenation, the `Stream`, as it was (`WireMoves`); so what is flushed is a longer beginning of a
stream that `FeedInOrder` and `NoEcho` speak of, and `OnlyEntitled` says that its lines may be sent
(`WriterReceives`). `LogIsRemembered` gives the distance in time that a `Broadcast` needs
(`DeliverBroadcasts`). All other steps leave `log` and `wire` alone (`FeedStep`).

*Connections and shutdown* (`SessionsProofs`). None of the six properties is inductive: each is about
a variable that some step of `serve` changes before or after the program counter reaches the place
where the property speaks of it. `SessionsInv` therefore says, for every place in `serve`, what holds
there: the registry is the set of connections in `Registered`, the gauge the number of those in
`Counted`, a writer runs only while its reader serves or ends, a closed row belongs to a connection
that is past everything that counts. `ShutdownFollows` has the argument of `Server::run`: the
dispatch task ends only when there is no sender, a sender lives as long as its connection, so no
connection that could submit, count or register is left when the queue is drained and `run` saves.
The gauge does not wrap because at most `Cardinality(Conn)` connections are counted at a time.

*Logins* (`SessionsProofs`). `LinesMean` says what a login line means without parsing it: which words
begin a group of keyword and arguments is the one set `K` for which a word is in `K` exactly if no
group before it covers it (`GroupsOf`, `Broken`, `Spelled`). The parser walks over the same words
with a recursive function of the place it has reached. `KeywordsAreGroups` is that the places it
visits are the members of `K`, and its filter that of the last group that has one. `LoginAsWritten`
follows because the steps after `LogIn` keep what was said until the client has left (`LoginKept`).

*Configuration* (`StartupProofs`). `IntervalRoundTrip`: every number of seconds below the largest
integer is rendered in groups whose total, built up turn by turn, is that number and never exceeds
it. With it `FileInv` says of the file on disk that it renders the configuration converted, unless
someone edited it, and of an edit that addresses and protocols stay; `LoadsAsConverted` follows.
`RunInv` adds what the running command holds: the validated configuration, whose listeners have the
addresses and protocols of those that were `Meant`, by the file or by the environment (`RunsMeant`),
and one socket per TCP listener up to the turn of `bind_all`, each at an address `Assigned` to it
and no two at the same; `ServesAsWritten` is its last turn. What is meant stays while the command
runs (`MeantStays`). `NothingLost` needs the importer from characters to warnings. The tokenizer is
a recursive function along the characters; its state after the first `i` is determined by how many
quotes, token beginnings and characters of each token stand among them, which is what the grammar
counts (`MarkedFurther`, `ToldFurther`, `TokensRead`). The options of a `Listen` are visited like
the groups of a login (`OptionsAre`, `ListenRead`). So each line is done or failed as it means
(`LineReads`), and keeps what earlier ones put there unless it overrides it (`LineKeeps`,
`WarningsGrow`): `ConvertInv`; what is left of a line and not `Unsaid` is among its warnings. The
`n`-th listener of the configuration is that of the `n`-th line that means one, where both are
counted.

Induction over a number is not lost with the library's induction theorems: that a set of numbers
which is not empty has a smallest one follows from `WFMin` (`Smallest`), and the lemmas above use it
in the form of `UpTo`, along a recursive function whose domain is an interval.

*Positions* (`PositionStoreProofs`). `SnapshotsFollow` puts every snapshot between the checkpoint and
the cache: a write of an old snapshot may undo a newer row, which is why the rows are not monotone,
but never below the checkpoint. The checkpoint moves only when a pass ends that was alone, and
`AloneWrites` says that the rows that pass is through with are then its snapshot. `LastSaveFollows`:
when the last save begins nothing is heard any more, so what any pass snapshots from then on is the
cache as it stays. All of it is beside what a cold start left unread: as long as such a
station is not heard, its row stays the unread one (`UnreadStays`).

*q algorithm* (`QRelayProofs`). A path is the one it set out with or has a construct that the next
server finds, and is at most two hops longer (`PathFollows`); without a construct or an `I` of its
own it still begins with the hops it set out with (`HopsKept`): rule by rule, on sequences of hops
of any length, for any servers in any order. `NeverVouchedAgain` is an action property under this
invariant. Looking for its proof corrected its exception: the paths it excludes end in a code and an
`I` (`CodeBeforeI`), where rule 3 takes the code for a callsign. `OneConstruct` likewise excludes
exactly the paths that set out with a construct elsewhere than at the end, with a second one, or
before an `I` (`WellTagged`).

*Positions in packets* (`QRelayProofs`). `PlacedAsSent` follows from `PlacedByParser`, that every
server which relays a report records what the parsers make of it, and from `PlacesAsSaid`: for any
bytes, that is what `Reports` says. Each parser is shown to agree with its encoding.
For digits (`TwoSpelled`, `ThreeSpelled`), the value with blanks read as zeros is the least of those
that the characters may stand for, and sums of least parts are least (`AnglesLeast`), hence nearest to
the equator and the meridian, and on the earth if any of them is (`BothAgree`); of a box that is
north or east that is the corner `PlacedAsSent` asks for (`NearestIsCorner`). In base 91, the
hundredths that `Turned` bounds by a product are the quotient and rest that the code computes, for
there is but one quotient (`Quotient`, `TurnedOnce`). In Mic-E a letter carries one digit and each
pair of wraps is undone (`MicEAgrees`). No bytes are both an uncompressed and a compressed
report, as one starts with a digit and the other does not, so the order in which `apply_position`
tries them matters only for the reports of `MisreadAsCompressed`.

*Filters* (`FiltersProofs`). `ChainsParsed` keeps every chain one that the parser let through, which
gives the limits; `BroadcastIsLast` and `CentreIsLastReport` say that the report being offered is in
the cache; and `JudgedByHeld` that a client was passed over by the chain it held, so that a filter
centred on the source would have matched at distance 0. The attempt showed that `OwnReportIsNear` is
about position reports only: an object may be anywhere.

*Codec* (`LineCodecProofs`). The buffer is the part of the stream that is not consumed, its scanned
part holds no newline (`BufferIsRest`), and the lines that ended before it were returned (`InLine`),
with one more when the buffer's own line was over-long and is being discarded (`InOverlong`) or was
the last (`InLast`). `FramedAsSent` is stated without recursion so that it can be proved: the line
that ends at byte `e` is the one at place `Rank(bytes, e)`, the number of newlines before it plus
one. The lemmas in front say how ranks grow from one newline to the next. It holds for every limit,
every stream and every cut into reads.

Only model-checked:

- liveness, which needs fairness and `ENABLED` (`OutboxReachesWire`, `QueueDrains`,
  `ShutdownCompletes`, `TeardownCompletes`, `DecodeReturns`, `HeardIsSaved`);
- that `Reports` says what senders mean: its definitions are compared with the encoders of
  `MCQRelay` on the reports of that instance.

## Not modelled

TNC2 framing appears by its outcome, and so do object names and tocalls; TOML's grammar, clap's and
the database's own behaviour are theirs. Numbers in filters are whole, geometry is a constant, and
printing a chain back is left out; in `Dispatch` a filter is a fixed set of lines until it is
replaced. Positions are whole hundredths of a minute, where the code has `f64`: what a compressed
position says below that is dropped. Keepalive comments: they travel outside the outbox and carry no
packet. Byte counters, counter samples and their pruning, and the web pages, which decide nothing (a
page reads registry and counters one after the other and may show a client count that differs from
its list). A window is any natural number, where the code has 64 bits and a bucket for every second.
Why the system refuses an address beyond one that is taken, a wildcard in the way or a missing
right, is left open: each bind may fail. UDP listeners are parsed by the configuration but not
served; only the q algorithm knows datagrams. `evict_older_than` is called by nothing.

## Plan

In order of importance; all but the last are done.

1. Detector and its window; theorems of both. Done.
2. Packet path with the window as its detector; safety theorems. Done.
3. Connections and shutdown, checked. Done.
4. q algorithm across servers, framing, positions, checked. Done.
5. Filters against the cache, checked. Done.
6. The abstract feed that `Dispatch` implements, checked and proved. Done.
7. Logins, positions in packets, and the configuration up to the bound sockets, checked. Done.
8. Theorems of connections, positions, q algorithm, filters and codec, and `NoSilentLoss`. Done.
9. Theorems of the counters, the logins and the configuration, with a grammar of the texts they are
   about. Done.
10. A grammar of position reports beside `Coordinates`, and the theorem of `PlacedAsSent`. Done.
11. The byte counters, if they turn out to carry a property.
