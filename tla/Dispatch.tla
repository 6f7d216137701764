------------------------------ MODULE Dispatch ------------------------------
(***************************************************************************)
(* The packet path of aprsr-server: the connection tasks submit lines to a *)
(* bounded queue, one dispatch task owns the duplicate detector and        *)
(* decides what happens to each line, and ClientRegistry::broadcast offers *)
(* what survives to every registered client, whose writer task drains a    *)
(* bounded outbox to its socket (client.rs, dispatch.rs, registry.rs).     *)
(*                                                                         *)
(* Tasks interleave as on a multi-threaded runtime.  In particular the     *)
(* walk of the registry is not atomic: clients come, go, change filter and *)
(* write between two visits.                                               *)
(*                                                                         *)
(* A Client is one connection after its login (a ClientId is never         *)
(* reused); Sessions models how connections get there.  A Line is what the *)
(* codec yields; what parsing, the q algorithm and rendering make of it    *)
(* are the sets Malformed, Looping and Overlong, a filter is the set of    *)
(* lines its chain matches, and the detector is the abstract DupeWindow.   *)
(* A delivered line is named by its position in the history `log`.         *)
(***************************************************************************)
EXTENDS DupeWindow, Sequences, FiniteSets, Functions

CONSTANTS
  Client,         \* connections that have logged in
  Kind,           \* Client -> the kind of port it arrived on
  Verified,       \* Client -> whether its passcode was valid
  Held,           \* the clients whose port forces a filter
  Forced,         \* Client -> the filter its port forces, if it does
  Filters,        \* the filters clients ask for, each a set of lines
  Line,
  DigestOf,       \* Line -> Digest
  Malformed,      \* lines Tnc2Packet::parse refuses
  Looping,        \* lines the q algorithm refuses
  Overlong,       \* lines that no longer parse once the path is rewritten
  ClientQueue,    \* limits.client_queue: depth of the queue and of an outbox
  MaxReads        \* bound: how many lines are read from all sockets

PortKind == {"FullFeed", "Igate", "DupeFeed", "UdpSubmit"}

ASSUME DispatchConstants ==
  /\ IsFiniteSet(Client)
  /\ Kind \in [Client -> PortKind]
  /\ Verified \in [Client -> BOOLEAN]
  /\ Held \subseteq Client
  /\ Forced \in [Client -> SUBSET Line]
  /\ Filters \subseteq SUBSET Line
  /\ DigestOf \in [Line -> Digest]
  /\ Malformed \subseteq Line /\ Looping \subseteq Line /\ Overlong \subseteq Line
  /\ ClientQueue \in Nat
  /\ MaxReads \in Nat

VARIABLES
  status,     \* Client -> "new", "registered", "leaving" or "gone"
  filter,     \* Client -> the filter in force
  queue,      \* the dispatch channel: [line, origin] records, oldest first
  current,    \* serial being broadcast, 0 while the task waits for a line
  visited,    \* clients this walk of the registry has reached
  outbox,     \* Client -> serials in the channel to its writer
  writer,     \* Client -> "idle", "drain" (coalescing a burst) or "dead"
  buffer,     \* Client -> serials written but not flushed
  wire,       \* history: Client -> serials flushed to the socket
  log,        \* history: [line, origin, second] of each line broadcast
  joined,     \* history: Client -> length of the log when it registered
  metrics,    \* the server's counters
  counters,   \* Client -> its own counters
  reads       \* how many lines were read, bounded by MaxReads

taskVars == <<queue, current, visited, log, now, lastPass, duplicate>>
clientVars == <<status, filter, joined>>
writerVars == <<outbox, writer, buffer, wire>>
countVars == <<metrics, counters, reads>>
vars == <<taskVars, clientVars, writerVars, countVars>>

-----------------------------------------------------------------------------

Depth == IF ClientQueue = 0 THEN 1 ELSE ClientQueue

AcceptsFilters(kind) == kind = "Igate"

(* initial_filter and Client::filter_locked: a forced filter is locked,    *)
(* and so is the empty one of a port that takes no filters.                *)
LockedByKind(c) == ~ AcceptsFilters(Kind[c])    \* mutant
Locked(c) == c \in Held \/ ~ AcceptsFilters(Kind[c])

InitialFilters(c) ==
  IF c \in Held THEN {Forced[c]}
  ELSE IF AcceptsFilters(Kind[c]) THEN Filters \cup {{}}
  ELSE {{}}

Registered == {c \in Client : status[c] \in {"registered", "leaving"}}

(* registry::accepts.                                                      *)
Accepts(c, l) ==
  \/ Kind[c] = "FullFeed"
  \/ Kind[c] = "Igate" /\ l \in filter[c]

IncrBackwards(count, field) == [count EXCEPT ![field] = @ - 1]    \* mutant
Incr(count, field) == [count EXCEPT ![field] = @ + 1]

NoMetrics == [received |-> 0, unverified |-> 0, invalid |-> 0, duplicate |-> 0,
              rejected |-> 0, slow |-> 0, sent |-> 0]
NoCounters == [received |-> 0, sent |-> 0, dropped |-> 0]

Init ==
  /\ DupeInit
  /\ status = [c \in Client |-> "new"]
  /\ filter = [c \in Client |-> {}]
  /\ queue = <<>>
  /\ current = 0
  /\ visited = {}
  /\ outbox = [c \in Client |-> <<>>]
  /\ writer = [c \in Client |-> "idle"]
  /\ buffer = [c \in Client |-> <<>>]
  /\ wire = [c \in Client |-> <<>>]
  /\ log = <<>>
  /\ joined = [c \in Client |-> 0]
  /\ metrics = NoMetrics
  /\ counters = [c \in Client |-> NoCounters]
  /\ reads = 0

-----------------------------------------------------------------------------
(* The connection tasks.                                                   *)

(* register: insert into the registry, with an outbox and a writer.        *)
Register(c) ==
  /\ status[c] = "new"
  /\ status' = [status EXCEPT ![c] = "registered"]
  /\ \E f \in InitialFilters(c) : filter' = [filter EXCEPT ![c] = f]
  /\ joined' = [joined EXCEPT ![c] = Len(log)]
  /\ UNCHANGED <<taskVars, writerVars, countVars>>

(* read_submissions takes a packet line and submits it with try_send: when *)
(* the queue is full the line is dropped and counted, and reading goes on. *)
Submit(c, l) ==
  /\ status[c] = "registered"
  /\ reads < MaxReads
  /\ reads' = reads + 1
  /\ counters' = [counters EXCEPT ![c] = Incr(@, "received")]
  /\ IF Len(queue) < Depth
       THEN /\ queue' = Append(queue, [line |-> l, origin |-> c])
            /\ UNCHANGED metrics
       ELSE /\ metrics' = Incr(metrics, "slow")
            /\ UNCHANGED queue
  /\ UNCHANGED <<current, visited, log, dupeVars, clientVars, writerVars>>

(* read_submissions takes a line the codec found oversized or not UTF-8.   *)
ReadUnusable(c) ==
  /\ status[c] = "registered"
  /\ reads < MaxReads
  /\ reads' = reads + 1
  /\ metrics' = Incr(metrics, "invalid")
  /\ counters' = [counters EXCEPT ![c] = Incr(@, "dropped")]
  /\ UNCHANGED <<taskVars, clientVars, writerVars>>

(* read_submissions takes a `filter` line that parses.                     *)
FilterCommand(c, f) ==
  /\ status[c] = "registered"
  /\ AcceptsFilters(Kind[c])
  /\ ~ Locked(c)
  /\ filter' = [filter EXCEPT ![c] = f]
  /\ UNCHANGED <<status, joined, taskVars, writerVars, countVars>>

(* The reader stops and serve aborts the writer: the receiving end of the  *)
(* outbox goes, and what was queued or not yet flushed goes with it.       *)
Hangup(c) ==
  /\ status[c] = "registered"
  /\ status' = [status EXCEPT ![c] = "leaving"]
  /\ writer' = [writer EXCEPT ![c] = "dead"]
  /\ outbox' = [outbox EXCEPT ![c] = <<>>]
  /\ buffer' = [buffer EXCEPT ![c] = <<>>]
  /\ UNCHANGED <<filter, joined, wire, taskVars, countVars>>

(* disconnect: remove from the registry.                                   *)
Unregister(c) ==
  /\ status[c] = "leaving"
  /\ status' = [status EXCEPT ![c] = "gone"]
  /\ UNCHANGED <<filter, joined, taskVars, writerVars, countVars>>

-----------------------------------------------------------------------------
(* The dispatch task: dispatch::process on the oldest line of the queue.   *)

Head1 == Head(queue)

(* process begins: a line is received and counted, and counted once more   *)
(* under the reason for its refusal.                                       *)
RefuseUncounted(reason) ==    \* mutant
  /\ queue' = Tail(queue)
  /\ metrics' = Incr(metrics, "received")
  /\ UNCHANGED <<current, visited, log, clientVars, writerVars, counters, reads>>

Refuse(reason) ==
  /\ queue' = Tail(queue)
  /\ metrics' = Incr(Incr(metrics, "received"), reason)
  /\ UNCHANGED <<current, visited, log, clientVars, writerVars, counters, reads>>

Ready == current = 0 /\ queue # <<>>

RefuseUnverified ==
  /\ Ready
  /\ ~ Verified[Head1.origin]
  /\ Refuse("unverified")
  /\ UNCHANGED dupeVars

RefuseMalformed ==
  /\ Ready
  /\ Verified[Head1.origin]
  /\ Head1.line \in Malformed
  /\ Refuse("invalid")
  /\ UNCHANGED dupeVars

(* The line is well-formed and the detector is asked at second t.          *)
Checked(t) ==
  /\ Ready
  /\ Verified[Head1.origin]
  /\ Head1.line \notin Malformed
  /\ Check(DigestOf[Head1.line], t)

RefuseDuplicate ==
  /\ \E t \in Clock : Checked(t)
  /\ duplicate'
  /\ Refuse("duplicate")

RefuseLoop ==
  /\ \E t \in Clock : Checked(t)
  /\ ~ duplicate'
  /\ Head1.line \in Looping
  /\ Refuse("rejected")

(* The rewritten line does not parse again.                                *)
RefuseOverlong ==
  /\ \E t \in Clock : Checked(t)
  /\ ~ duplicate'
  /\ Head1.line \notin Looping
  /\ Head1.line \in Overlong
  /\ Refuse("invalid")

(* The line survives and the walk of the registry begins.                  *)
Deliver ==
  /\ \E t \in Clock : Checked(t)
  /\ ~ duplicate'
  /\ Head1.line \notin Looping \cup Overlong
  /\ queue' = Tail(queue)
  /\ metrics' = Incr(metrics, "received")
  /\ log' = Append(log, [line |-> Head1.line, origin |-> Head1.origin,
                         second |-> now'])
  /\ current' = Len(log')
  /\ visited' = {}
  /\ UNCHANGED <<clientVars, writerVars, counters, reads>>

(* One entry of the walk: the originator is skipped, a client whose filter *)
(* refuses the line is passed over, and a full or closed outbox costs that *)
(* client the line.                                                        *)
WantedByAll(c) == Accepts(c, log[current].line)    \* mutant: no originator
Wanted(c) == c # log[current].origin /\ Accepts(c, log[current].line)

Room(c) == writer[c] # "dead" /\ Len(outbox[c]) < Depth

(* Mutant: the walk may come by the same client again.                     *)
ReachAgain(c) ==
  /\ current # 0
  /\ c \in Registered \ visited
  /\ UNCHANGED <<queue, current, visited, log, dupeVars, clientVars,
                 writer, buffer, wire, reads>>

Reach(c) ==
  /\ current # 0
  /\ c \in Registered \ visited
  /\ visited' = visited \cup {c}
  /\ UNCHANGED <<queue, current, log, dupeVars, clientVars,
                 writer, buffer, wire, reads>>

PassOver(c) ==
  /\ Reach(c)
  /\ ~ Wanted(c)
  /\ UNCHANGED <<outbox, metrics, counters>>

Offer(c) ==
  /\ Reach(c)
  /\ Wanted(c)
  /\ Room(c)
  /\ outbox' = [outbox EXCEPT ![c] = Append(@, current)]
  /\ counters' = [counters EXCEPT ![c] = Incr(@, "sent")]
  /\ metrics' = Incr(metrics, "sent")

(* Mutants: the line goes and nothing counts it; the walk waits for room.  *)
DropUncounted(c) ==
  /\ Reach(c)
  /\ Wanted(c)
  /\ ~ Room(c)
  /\ UNCHANGED <<outbox, counters, metrics>>

DropNever(c) == FALSE

Drop(c) ==
  /\ Reach(c)
  /\ Wanted(c)
  /\ ~ Room(c)
  /\ counters' = [counters EXCEPT ![c] = Incr(@, "dropped")]
  /\ metrics' = Incr(metrics, "slow")
  /\ UNCHANGED outbox

Visit(c) == PassOver(c) \/ Offer(c) \/ Drop(c)

(* The walk ends.  Iterating a DashMap reaches every entry that is there   *)
(* throughout; one inserted during the walk may or may not be reached.     *)
EndBroadcast ==
  /\ current # 0
  /\ \A c \in Registered \ visited : joined[c] >= current
  /\ current' = 0
  /\ visited' = {}
  /\ UNCHANGED <<queue, log, dupeVars, clientVars, writerVars, countVars>>

-----------------------------------------------------------------------------
(* The writer tasks: write_feed.                                           *)

WriteFirstPeeks(c) ==    \* mutant: the line is not taken out
  /\ writer[c] = "idle"
  /\ outbox[c] # <<>>
  /\ wire' = [wire EXCEPT ![c] = Append(@, Head(outbox[c]))]
  /\ writer' = [writer EXCEPT ![c] = "drain"]
  /\ UNCHANGED <<outbox, buffer, taskVars, clientVars, countVars>>

(* recv yields a line, which is written and flushed at once.               *)
WriteFirst(c) ==
  /\ writer[c] = "idle"
  /\ outbox[c] # <<>>
  /\ wire' = [wire EXCEPT ![c] = Append(@, Head(outbox[c]))]
  /\ outbox' = [outbox EXCEPT ![c] = Tail(@)]
  /\ writer' = [writer EXCEPT ![c] = "drain"]
  /\ UNCHANGED <<buffer, taskVars, clientVars, countVars>>

(* try_recv yields another, which is only buffered.                        *)
WriteMore(c) ==
  /\ writer[c] = "drain"
  /\ outbox[c] # <<>>
  /\ buffer' = [buffer EXCEPT ![c] = Append(@, Head(outbox[c]))]
  /\ outbox' = [outbox EXCEPT ![c] = Tail(@)]
  /\ UNCHANGED <<writer, wire, taskVars, clientVars, countVars>>

(* Mutant: the burst is over and nobody flushes it.                        *)
FlushForgotten(c) ==
  /\ writer[c] = "drain"
  /\ outbox[c] = <<>>
  /\ writer' = [writer EXCEPT ![c] = "idle"]
  /\ UNCHANGED <<outbox, buffer, wire, taskVars, clientVars, countVars>>

(* try_recv finds the outbox empty: flush and wait again.                  *)
Flush(c) ==
  /\ writer[c] = "drain"
  /\ outbox[c] = <<>>
  /\ wire' = [wire EXCEPT ![c] = @ \o buffer[c]]
  /\ buffer' = [buffer EXCEPT ![c] = <<>>]
  /\ writer' = [writer EXCEPT ![c] = "idle"]
  /\ UNCHANGED <<outbox, taskVars, clientVars, countVars>>

(* A write fails and the task returns; the reader does not notice.         *)
WriteFails(c) ==
  /\ status[c] = "registered"
  /\ writer[c] # "dead"
  /\ writer' = [writer EXCEPT ![c] = "dead"]
  /\ outbox' = [outbox EXCEPT ![c] = <<>>]
  /\ buffer' = [buffer EXCEPT ![c] = <<>>]
  /\ UNCHANGED <<wire, taskVars, clientVars, countVars>>

-----------------------------------------------------------------------------

Reader(c) ==
  \/ Register(c)
  \/ \E l \in Line : Submit(c, l)
  \/ ReadUnusable(c)
  \/ \E f \in Filters : FilterCommand(c, f)
  \/ Hangup(c)
  \/ Unregister(c)

Process ==
  \/ RefuseUnverified
  \/ RefuseMalformed
  \/ RefuseDuplicate
  \/ RefuseLoop
  \/ RefuseOverlong
  \/ Deliver

DispatchTask == Process \/ (\E c \in Client : Visit(c)) \/ EndBroadcast

Writer(c) == WriteFirst(c) \/ WriteMore(c) \/ Flush(c)

Next ==
  \/ \E c \in Client : Reader(c) \/ Writer(c) \/ WriteFails(c)
  \/ DispatchTask

Spec == Init /\ [][Next]_vars

(* The dispatch task never waits for anything but a line: it is scheduled  *)
(* again whenever it can move.  Nothing is assumed of readers and writers. *)
DispatchSpec == Spec /\ WF_vars(DispatchTask)

-----------------------------------------------------------------------------

Serial == 1 .. Len(log)

(* Everything the server has accepted for c, in the order it leaves.       *)
Stream(c) == wire[c] \o buffer[c] \o outbox[c]

TypeOK ==
  /\ now \in Nat
  /\ lastPass \in [Digest -> Nat \cup {Never}]
  /\ duplicate \in BOOLEAN
  /\ status \in [Client -> {"new", "registered", "leaving", "gone"}]
  /\ filter \in [Client -> SUBSET Line]
  /\ queue \in Seq([line : Line, origin : Client])
  /\ current \in Serial \cup {0}
  /\ visited \in SUBSET Client
  /\ outbox \in [Client -> Seq(Serial)]
  /\ writer \in [Client -> {"idle", "drain", "dead"}]
  /\ buffer \in [Client -> Seq(Serial)]
  /\ wire \in [Client -> Seq(Serial)]
  /\ log \in Seq([line : Line, origin : Client, second : Nat])
  /\ joined \in [Client -> Nat]
  /\ metrics \in [DOMAIN NoMetrics -> Nat]
  /\ counters \in [Client -> [DOMAIN NoCounters -> Nat]]
  /\ reads \in 0 .. MaxReads

(* Part of the inductive invariant: no channel holds more than its depth,  *)
(* whatever a burst of submissions or a client that stops reading does.    *)
QueuesBounded ==
  /\ Len(queue) <= Depth
  /\ \A c \in Client : Len(outbox[c]) <= Depth

(* What a client is sent keeps the order of the dispatch task and repeats  *)
(* nothing, across outbox, write buffer and socket, whatever joins, leaves *)
(* and drops fall in between.                                              *)
FeedInOrder ==
  \A c \in Client : \A i, j \in 1 .. Len(Stream(c)) :
    i < j => Stream(c)[i] < Stream(c)[j]

(* No packet comes back to the connection that submitted it.               *)
NoEcho ==
  \A c \in Client : \A i \in 1 .. Len(Stream(c)) :
    log[Stream(c)[i]].origin # c

(* Only verified clients inject, only kinds of port with a feed receive,   *)
(* and a client behind a locked filter receives only what it matches.      *)
OnlyEntitled ==
  /\ \A i \in Serial : Verified[log[i].origin]
  /\ \A c \in Client : Stream(c) # <<>> => Kind[c] \in {"FullFeed", "Igate"}
  /\ \A c \in Client : \A i \in 1 .. Len(Stream(c)) :
       Kind[c] = "Igate" /\ c \in Held =>
         log[Stream(c)[i]].line \in Forced[c]

(* Two broadcasts of one transmission are more than a window apart.        *)
NoDuplicateBroadcast ==
  \A i, j \in Serial :
    i < j /\ DigestOf[log[i].line] = DigestOf[log[j].line]
      => log[j].second - log[i].second > Span

(* The walk in progress broadcasts the newest line, which no client it has *)
(* not reached was offered; and what left a channel is not there any more: *)
(* an idle writer has flushed, a dead one holds nothing.                   *)
WalkIsNewest ==
  /\ current \in {0, Len(log)}
  /\ current = 0 => visited = {}
  /\ \A c \in Client :
       /\ writer[c] # "drain" => buffer[c] = <<>>
       /\ writer[c] = "dead" => outbox[c] = <<>>
       /\ status[c] = "new" => Stream(c) = <<>>
       /\ current # 0 /\ c \notin visited =>
            \A i \in 1 .. Len(Stream(c)) : Stream(c)[i] < current

(* The detector remembers when the last broadcast of a transmission passed.*)
LogIsRemembered ==
  /\ \A d \in Digest : lastPass[d] <= now
  /\ \A i \in Serial : log[i].second <= lastPass[DigestOf[log[i].line]]

(* A client past its registration that may not choose has the filter its   *)
(* port gave it.                                                           *)
HeldFilter ==
  \A c \in Client :
    status[c] # "new" /\ c \in Held => filter[c] = Forced[c]

DispatchInv ==
  /\ TypeOK
  /\ QueuesBounded
  /\ FeedInOrder
  /\ NoEcho
  /\ OnlyEntitled
  /\ NoDuplicateBroadcast
  /\ WalkIsNewest
  /\ LogIsRemembered
  /\ HeldFilter

(* The packet path implements the abstract feed: the log is what was       *)
(* broadcast, and a client has received what was flushed to its socket.    *)
Promised == INSTANCE Feed WITH
  received <- wire,
  MayInject <- {c \in Client : Verified[c]},
  MayReceive <- [c \in Client |->
                   CASE Kind[c] = "FullFeed" -> Line
                     [] Kind[c] = "Igate" /\ c \in Held -> Forced[c]
                     [] Kind[c] = "Igate" /\ c \notin Held -> Line
                     [] OTHER -> {}]

ImplementsFeed == Promised!FeedSpec

(* The lines a client wants whatever happens: everything on a full feed,   *)
(* and what the filter matches behind a locked filter.                     *)
Due(c) ==
  {i \in Serial :
     /\ i > joined[c]
     /\ i # current \/ c \in visited
     /\ log[i].origin # c
     /\ Kind[c] = "FullFeed" \/ (Kind[c] = "Igate" /\ Locked(c)
                                   /\ log[i].line \in filter[c])}

Missed(c) == Due(c) \ {Stream(c)[i] : i \in 1 .. Len(Stream(c))}

(* While its writer lives, a client misses a line only by a drop that its  *)
(* own counter shows.                                                      *)
NoSilentLoss ==
  \A c \in Client :
    status[c] = "registered" /\ writer[c] # "dead" =>
      Cardinality(Missed(c)) <= counters[c].dropped

(* The total of a count over the clients: one pair for every time a client *)
(* was counted.                                                            *)
Ticks(count) == UNION {{c} \X (1 .. count[c]) : c \in Client}
Total(count) == Cardinality(Ticks(count))

(* What the clients' own counters say: lines taken from each or dropped on *)
(* the way to it, and lines put in its outbox.                             *)
Taken == [c \in Client |-> counters[c].received + counters[c].dropped]
Handed == [c \in Client |-> counters[c].sent]

(* What the server says it did not pass on.                                *)
Refusals(m) == m.unverified + m.invalid + m.duplicate + m.rejected + m.slow

(* Every line read is counted exactly once, and so is every refused        *)
(* delivery: what the clients' counters say was received or dropped is     *)
(* what the server's counters explain, plus what is queued or delivered.   *)
CountersBalance ==
  /\ Total(Taken) = Refusals(metrics) + Len(log) + Len(queue)
  /\ Total(Handed) = metrics.sent

(* The n-th line the queue accepts is processed and every walk of the      *)
(* registry ends, however slow or stuck the clients are.                   *)
QueueDrains ==
  /\ \A n \in 1 .. MaxReads :
       metrics.received + Len(queue) >= n ~> metrics.received >= n
  /\ current # 0 ~> current = 0

(* When every socket takes what its writer hands it, a line queued for a   *)
(* client is flushed to its socket unless the writer ends first:           *)
(* coalescing a burst never strands one in the write buffer.               *)
SocketsTake == \A c \in Client : WF_vars(Writer(c))

OutboxReachesWire ==
  SocketsTake =>
    \A c \in Client, n \in 1 .. MaxReads :
      n \in Range(buffer[c] \o outbox[c])
        ~> n \in Range(wire[c]) \/ writer[c] = "dead"
=============================================================================
