------------------------------ MODULE Sessions ------------------------------
(***************************************************************************)
(* The life of connections in aprsr-server and the graceful shutdown:      *)
(* accept_loop and Server::run (lib.rs), client::serve from the accepted   *)
(* socket to the closed log row (client.rs), and the ends of the dispatch  *)
(* task and of the writer tasks that the shutdown has to wait for.         *)
(*                                                                         *)
(* Every task is a process and every await a point where others run: a     *)
(* connection's position in `serve` is pc[c].  What travels is modelled in *)
(* Dispatch; here a line is only counted, because what matters is that     *)
(* nothing accepted is lost when the server stops.  One unit of time is a  *)
(* fraction 1/LoginTimeout of the 30 seconds of client.rs, and is only     *)
(* kept for the login; the grace of a farewell is untimed: a writer whose  *)
(* socket takes data needs less, one whose socket does not may need more.  *)
(***************************************************************************)
EXTENDS Login, FiniteSets

CONSTANTS
  Conn,           \* connections that may arrive
  Listener,       \* the TCP listeners
  On,             \* Conn -> the listener it arrives on
  Capped,         \* the listeners with max_clients
  Limit,          \* Listener -> its max_clients, if it has one
  ClientQueue,    \* limits.client_queue
  LoginTimeout,   \* LOGIN_TIMEOUT
  GaugeModulus,   \* 2^64, the width of clients_connected
  Igate,          \* the listeners whose clients set their own filter
  Forced,         \* Listener -> its forced filter, if it has one
  Chains,         \* the expressions that FilterChain::parse accepts
  FirstLine,      \* bound: what peers send for a login: [words, means], the
                  \* client they mean to be, if the line is one the protocol
                  \* has
  MaxNoise,       \* bound: other lines from a connection before its login
  MaxLines        \* bound: packet lines read from all connections

(* How read_login ends: with a login that Verify judges, or without one.   *)
Accepted == {"valid", "receive-only", "invalid"}
Refused == {"malformed", "silent"}

ASSUME SessionsConstants ==
  /\ IsFiniteSet(Conn)
  /\ IsFiniteSet(Listener)
  /\ On \in [Conn -> Listener]
  /\ Capped \subseteq Listener
  /\ Limit \in [Listener -> Nat]
  /\ ClientQueue \in Nat
  /\ LoginTimeout \in Nat \ {0}
  /\ GaugeModulus \in Nat /\ GaugeModulus > Cardinality(Conn)
  /\ Igate \subseteq Listener
  /\ \A l \in Listener : Forced[l] \subseteq Chains
  /\ MaxNoise \in Nat
  /\ MaxLines \in Nat

(* The grammar of a login line, against which the lines of FirstLine are   *)
(* annotated: behind the passcode a word begins a group unless the group   *)
(* of a keyword before it takes it.                                        *)
Groups(words, K) ==
  \A i \in 5 .. Len(words) :
    i \notin K <=> \/ i - 1 \in K /\ Lower(words[i - 1]) \in {"vers", "udp"}
                   \/ i - 2 \in K /\ Lower(words[i - 2]) = "vers"
                   \/ \E j \in K : j < i /\ Lower(words[j]) = "filter"

GroupsOf(words, K, keyword) == {i \in K : Lower(words[i]) = keyword}

Broken(words, K) ==
  \/ Len(words) < 4
  \/ Lower(words[1]) # "user"
  \/ ~ ParsesAsLogin(words[2])
  \/ Lower(words[3]) # "pass"
  \/ NumberOf(words[4], I32) = {}
  \/ \E i \in GroupsOf(words, K, "udp") :
       i = Len(words) \/ NumberOf(words[i + 1], Ports) = {}

Spelled(words, K, means) ==
  LET vers == GroupsOf(words, K, "vers") \ {Len(words)}
      last == {i \in vers : \A j \in GroupsOf(words, K, "vers") : j <= i}
  IN /\ means.callsign = words[2]
     /\ \E code \in NumberOf(words[4], I32) :
          means.verified = (code # ReceiveOnly /\ code = Generate(Bytes[words[2]]))
     /\ means.software = {SubSeq(words, i + 1, i + (IF i + 1 = Len(words) THEN 1 ELSE 2)) :
                            i \in last}
     /\ means.filter =
          {SubSeq(words, i + 1, Len(words)) :
             i \in GroupsOf(words, K, "filter") \ {Len(words)}} \cap Chains

ASSUME LinesMean ==
  \A line \in FirstLine :
    /\ line.words \in Seq(STRING)
    /\ \E K \in SUBSET (5 .. Len(line.words)) :
         /\ Groups(line.words, K)
         /\ IF Broken(line.words, K) THEN line.means = {}
            ELSE \E means \in line.means :
                   line.means = {means} /\ Spelled(line.words, K, means)

VARIABLES
  triggered,      \* the watch channel every Shutdown reads
  accepting,      \* the listeners whose accept_loop runs
  main,           \* Server::run: "running", "joining", "draining", "done"
  dispatch,       \* the dispatch task: "running" or "ended"
  pc,             \* Conn -> where its serve task is
  age,            \* Conn -> time since the login wait last began
  noise,          \* Conn -> lines other than a login it sent, bounded
  login,          \* Conn -> how its login ended
  said,           \* history: Conn -> the first line that is no noise
  request,        \* Conn -> what read_login made of it
  client,         \* Conn -> what it is registered with
  registry,       \* connections in ClientRegistry
  cause,          \* history: Conn -> why its service ended
  writer,         \* Conn -> its write_feed task
  slow,           \* connections whose socket may block the writer
  gauge,          \* metrics.clients_connected
  rejected,       \* metrics.logins_rejected
  row,            \* Conn -> its client_session row
  totals,         \* Conn -> the counters its row was closed with
  traffic,        \* Conn -> its live counters
  lines,          \* packet lines read, bounded by MaxLines
  submitted,      \* lines the dispatch queue accepted
  processed,      \* of these, the lines dispatch::process is through with
  saved           \* positions saved by run: those of how many lines, or none

handshakeVars == <<age, noise, login, said, request, rejected>>
clientVars == <<registry, client, gauge, row, totals>>
writerVars == <<writer, slow, cause>>
lineVars == <<traffic, lines, submitted, processed>>
runVars == <<triggered, accepting, main, dispatch, saved>>
vars == <<pc, handshakeVars, clientVars, writerVars, lineVars, runVars>>

-----------------------------------------------------------------------------

Depth == IF ClientQueue = 0 THEN 1 ELSE ClientQueue

NotSaved == -1
NoLine == [words |-> <<>>, means |-> {}]
NoRequest == [callsign |-> "none"]
NoClient == [callsign |-> "none"]

(* registry.count_on_listener                                              *)
CountOn(l) == Cardinality({c \in registry : On[c] = l})

Full(l) == l \in Capped /\ CountOn(l) >= Limit[l]

Go(c, to) == pc' = [pc EXCEPT ![c] = to]

Init ==
  /\ triggered = FALSE
  /\ accepting = Listener
  /\ main = "running"
  /\ dispatch = "running"
  /\ pc = [c \in Conn |-> "absent"]
  /\ age = [c \in Conn |-> 0]
  /\ noise = [c \in Conn |-> 0]
  /\ login = [c \in Conn |-> "none"]
  /\ said = [c \in Conn |-> NoLine]
  /\ request = [c \in Conn |-> NoRequest]
  /\ client = [c \in Conn |-> NoClient]
  /\ registry = {}
  /\ cause = [c \in Conn |-> "none"]
  /\ writer = [c \in Conn |-> "none"]
  /\ slow = {}
  /\ gauge = 0
  /\ rejected = 0
  /\ row = [c \in Conn |-> "none"]
  /\ totals = [c \in Conn |-> 0]
  /\ traffic = [c \in Conn |-> 0]
  /\ lines = 0
  /\ submitted = 0
  /\ processed = 0
  /\ saved = NotSaved

-----------------------------------------------------------------------------
(* accept_loop: the select! may take a connection even after the trigger.  *)

Accept(c) ==
  /\ pc[c] = "absent"
  /\ On[c] \in accepting
  /\ Go(c, "accepted")
  /\ UNCHANGED <<handshakeVars, clientVars, writerVars, lineVars, runVars>>

StopAccepting(l) ==
  /\ triggered
  /\ l \in accepting
  /\ accepting' = accepting \ {l}
  /\ UNCHANGED <<pc, handshakeVars, clientVars, writerVars, lineVars,
                 triggered, main, dispatch, saved>>

-----------------------------------------------------------------------------
(* serve, the handshake.                                                   *)

(* The check of max_clients against the registry.                          *)
CheckCapDisconnects(c) ==    \* mutant: a refused client is disconnected
  /\ pc[c] = "accepted"
  /\ Go(c, IF Full(On[c]) THEN "removing" ELSE "banner")
  /\ UNCHANGED <<handshakeVars, clientVars, writerVars, lineVars, runVars>>

CheckCap(c) ==
  /\ pc[c] = "accepted"
  /\ Go(c, IF Full(On[c]) THEN "closed" ELSE "banner")
  /\ UNCHANGED <<handshakeVars, clientVars, writerVars, lineVars, runVars>>

WriteBanner(c) ==
  /\ pc[c] = "banner"
  /\ Go(c, "login")
  /\ UNCHANGED <<handshakeVars, clientVars, writerVars, lineVars, runVars>>

(* read_login: time passes while no line comes.                            *)
Wait(c) ==
  /\ pc[c] = "login"
  /\ age[c] < LoginTimeout
  /\ age' = [age EXCEPT ![c] = @ + 1]
  /\ UNCHANGED <<pc, noise, login, said, request, rejected, clientVars, writerVars,
                 lineVars, runVars>>

(* A comment, an empty, an oversized or an undecodable line: the loop goes *)
(* round and the timeout is a new one.                                     *)
Noise(c) ==
  /\ pc[c] = "login"
  /\ noise[c] < MaxNoise
  /\ noise' = [noise EXCEPT ![c] = @ + 1]
  /\ age' = [age EXCEPT ![c] = 0]
  /\ UNCHANGED <<pc, login, said, request, rejected, clientVars, writerVars,
                 lineVars, runVars>>

Say(c, line) == said' = [said EXCEPT ![c] = line]

(* A line that parses as a login, with a passcode that verifies or not.    *)
LogIn(c, line) ==
  /\ pc[c] = "login"
  /\ Say(c, line)
  /\ \E asked \in ParseLogin(line.words) :
       /\ request' = [request EXCEPT ![c] = asked]
       /\ login' = [login EXCEPT ![c] = Verify(asked.callsign, asked.passcode)]
  /\ Go(c, "ack")
  /\ UNCHANGED <<age, noise, rejected, clientVars, writerVars,
                 lineVars, runVars>>

Refuse(c, how) ==
  /\ pc[c] = "login"
  /\ login' = [login EXCEPT ![c] = how]
  /\ rejected' = rejected + 1
  /\ Go(c, "closed")
  /\ UNCHANGED <<age, noise, request, clientVars, writerVars, lineVars, runVars>>

(* No login: a line that does not parse, or the stream ends or fails.      *)
Malformed(c, line) ==
  /\ ParseLogin(line.words) = {}
  /\ Say(c, line)
  /\ Refuse(c, "malformed")

LeavesEarly(c) == Refuse(c, "silent") /\ UNCHANGED said

LoginTimesOut(c) ==
  /\ age[c] = LoginTimeout
  /\ Refuse(c, "silent")
  /\ UNCHANGED said

(* The response is written, and an invalid passcode counted.               *)
Acknowledge(c) ==
  /\ pc[c] = "ack"
  /\ rejected' = rejected + (IF login[c] = "invalid" THEN 1 ELSE 0)
  /\ Go(c, "opening")
  /\ UNCHANGED <<age, noise, login, said, request, clientVars, writerVars,
                 lineVars, runVars>>

(* The socket is gone before it is served, or cannot be written to.        *)
HandshakeFails(c) ==
  /\ pc[c] \in {"accepted", "banner", "ack"}
  /\ Go(c, "closed")
  /\ UNCHANGED <<handshakeVars, clientVars, writerVars, lineVars, runVars>>

-----------------------------------------------------------------------------
(* serve, registration: the log row, the registry, the counters.           *)

(* open_session_row: without a store, or if it fails, there is no row.     *)
OpenRow(c) ==
  /\ pc[c] = "opening"
  /\ row' \in {row, [row EXCEPT ![c] = "open"]}
  /\ Go(c, "inserting")
  /\ UNCHANGED <<handshakeVars, registry, client, gauge, totals, writerVars,
                 lineVars, runVars>>

(* initial_filter: a forced filter wins, and only an IGate port leaves the *)
(* choice to the client.                                                   *)
InitialFilter(l, wanted) ==
  IF Forced[l] # {} THEN Forced[l]
  ELSE IF l \in Igate THEN wanted \cap Chains ELSE {}

FilterLocked(l) == Forced[l] # {} \/ l \notin Igate

(* register: what the registry holds of the client.                        *)
Registration(c) ==
  [callsign |-> request[c].callsign,
   verified |-> login[c] = "valid",
   software |-> {<<name>> \o SetToSeq(request[c].version) : name \in request[c].software},
   filter |-> InitialFilter(On[c], request[c].filter),
   locked |-> FilterLocked(On[c])]

Insert(c) ==
  /\ pc[c] = "inserting"
  /\ registry' = registry \cup {c}
  /\ client' = [client EXCEPT ![c] = Registration(c)]
  /\ Go(c, "counting")
  /\ UNCHANGED <<handshakeVars, gauge, row, totals, writerVars, lineVars, runVars>>

(* The gauge goes up and the writer is spawned.                            *)
Count(c) ==
  /\ pc[c] = "counting"
  /\ gauge' = (gauge + 1) % GaugeModulus
  /\ writer' = [writer EXCEPT ![c] = "running"]
  /\ Go(c, "serving")
  /\ UNCHANGED <<handshakeVars, registry, client, row, totals, slow, cause, lineVars,
                 runVars>>

-----------------------------------------------------------------------------
(* serve, service: read_submissions and the writer's side.                 *)

Bump(c) == traffic' = [traffic EXCEPT ![c] = @ + 1]

(* A packet line is counted and submitted; a full queue drops it.          *)
Receive(c) ==
  /\ pc[c] = "serving"
  /\ lines < MaxLines
  /\ lines' = lines + 1
  /\ Bump(c)
  /\ submitted' = submitted + (IF submitted - processed < Depth THEN 1 ELSE 0)
  /\ UNCHANGED <<pc, processed, handshakeVars, clientVars, writerVars, runVars>>

StopReading(c, why) ==
  /\ pc[c] = "serving"
  /\ cause' = [cause EXCEPT ![c] = why]
  /\ Go(c, "ending")
  /\ UNCHANGED <<writer, slow, handshakeVars, clientVars, lineVars, runVars>>

(* The stream ends, fails or is idle for client_timeout.                   *)
ClientGoes(c) == StopReading(c, "client")

(* The reader's select! takes the shutdown.                                *)
SeeShutdown(c) == triggered /\ StopReading(c, "shutdown")

(* The socket stops taking data: from here on the writer may block.        *)
StopsReading(c) ==
  /\ writer[c] = "running"
  /\ slow' = slow \cup {c}
  /\ UNCHANGED <<pc, writer, cause, handshakeVars, clientVars, lineVars, runVars>>

WriterFails(c) ==
  /\ writer[c] = "running"
  /\ writer' = [writer EXCEPT ![c] = "failed"]
  /\ UNCHANGED <<pc, slow, cause, handshakeVars, clientVars, lineVars, runVars>>

(* The writer's select! takes the shutdown and it says goodbye.            *)
SayFarewell(c) ==
  /\ writer[c] = "running"
  /\ triggered
  /\ writer' = [writer EXCEPT ![c] = "farewell"]
  /\ UNCHANGED <<pc, slow, cause, handshakeVars, clientVars, lineVars, runVars>>

-----------------------------------------------------------------------------
(* serve, teardown.                                                        *)

(* Only when the server is shutting down does serve wait for the writer.   *)
EndServiceAtOnce(c) ==    \* mutant
  /\ pc[c] = "ending"
  /\ Go(c, "aborting")
  /\ UNCHANGED <<handshakeVars, clientVars, writerVars, lineVars, runVars>>

EndService(c) ==
  /\ pc[c] = "ending"
  /\ Go(c, IF triggered THEN "parting" ELSE "aborting")
  /\ UNCHANGED <<handshakeVars, clientVars, writerVars, lineVars, runVars>>

(* The writer has ended, or has been blocked for FAREWELL_GRACE.           *)
PartPatiently(c) ==    \* mutant: no grace to run out
  /\ pc[c] = "parting"
  /\ writer[c] # "running"
  /\ Go(c, "aborting")
  /\ UNCHANGED <<handshakeVars, clientVars, writerVars, lineVars, runVars>>

Part(c) ==
  /\ pc[c] = "parting"
  /\ writer[c] # "running" \/ c \in slow
  /\ Go(c, "aborting")
  /\ UNCHANGED <<handshakeVars, clientVars, writerVars, lineVars, runVars>>

Abort(c) ==
  /\ pc[c] = "aborting"
  /\ writer' = [writer EXCEPT ![c] = IF @ = "running" THEN "aborted" ELSE @]
  /\ Go(c, "removing")
  /\ UNCHANGED <<slow, cause, handshakeVars, clientVars, lineVars, runVars>>

UnregisterForgotten(c) ==    \* mutant: broadcasts still reach the client
  /\ pc[c] = "removing"
  /\ Go(c, "uncounting")
  /\ UNCHANGED <<handshakeVars, clientVars, writerVars, lineVars, runVars>>

Unregister(c) ==
  /\ pc[c] = "removing"
  /\ registry' = registry \ {c}
  /\ Go(c, "uncounting")
  /\ UNCHANGED <<handshakeVars, client, gauge, row, totals, writerVars, lineVars, runVars>>

Uncount(c) ==
  /\ pc[c] = "uncounting"
  /\ gauge' = (gauge + GaugeModulus - 1) % GaugeModulus
  /\ Go(c, "closing")
  /\ UNCHANGED <<handshakeVars, registry, client, row, totals, writerVars, lineVars, runVars>>

(* close_session with the counters as they are, which may fail; then serve *)
(* returns and drops its Dispatcher.                                       *)
CloseRow(c) ==
  /\ pc[c] = "closing"
  /\ \/ /\ row[c] = "open"
        /\ row' = [row EXCEPT ![c] = "closed"]
        /\ totals' = [totals EXCEPT ![c] = traffic[c]]
     \/ UNCHANGED <<row, totals>>
  /\ Go(c, "closed")
  /\ UNCHANGED <<handshakeVars, registry, client, gauge, writerVars, lineVars, runVars>>

-----------------------------------------------------------------------------
(* The dispatch task: process offers a line to some registered clients,    *)
(* whose counters record the delivery or the drop.                         *)

Process ==
  /\ dispatch = "running"
  /\ processed < submitted
  /\ processed' = processed + 1
  /\ \E S \in SUBSET registry :
       traffic' = [c \in Conn |-> traffic[c] + (IF c \in S THEN 1 ELSE 0)]
  /\ UNCHANGED <<pc, handshakeVars, clientVars, writerVars, lines, submitted,
                 runVars>>

(* Every clone of the Dispatcher is gone: run's, the accept loops', and    *)
(* those of the connections being served.                                  *)
NoSendersOfRun == main \in {"draining", "done"} /\ accepting = {}    \* mutant

NoSendersButRun ==    \* mutant: run keeps its Dispatcher while it waits
  /\ main = "done"
  /\ accepting = {}
  /\ \A c \in Conn : pc[c] \in {"absent", "closed"}

NoSenders ==
  /\ main \in {"draining", "done"}
  /\ accepting = {}
  /\ \A c \in Conn : pc[c] \in {"absent", "closed"}

(* recv returns None when the queue is empty and no sender is left.        *)
DispatchAborted ==    \* mutant: the queue is not drained
  /\ dispatch = "running"
  /\ NoSenders
  /\ dispatch' = "ended"
  /\ UNCHANGED <<pc, handshakeVars, clientVars, writerVars, lineVars,
                 triggered, accepting, main, saved>>

DispatchEnds ==
  /\ dispatch = "running"
  /\ processed = submitted
  /\ NoSenders
  /\ dispatch' = "ended"
  /\ UNCHANGED <<pc, handshakeVars, clientVars, writerVars, lineVars,
                 triggered, accepting, main, saved>>

-----------------------------------------------------------------------------
(* Server::run.                                                            *)

(* The shutdown future resolves.                                           *)
Trigger ==
  /\ main = "running"
  /\ triggered' = TRUE
  /\ main' = "joining"
  /\ UNCHANGED <<pc, handshakeVars, clientVars, writerVars, lineVars,
                 accepting, dispatch, saved>>

(* The accept tasks are joined and run drops its own Dispatcher.           *)
JoinAccepts ==
  /\ main = "joining"
  /\ accepting = {}
  /\ main' = "draining"
  /\ UNCHANGED <<pc, handshakeVars, clientVars, writerVars, lineVars,
                 triggered, accepting, dispatch, saved>>

(* The dispatch task is joined, the positions are saved, or that fails.    *)
SaveAndReturn ==
  /\ main = "draining"
  /\ dispatch = "ended"
  /\ saved' \in {saved, processed}
  /\ main' = "done"
  /\ UNCHANGED <<pc, handshakeVars, clientVars, writerVars, lineVars,
                 triggered, accepting, dispatch>>

-----------------------------------------------------------------------------

(* What peers and sockets do.                                              *)
Peer(c) ==
  \/ Accept(c)
  \/ Noise(c)
  \/ \E line \in FirstLine : LogIn(c, line) \/ Malformed(c, line)
  \/ LeavesEarly(c)
  \/ HandshakeFails(c)
  \/ Receive(c)
  \/ ClientGoes(c)
  \/ StopsReading(c)
  \/ WriterFails(c)

(* What the serve task of c does by itself, the passing of time included.  *)
Serve(c) ==
  \/ CheckCap(c) \/ WriteBanner(c)
  \/ Wait(c) \/ LoginTimesOut(c)
  \/ Acknowledge(c) \/ OpenRow(c) \/ Insert(c) \/ Count(c)
  \/ SeeShutdown(c) \/ EndService(c) \/ Part(c) \/ Abort(c)
  \/ Unregister(c) \/ Uncount(c) \/ CloseRow(c)

DispatchTask == Process \/ DispatchEnds

Run == JoinAccepts \/ SaveAndReturn

Next ==
  \/ \E c \in Conn : Peer(c) \/ Serve(c) \/ SayFarewell(c)
  \/ \E l \in Listener : StopAccepting(l)
  \/ DispatchTask
  \/ Trigger
  \/ Run

Spec == Init /\ [][Next]_vars

(* Every task that can move is scheduled, and timers fire.  Nothing is     *)
(* assumed of peers, of the operator, or of a writer whose socket blocks.  *)
FairSpec ==
  /\ Spec
  /\ \A c \in Conn : WF_vars(Serve(c)) /\ WF_vars(c \notin slow /\ SayFarewell(c))
  /\ \A l \in Listener : WF_vars(StopAccepting(l))
  /\ WF_vars(DispatchTask)
  /\ WF_vars(Run)

-----------------------------------------------------------------------------

Position ==
  {"absent", "accepted", "banner", "login", "ack", "opening", "inserting",
   "counting", "serving", "ending", "parting", "aborting", "removing",
   "uncounting", "closing", "closed"}

ClientsAsRequested ==
  /\ DOMAIN request = Conn /\ DOMAIN client = Conn
  /\ \A c \in Conn : /\ request[c] \in {NoRequest} \cup ParseLogin(said[c].words)
                     /\ client[c] # NoClient => client[c] = Registration(c)

TypeOK ==
  /\ triggered \in BOOLEAN
  /\ accepting \in SUBSET Listener
  /\ main \in {"running", "joining", "draining", "done"}
  /\ dispatch \in {"running", "ended"}
  /\ pc \in [Conn -> Position]
  /\ age \in [Conn -> 0 .. LoginTimeout]
  /\ noise \in [Conn -> 0 .. MaxNoise]
  /\ login \in [Conn -> {"none"} \cup Accepted \cup Refused]
  /\ said \in [Conn -> FirstLine \cup {NoLine}]
  /\ ClientsAsRequested
  /\ registry \in SUBSET Conn
  /\ cause \in [Conn -> {"none", "client", "shutdown"}]
  /\ writer \in [Conn -> {"none", "running", "failed", "farewell", "aborted"}]
  /\ slow \in SUBSET Conn
  /\ gauge \in 0 .. GaugeModulus - 1
  /\ rejected \in Nat
  /\ row \in [Conn -> {"none", "open", "closed"}]
  /\ totals \in [Conn -> Nat]
  /\ traffic \in [Conn -> Nat]
  /\ lines \in 0 .. MaxLines
  /\ submitted \in Nat
  /\ processed \in 0 .. submitted
  /\ saved \in Nat \cup {NotSaved}

(* clients_connected never wraps, and outside the two steps between which  *)
(* a connection is registered but not counted, or counted but no longer    *)
(* registered, it is the size of the registry.                             *)
GaugeTracksRegistry ==
  /\ gauge <= Cardinality(Conn)
  /\ (\A c \in Conn : pc[c] \notin {"counting", "uncounting"})
       => gauge = Cardinality(registry)

(* A log row is closed with the final counters: neither the reader nor a   *)
(* broadcast that still holds the client adds to them afterwards.          *)
RowIsFinal == \A c \in Conn : row[c] = "closed" => totals[c] = traffic[c]

(* When run returns every connection is off the registry and off the gauge *)
(* and no writer is left, though run joins neither readers nor writers.    *)
ExitIsClean ==
  main = "done" =>
    /\ registry = {} /\ gauge = 0
    /\ \A c \in Conn : pc[c] \in {"absent", "closed"} /\ writer[c] # "running"

(* What run saves are the positions of every line a connection was able to *)
(* submit: none is queued when it saves, and none comes after.             *)
SavedIsComplete ==
  /\ main = "done" => processed = submitted
  /\ saved # NotSaved => saved = submitted

(* A client whose connection the shutdown ended has been told so when its  *)
(* writer is gone, unless its socket failed or would not take the line.    *)
FarewellSaid ==
  \A c \in Conn :
    cause[c] = "shutdown" /\ writer[c] = "aborted" => c \in slow

(* What the six properties above rest on: where a connection is in serve   *)
(* tells whether it is in the registry, on the gauge, has a writer, and    *)
(* may have a request, a registration or a closed row; and a dispatch task *)
(* that has ended leaves nobody behind who could submit.                   *)
Registered == {"counting", "serving", "ending", "parting", "aborting", "removing"}
Counted == {"serving", "ending", "parting", "aborting", "removing", "uncounting"}

At(places) == {c \in Conn : pc[c] \in places}

RegistryFollows == registry = At(Registered)

GaugeFollows == gauge = Cardinality(At(Counted))

LoginFirst ==
  \A c \in Conn :
    /\ pc[c] \in {"absent", "accepted", "banner", "login"} => request[c] = NoRequest
    /\ client[c] # NoClient =>
         pc[c] \notin {"absent", "accepted", "banner", "login", "ack", "opening", "inserting"}

WriterFollows ==
  \A c \in Conn :
    /\ writer[c] = "running" => pc[c] \in {"serving", "ending", "parting", "aborting"}
    /\ writer[c] = "aborted" => pc[c] \in {"removing", "uncounting", "closing", "closed"}
    /\ cause[c] = "shutdown" => triggered
    /\ cause[c] = "shutdown" /\ writer[c] = "running" /\ pc[c] = "aborting" => c \in slow

RowFollows ==
  \A c \in Conn : row[c] = "closed" => pc[c] = "closed" /\ totals[c] = traffic[c]

ShutdownFollows ==
  /\ dispatch = "ended" => NoSenders /\ processed = submitted
  /\ main = "done" => dispatch = "ended"
  /\ saved # NotSaved => main = "done" /\ saved = submitted

SessionsInv ==
  /\ TypeOK /\ LoginFirst
  /\ RegistryFollows /\ GaugeFollows
  /\ WriterFollows /\ FarewellSaid
  /\ RowFollows /\ ShutdownFollows

(* A client is registered as its login line means: under its callsign,     *)
(* allowed to transmit exactly if the passcode is that of the callsign,    *)
(* whatever its SSID and spelling, with its software whichever keywords    *)
(* came with it, and with its filter, unless the port, of whichever kind   *)
(* it is, forces one or takes none.  A line the protocol does not have     *)
(* gets no client.                                                         *)
FilterMeant(l, means) ==
  IF Forced[l] # {} THEN Forced[l] ELSE IF l \in Igate THEN means.filter ELSE {}

LoginAsWritten ==
  \A c \in Conn :
    /\ login[c] = "malformed" => said[c].means = {}
    /\ client[c] # NoClient =>
         \E means \in said[c].means :
           /\ client[c].callsign = means.callsign
           /\ client[c].verified = means.verified
           /\ client[c].software = means.software
           /\ client[c].filter = FilterMeant(On[c], means)
           /\ \A l \in Listener :
                InitialFilter(l, request[c].filter) = FilterMeant(l, means)

(* Once the shutdown is requested run returns, whatever the peers do, if   *)
(* they do not keep a login waiting with other lines for ever (MaxNoise).  *)
ShutdownCompletes == triggered ~> main = "done"

(* A connection that ends is torn down to the last step, in or out of a    *)
(* shutdown and even when its writer is blocked in a write.                *)
TeardownCompletes == \A c \in Conn : pc[c] = "ending" ~> pc[c] = "closed"

-----------------------------------------------------------------------------
(* What the repository says of itself and the code does not do.            *)

(* "Cap on simultaneous clients." (aprsr-config/src/lib.rs, max_clients)   *)
CapRespected == \A l \in Capped : CountOn(l) <= Limit[l]
=============================================================================
