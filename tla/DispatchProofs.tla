--------------------------- MODULE DispatchProofs ---------------------------
(***************************************************************************)
(* The packet path is safe for every number of clients, every set of       *)
(* lines, every depth of the queues and every clock, the counters agree    *)
(* with what happened, and each client is served as Feed promises.         *)
(***************************************************************************)
EXTENDS Dispatch, SequenceTheorems, FiniteSetTheorems, TLAPS

-----------------------------------------------------------------------------
(* Sequences: what the steps of a writer and of the walk do to the stream  *)
(* wire \o buffer \o outbox.                                               *)

(* Three sequences in a row, index by index.                               *)
LEMMA ConcatThree ==
  ASSUME NEW S, NEW w \in Seq(S), NEW b \in Seq(S), NEW o \in Seq(S)
  PROVE  /\ (w \o b) \o o \in Seq(S)
         /\ Len((w \o b) \o o) = Len(w) + Len(b) + Len(o)
         /\ \A i \in 1 .. Len(w) + Len(b) + Len(o) :
              ((w \o b) \o o)[i] =
                 IF i <= Len(w) THEN w[i]
                 ELSE IF i <= Len(w) + Len(b) THEN b[i - Len(w)]
                 ELSE o[i - Len(w) - Len(b)]
OBVIOUS

(* Four pieces may be grouped in either way.                               *)
LEMMA Regroup ==
  ASSUME NEW S, NEW w \in Seq(S), NEW b \in Seq(S), NEW h \in Seq(S), NEW t \in Seq(S),
         NEW p \in Seq(S), p = w \o b
  PROVE  (w \o (b \o h)) \o t = p \o (h \o t)
<1>1. (w \o b) \o h = w \o (b \o h)
  BY SMTT(30)
<1>2. (p \o h) \o t = p \o (h \o t)
  BY SMTT(30)
<1> QED BY <1>1, <1>2, Zenon

(* Moving the head of the outbox to the end of the buffer.                 *)
LEMMA MoveToBuffer ==
  ASSUME NEW S, NEW w \in Seq(S), NEW b \in Seq(S), NEW o \in Seq(S), o # <<>>
  PROVE  (w \o Append(b, Head(o))) \o Tail(o) = (w \o b) \o o
<1>1. <<Head(o)>> \in Seq(S) /\ Tail(o) \in Seq(S) /\ w \o b \in Seq(S)
  OBVIOUS
<1>2. o = <<Head(o)>> \o Tail(o) /\ Append(b, Head(o)) = b \o <<Head(o)>>
  BY SMTT(30)
<1>3. PICK h \in Seq(S), t \in Seq(S), p \in Seq(S) :
        h = <<Head(o)>> /\ t = Tail(o) /\ p = w \o b
  BY <1>1, Zenon
<1>4. (w \o (b \o h)) \o t = p \o (h \o t)
  BY <1>3, Regroup, SMTT(30)
<1> QED BY <1>2, <1>3, <1>4, Zenon

(* Moving the head of the outbox to the end of the wire, with no buffer.   *)
LEMMA MoveToWire ==
  ASSUME NEW S, NEW w \in Seq(S), NEW o \in Seq(S), o # <<>>
  PROVE  (Append(w, Head(o)) \o <<>>) \o Tail(o) = (w \o <<>>) \o o
OBVIOUS

(* Queueing one more.                                                      *)
LEMMA AppendOne ==
  ASSUME NEW S, NEW w \in Seq(S), NEW b \in Seq(S), NEW o \in Seq(S), NEW x \in S
  PROVE  (w \o b) \o Append(o, x) = Append((w \o b) \o o, x)
OBVIOUS

-----------------------------------------------------------------------------
(* Types of what the steps are made of.                                    *)

(* The depth of a channel is a positive number.                            *)
LEMMA DepthType == Depth \in Nat /\ Depth >= 1
BY DispatchConstants DEF Depth

(* The window is a number of seconds.                                      *)
LEMMA SpanInNat == Span \in Nat
BY DupeConstants DEF Span

(* A stream is made of serials and begins with what the socket took.       *)
LEMMA StreamType ==
  ASSUME TypeOK, NEW c \in Client
  PROVE  /\ Stream(c) \in Seq(Serial)
         /\ wire[c] \in Seq(Serial)
         /\ Len(wire[c]) <= Len(Stream(c))
         /\ \A i \in 1 .. Len(wire[c]) : Stream(c)[i] = wire[c][i]
<1> DEFINE w == wire[c]
           b == buffer[c]
           o == outbox[c]
           S == Serial
<1>1. w \in Seq(S) /\ b \in Seq(S) /\ o \in Seq(S)
  BY DEF TypeOK
<1>2. Stream(c) = (w \o b) \o o
  BY DEF Stream
<1> HIDE DEF w, b, o, S
<1>3. /\ Stream(c) \in Seq(S)
      /\ Len(Stream(c)) = Len(w) + Len(b) + Len(o)
      /\ \A i \in 1 .. Len(w) + Len(b) + Len(o) :
           Stream(c)[i] = IF i <= Len(w) THEN w[i]
                          ELSE IF i <= Len(w) + Len(b) THEN b[i - Len(w)]
                          ELSE o[i - Len(w) - Len(b)]
  BY <1>1, <1>2, ConcatThree
<1>4. Len(w) \in Nat /\ Len(b) \in Nat /\ Len(o) \in Nat
  BY <1>1
<1>5. Len(w) <= Len(Stream(c)) /\ \A i \in 1 .. Len(w) : Stream(c)[i] = w[i]
  BY <1>3, <1>4
<1> QED BY <1>1, <1>3, <1>5 DEF w, S

(* Every entry of the log has a line, an origin and a second.              *)
LEMMA LogType ==
  ASSUME TypeOK, NEW i \in 1 .. Len(log)
  PROVE  /\ log[i].second \in Nat /\ log[i].line \in Line /\ log[i].origin \in Client
         /\ DigestOf[log[i].line] \in Digest
<1>1. log \in Seq([line : Line, origin : Client, second : Nat])
  BY DEF TypeOK
<1>2. log[i] \in [line : Line, origin : Client, second : Nat]
  BY <1>1, ElementOfSeq
<1>3. log[i].second \in Nat /\ log[i].line \in Line /\ log[i].origin \in Client
  BY <1>2
<1> QED BY <1>3, DispatchConstants

(* Counting one more keeps the types of the counters.                      *)
LEMMA IncrMetrics ==
  ASSUME NEW m \in [DOMAIN NoMetrics -> Nat], NEW f \in DOMAIN NoMetrics
  PROVE  Incr(m, f) \in [DOMAIN NoMetrics -> Nat]
BY DEF Incr

(* So does counting one more for one client.                               *)
LEMMA IncrCounters ==
  ASSUME NEW k \in [Client -> [DOMAIN NoCounters -> Nat]], NEW c \in Client,
         NEW f \in DOMAIN NoCounters
  PROVE  [k EXCEPT ![c] = Incr(@, f)] \in [Client -> [DOMAIN NoCounters -> Nat]]
BY DEF Incr

(* A check of the detector is typed, does not run back, and passes only    *)
(* what is older than the window.                                          *)
LEMMA CheckStep ==
  ASSUME TypeOK, LogIsRemembered, NEW d \in Digest, NEW t \in Clock, Check(d, t)
  PROVE  /\ now' \in Nat /\ now' >= now
         /\ lastPass' \in [Digest -> Nat \cup {Never}]
         /\ \A e \in Digest : lastPass'[e] >= lastPass[e] /\ lastPass'[e] <= now'
         /\ ~ duplicate' =>
              /\ lastPass'[d] = now'
              /\ lastPass[d] # Never => now' - lastPass[d] > Span
<1>1. now' \in Nat /\ now' >= now
  BY DupeConstants DEF Check, Later, TypeOK
<1>2. \A e \in Digest : lastPass[e] \in Nat \cup {Never} /\ lastPass[e] <= now
  BY DEF TypeOK, LogIsRemembered
<1>3. lastPass' = lastPass \/ lastPass' = [lastPass EXCEPT ![d] = now']
  BY DEF Check
<1>4. lastPass' \in [Digest -> Nat \cup {Never}]
  BY <1>1, <1>3 DEF TypeOK
<1>5. \A e \in Digest : lastPass'[e] >= lastPass[e] /\ lastPass'[e] <= now'
  <2>1. ASSUME NEW e \in Digest
        PROVE  /\ lastPass[e] \in Int /\ now \in Int /\ lastPass[e] <= now
               /\ lastPass'[e] = lastPass[e] \/ lastPass'[e] = now'
    BY <1>2, <1>3 DEF TypeOK, Never
  <2> QED BY <1>1, <2>1
<1>6. ASSUME ~ duplicate'
      PROVE  /\ lastPass'[d] = now'
             /\ lastPass[d] # Never => now' - lastPass[d] > Span
  <2>1. lastPass' = [lastPass EXCEPT ![d] = now']
    BY <1>6 DEF Check
  <2>2. ~ Remembered(d, now')
    BY <1>6 DEF Check
  <2>3. lastPass[d] # Never => now' - lastPass[d] > Span
    BY <1>1, <1>2, <2>2, SpanInNat DEF Remembered, Never
  <2> QED BY <2>1, <2>3 DEF TypeOK
<1> QED BY <1>1, <1>4, <1>5, <1>6

(* A check of the detector has an answer.                                  *)
LEMMA CheckAnswers ==
  ASSUME NEW d, NEW t, Check(d, t)
  PROVE  duplicate' \in BOOLEAN
BY DEF Check, Remembered

-----------------------------------------------------------------------------
(* A step that delivers nothing: the log is as it was and every stream is  *)
(* as it was or cut back to what the socket took.                          *)
LEMMA QuietStep ==
  ASSUME DispatchInv, TypeOK', QueuesBounded', WalkIsNewest', LogIsRemembered',
         HeldFilter', log' = log,
         \A c \in Client : Stream(c)' = Stream(c) \/ Stream(c)' = wire[c]
  PROVE  DispatchInv'
<1> USE DEF DispatchInv
<1>1. ASSUME NEW c \in Client
      PROVE  /\ Len(Stream(c)') \in Nat
             /\ Len(Stream(c)') <= Len(Stream(c))
             /\ \A i \in 1 .. Len(Stream(c)') :
                  Stream(c)'[i] = Stream(c)[i] /\ i \in 1 .. Len(Stream(c))
             /\ Len(Stream(c)) \in Nat
  <2>1. Len(wire[c]) \in Nat /\ Len(Stream(c)) \in Nat
    BY StreamType
  <2> QED BY <2>1, StreamType
<1>2. \A c \in Client, i, j \in Nat :
        i \in 1 .. Len(Stream(c)) /\ j \in 1 .. Len(Stream(c)) /\ i < j
          => Stream(c)[i] < Stream(c)[j]
  BY DEF FeedInOrder
<1>3. FeedInOrder'
  <2> SUFFICES ASSUME NEW c \in Client,
                      NEW i \in 1 .. Len(Stream(c)'), NEW j \in 1 .. Len(Stream(c)'),
                      i < j
               PROVE  Stream(c)'[i] < Stream(c)'[j]
    BY DEF FeedInOrder
  <2> QED BY <1>1, <1>2
<1>4. NoEcho'
  <2> SUFFICES ASSUME NEW c \in Client, NEW i \in 1 .. Len(Stream(c)')
               PROVE  log[Stream(c)'[i]].origin # c
    BY DEF NoEcho
  <2> QED BY <1>1 DEF NoEcho
<1>5. OnlyEntitled'
  <2>1. \A i \in Serial' : Verified[log'[i].origin]
    BY DEF OnlyEntitled, Serial
  <2>2. ASSUME NEW c \in Client, Stream(c)' # <<>>
        PROVE  Kind[c] \in {"FullFeed", "Igate"}
    <3>1. Stream(c) # <<>>
      <4>1. CASE Stream(c)' = wire[c]
        BY <2>2, <4>1, StreamType, EmptySeq
      <4> QED BY <2>2, <4>1
    <3> QED BY <3>1 DEF OnlyEntitled
  <2>3. ASSUME NEW c \in Client, NEW i \in 1 .. Len(Stream(c)'),
               Kind[c] = "Igate", c \in Held
        PROVE  log[Stream(c)'[i]].line \in Forced[c]
    BY <1>1, <2>3 DEF OnlyEntitled
  <2> QED BY <2>1, <2>2, <2>3 DEF OnlyEntitled
<1>6. NoDuplicateBroadcast'
  BY DEF NoDuplicateBroadcast, Serial
<1> QED BY <1>3, <1>4, <1>5, <1>6

-----------------------------------------------------------------------------
(* The actions of the connection tasks.                                    *)

(* It holds when the server starts.                                        *)
LEMMA InitStep == Init => DispatchInv
<1> SUFFICES ASSUME Init PROVE DispatchInv
  OBVIOUS
<1> USE DEF Init, DupeInit
<1>1. Len(log) = 0 /\ Serial = {}
  BY DEF Serial
<1>2. \A c \in Client : Stream(c) = <<>>
  BY DEF Stream
<1>3. TypeOK
  <2>1. metrics \in [DOMAIN NoMetrics -> Nat]
    BY DEF NoMetrics
  <2>2. counters \in [Client -> [DOMAIN NoCounters -> Nat]]
    BY DEF NoCounters
  <2>3. now \in Nat /\ lastPass \in [Digest -> Nat \cup {Never}] /\ duplicate \in BOOLEAN
    BY DEF Never
  <2> QED BY <1>1, <2>1, <2>2, <2>3, DispatchConstants DEF TypeOK
<1>4. QueuesBounded
  BY DepthType DEF QueuesBounded
<1>5. FeedInOrder /\ NoEcho /\ OnlyEntitled /\ NoDuplicateBroadcast
  BY <1>1, <1>2 DEF FeedInOrder, NoEcho, OnlyEntitled, NoDuplicateBroadcast
<1>6. WalkIsNewest
  BY <1>1, <1>2 DEF WalkIsNewest
<1>7. LogIsRemembered /\ HeldFilter
  BY <1>1 DEF LogIsRemembered, HeldFilter, Never
<1> QED BY <1>3, <1>4, <1>5, <1>6, <1>7 DEF DispatchInv

(* Steps that leave the dispatch task, the detector and the channels to    *)
(* the writers alone.                                                      *)
LEMMA IdleStep ==
  ASSUME DispatchInv, TypeOK', QueuesBounded', HeldFilter',
         UNCHANGED <<current, visited, log, dupeVars, writerVars>>,
         \A c \in Client : status'[c] = "new" => status[c] = "new"
  PROVE  DispatchInv'
<1> USE DEF DispatchInv
<1>1. \A c \in Client : Stream(c)' = Stream(c)
  BY DEF Stream, writerVars
<1>2. WalkIsNewest'
  BY <1>1 DEF WalkIsNewest, writerVars
<1>3. LogIsRemembered'
  BY DEF LogIsRemembered, Serial, dupeVars
<1> QED BY <1>1, <1>2, <1>3, QuietStep

(* A client joins with an empty stream and the filter its port gives it.   *)
LEMMA RegisterStep ==
  ASSUME DispatchInv, NEW c \in Client, Register(c)
  PROVE  DispatchInv'
<1> USE DEF DispatchInv
<1>1. PICK f \in InitialFilters(c) : filter' = [filter EXCEPT ![c] = f]
  BY DEF Register
<1>2. f \in SUBSET Line /\ (c \in Held => f = Forced[c])
  BY <1>1, DispatchConstants DEF InitialFilters
<1>3. /\ status' = [status EXCEPT ![c] = "registered"]
      /\ joined' = [joined EXCEPT ![c] = Len(log)]
      /\ UNCHANGED <<taskVars, writerVars, countVars>>
  BY DEF Register
<1>4. TypeOK'
  <2>1. Len(log) \in Nat
    BY DEF TypeOK
  <2> QED BY <1>1, <1>2, <1>3, <2>1
          DEF TypeOK, Serial, taskVars, writerVars, countVars
<1>5. QueuesBounded'
  BY <1>3 DEF QueuesBounded, taskVars, writerVars
<1>6. HeldFilter'
  BY <1>1, <1>2, <1>3 DEF HeldFilter, TypeOK
<1>7. \A e \in Client : status'[e] = "new" => status[e] = "new"
  BY <1>3 DEF TypeOK
<1> QED BY <1>3, <1>4, <1>5, <1>6, <1>7, IdleStep DEF taskVars, dupeVars

(* A line is appended only while the queue has room.                       *)
LEMMA SubmitStep ==
  ASSUME DispatchInv, NEW c \in Client, NEW l \in Line, Submit(c, l)
  PROVE  DispatchInv'
<1> USE DEF DispatchInv
<1>1. /\ reads < MaxReads /\ reads' = reads + 1
      /\ counters' = [counters EXCEPT ![c] = Incr(@, "received")]
      /\ UNCHANGED <<current, visited, log, dupeVars, clientVars, writerVars>>
      /\ \/ /\ Len(queue) < Depth
            /\ queue' = Append(queue, [line |-> l, origin |-> c])
            /\ metrics' = metrics
         \/ metrics' = Incr(metrics, "slow") /\ queue' = queue
  BY DEF Submit
<1>2. metrics' \in [DOMAIN NoMetrics -> Nat]
  BY <1>1, IncrMetrics DEF TypeOK, NoMetrics
<1>3. counters' \in [Client -> [DOMAIN NoCounters -> Nat]]
  BY <1>1, IncrCounters DEF TypeOK, NoCounters
<1>4. queue' \in Seq([line : Line, origin : Client]) /\ Len(queue') <= Depth
  <2>1. queue \in Seq([line : Line, origin : Client]) /\ Len(queue) <= Depth
    BY DEF TypeOK, QueuesBounded
  <2>2. [line |-> l, origin |-> c] \in [line : Line, origin : Client]
    OBVIOUS
  <2>3. CASE queue' = queue
    BY <2>1, <2>3
  <2>4. CASE queue' = Append(queue, [line |-> l, origin |-> c]) /\ Len(queue) < Depth
    <3>1. Len(queue') = Len(queue) + 1 /\ Len(queue) \in Nat
      BY <2>1, <2>2, <2>4, AppendProperties
    <3>2. queue' \in Seq([line : Line, origin : Client])
      BY <2>1, <2>2, <2>4, AppendProperties
    <3> QED BY <2>4, <3>1, <3>2, DepthType
  <2> QED BY <1>1, <2>3, <2>4
<1>5. reads' \in 0 .. MaxReads
  BY <1>1, DispatchConstants DEF TypeOK
<1>6. TypeOK'
  BY <1>1, <1>2, <1>3, <1>4, <1>5
     DEF TypeOK, Serial, dupeVars, clientVars, writerVars
<1>7. QueuesBounded'
  BY <1>1, <1>4 DEF QueuesBounded, writerVars
<1>8. HeldFilter' /\ \A e \in Client : status'[e] = "new" => status[e] = "new"
  BY <1>1 DEF HeldFilter, clientVars
<1> QED BY <1>1, <1>6, <1>7, <1>8, IdleStep

(* A line the codec refused moves two counters and nothing else.           *)
LEMMA ReadUnusableStep ==
  ASSUME DispatchInv, NEW c \in Client, ReadUnusable(c)
  PROVE  DispatchInv'
<1> USE DEF DispatchInv
<1>1. /\ reads < MaxReads /\ reads' = reads + 1
      /\ metrics' = Incr(metrics, "invalid")
      /\ counters' = [counters EXCEPT ![c] = Incr(@, "dropped")]
      /\ UNCHANGED <<taskVars, clientVars, writerVars>>
  BY DEF ReadUnusable
<1>2. metrics' \in [DOMAIN NoMetrics -> Nat]
  BY <1>1, IncrMetrics DEF TypeOK, NoMetrics
<1>3. counters' \in [Client -> [DOMAIN NoCounters -> Nat]]
  BY <1>1, IncrCounters DEF TypeOK, NoCounters
<1>4. reads' \in 0 .. MaxReads
  BY <1>1, DispatchConstants DEF TypeOK
<1>5. TypeOK'
  BY <1>1, <1>2, <1>3, <1>4 DEF TypeOK, Serial, taskVars, clientVars, writerVars
<1>6. QueuesBounded' /\ HeldFilter'
  BY <1>1 DEF QueuesBounded, HeldFilter, taskVars, clientVars, writerVars
<1>7. \A e \in Client : status'[e] = "new" => status[e] = "new"
  BY <1>1 DEF clientVars
<1> QED BY <1>1, <1>5, <1>6, <1>7, IdleStep DEF taskVars, dupeVars

(* Only a filter that does not lock is replaced.                           *)
LEMMA FilterCommandStep ==
  ASSUME DispatchInv, NEW c \in Client, NEW f \in Filters, FilterCommand(c, f)
  PROVE  DispatchInv'
<1> USE DEF DispatchInv
<1>1. /\ c \notin Held /\ filter' = [filter EXCEPT ![c] = f]
      /\ UNCHANGED <<status, joined, taskVars, writerVars, countVars>>
  BY DEF FilterCommand, Locked
<1>2. f \in SUBSET Line
  BY DispatchConstants
<1>3. TypeOK'
  BY <1>1, <1>2 DEF TypeOK, Serial, taskVars, writerVars, countVars
<1>4. QueuesBounded'
  BY <1>1 DEF QueuesBounded, taskVars, writerVars
<1>5. HeldFilter'
  BY <1>1 DEF HeldFilter, TypeOK
<1> QED BY <1>1, <1>3, <1>4, <1>5, IdleStep DEF taskVars, dupeVars

(* A client that leaves keeps its place in the history.                    *)
LEMMA UnregisterStep ==
  ASSUME DispatchInv, NEW c \in Client, Unregister(c)
  PROVE  DispatchInv'
<1> USE DEF DispatchInv
<1>1. /\ status[c] = "leaving" /\ status' = [status EXCEPT ![c] = "gone"]
      /\ UNCHANGED <<filter, joined, taskVars, writerVars, countVars>>
  BY DEF Unregister
<1>2. TypeOK'
  BY <1>1 DEF TypeOK, Serial, taskVars, writerVars, countVars
<1>3. QueuesBounded'
  BY <1>1 DEF QueuesBounded, taskVars, writerVars
<1>4. HeldFilter' /\ \A e \in Client : status'[e] = "new" => status[e] = "new"
  BY <1>1 DEF HeldFilter, TypeOK
<1> QED BY <1>1, <1>2, <1>3, <1>4, IdleStep DEF taskVars, dupeVars

(* The receiving end of an outbox goes: what was not on the wire is lost.  *)
LEMMA WriterGoesStep ==
  ASSUME DispatchInv, NEW c \in Client, Hangup(c) \/ WriteFails(c)
  PROVE  DispatchInv'
<1> USE DEF DispatchInv
<1>1. /\ status[c] = "registered"
      /\ status' = status \/ status' = [status EXCEPT ![c] = "leaving"]
      /\ writer' = [writer EXCEPT ![c] = "dead"]
      /\ outbox' = [outbox EXCEPT ![c] = <<>>]
      /\ buffer' = [buffer EXCEPT ![c] = <<>>]
      /\ UNCHANGED <<filter, joined, wire, taskVars, countVars>>
  BY DEF Hangup, WriteFails, clientVars
<1>2. TypeOK'
  BY <1>1 DEF TypeOK, Serial, taskVars, countVars
<1>3. QueuesBounded'
  BY <1>1, DepthType DEF QueuesBounded, taskVars, TypeOK
<1>4. /\ HeldFilter'
      /\ \A e \in Client : status'[e] = "new" <=> status[e] = "new"
  BY <1>1 DEF HeldFilter, TypeOK
<1>5. ASSUME NEW e \in Client
      PROVE  IF e = c THEN Stream(e)' = wire[e] ELSE Stream(e)' = Stream(e)
  <2>1. CASE e = c
    <3>1. Stream(e)' = (wire[e] \o <<>>) \o <<>>
      BY <1>1, <2>1 DEF Stream, TypeOK
    <3>2. wire[e] \in Seq(Serial)
      BY DEF TypeOK
    <3> QED BY <2>1, <3>1, <3>2, ConcatEmptySeq
  <2>2. CASE e # c
    BY <1>1, <2>2 DEF Stream, TypeOK
  <2> QED BY <2>1, <2>2
<1>6. WalkIsNewest'
  <2>1. current' = current /\ visited' = visited /\ log' = log
    BY <1>1 DEF taskVars
  <2>2. ASSUME NEW e \in Client, e # c
        PROVE  /\ writer'[e] = writer[e] /\ buffer'[e] = buffer[e]
               /\ outbox'[e] = outbox[e] /\ Stream(e)' = Stream(e)
    BY <1>1, <1>5, <2>2 DEF TypeOK
  <2>3. writer'[c] = "dead" /\ buffer'[c] = <<>> /\ outbox'[c] = <<>>
        /\ Stream(c)' = wire[c] /\ status'[c] # "new"
    BY <1>1, <1>4, <1>5 DEF TypeOK
  <2>4. ASSUME current # 0, c \notin visited
        PROVE  \A i \in 1 .. Len(wire[c]) : wire[c][i] < current
    <3>1. \A i \in 1 .. Len(Stream(c)) : Stream(c)[i] < current
      BY <2>4 DEF WalkIsNewest
    <3>2. /\ Len(wire[c]) \in Nat /\ Len(Stream(c)) \in Nat
          /\ Len(wire[c]) <= Len(Stream(c))
          /\ \A i \in 1 .. Len(wire[c]) : Stream(c)[i] = wire[c][i]
      BY StreamType
    <3> QED BY <3>1, <3>2
  <2> QED BY <1>4, <2>1, <2>2, <2>3, <2>4 DEF WalkIsNewest
<1>7. LogIsRemembered'
  BY <1>1 DEF LogIsRemembered, Serial, taskVars
<1>8. log' = log /\ \A e \in Client : Stream(e)' = Stream(e) \/ Stream(e)' = wire[e]
  BY <1>1, <1>5 DEF taskVars
<1> QED BY <1>2, <1>3, <1>4, <1>6, <1>7, <1>8, QuietStep

-----------------------------------------------------------------------------
(* The actions of the dispatch task.                                       *)

(* The packet at the head of the queue, and the queue behind it.           *)
LEMMA HeadType ==
  ASSUME TypeOK, queue # <<>>
  PROVE  /\ Head1 \in [line : Line, origin : Client]
         /\ Tail(queue) \in Seq([line : Line, origin : Client])
         /\ Len(Tail(queue)) = Len(queue) - 1 /\ Len(queue) \in Nat
<1>1. queue \in Seq([line : Line, origin : Client])
  BY DEF TypeOK
<1>2. Len(queue) \in Nat
  BY <1>1
<1>3. Tail(queue) \in Seq([line : Line, origin : Client])
      /\ Len(Tail(queue)) = Len(queue) - 1
  BY <1>1, HeadTailProperties
<1>4. Head(queue) \in [line : Line, origin : Client]
  BY <1>1, HeadTailProperties
<1> QED BY <1>2, <1>3, <1>4 DEF Head1

(* A line is refused: whether or not the detector was asked, the log, the  *)
(* registry and every stream stay.                                         *)
LEMMA RefuseStep ==
  ASSUME DispatchInv, Ready, NEW reason \in DOMAIN NoMetrics, Refuse(reason),
         UNCHANGED dupeVars
           \/ \E d \in Digest, t \in Clock : Check(d, t)
  PROVE  DispatchInv'
<1> USE DEF DispatchInv
<1>1. /\ queue' = Tail(queue)
      /\ metrics' = Incr(Incr(metrics, "received"), reason)
      /\ UNCHANGED <<current, visited, log, clientVars, writerVars, counters, reads>>
  BY DEF Refuse
<1>2. queue' \in Seq([line : Line, origin : Client]) /\ Len(queue') <= Depth
  BY <1>1, HeadType, DepthType DEF Ready, QueuesBounded
<1>3. metrics' \in [DOMAIN NoMetrics -> Nat]
  <2>1. Incr(metrics, "received") \in [DOMAIN NoMetrics -> Nat]
    BY IncrMetrics DEF TypeOK, NoMetrics
  <2> QED BY <1>1, <2>1, IncrMetrics
<1>4. /\ now' \in Nat /\ now' >= now
      /\ lastPass' \in [Digest -> Nat \cup {Never}]
      /\ \A e \in Digest : lastPass'[e] >= lastPass[e] /\ lastPass'[e] <= now'
  <2>1. CASE UNCHANGED dupeVars
    <3>1. \A e \in Digest : lastPass[e] \in Int /\ lastPass[e] <= now
      BY DEF TypeOK, LogIsRemembered, Never
    <3> QED BY <2>1, <3>1 DEF dupeVars, TypeOK
  <2>2. CASE \E d \in Digest, t \in Clock : Check(d, t)
    BY <2>2, CheckStep
  <2> QED BY <2>1, <2>2
<1>5. duplicate' \in BOOLEAN
  BY CheckAnswers DEF dupeVars, TypeOK
<1>6. TypeOK'
  BY <1>1, <1>2, <1>3, <1>4, <1>5 DEF TypeOK, Serial, clientVars, writerVars
<1>7. QueuesBounded' /\ HeldFilter'
  BY <1>1, <1>2 DEF QueuesBounded, HeldFilter, clientVars, writerVars
<1>8. \A c \in Client : Stream(c)' = Stream(c)
  BY <1>1 DEF Stream, writerVars
<1>9. WalkIsNewest'
  BY <1>1, <1>8 DEF WalkIsNewest, clientVars, writerVars
<1>10. LogIsRemembered'
  <2>1. ASSUME NEW i \in Serial
        PROVE  log[i].second \in Nat /\ DigestOf[log[i].line] \in Digest
    BY LogType DEF Serial
  <2>2. \A e \in Digest : lastPass[e] \in Int /\ lastPass'[e] \in Int
    BY <1>4 DEF TypeOK, Never
  <2>3. \A i \in Serial : log[i].second <= lastPass'[DigestOf[log[i].line]]
    BY <1>4, <2>1, <2>2 DEF LogIsRemembered
  <2> QED BY <1>1, <1>4, <2>3 DEF LogIsRemembered, Serial
<1> QED BY <1>1, <1>6, <1>7, <1>8, <1>9, <1>10, QuietStep

(* A line that passes the detector is logged, further than a window from   *)
(* every earlier broadcast of its transmission, and is now the newest.     *)
LEMMA DeliverStep ==
  ASSUME DispatchInv, Deliver
  PROVE  DispatchInv'
<1> USE DEF DispatchInv
<1> DEFINE h == Head1
           r == [line |-> h.line, origin |-> h.origin, second |-> now']
           n == Len(log) + 1
<1>1. PICK t \in Clock : Checked(t)
  BY DEF Deliver
<1>2. /\ current = 0 /\ queue # <<>> /\ Verified[h.origin]
      /\ Check(DigestOf[h.line], t)
  BY <1>1 DEF Checked, Ready
<1>3. /\ h \in [line : Line, origin : Client]
      /\ Tail(queue) \in Seq([line : Line, origin : Client])
      /\ Len(Tail(queue)) = Len(queue) - 1 /\ Len(queue) \in Nat
  BY <1>2, HeadType
<1>4. DigestOf[h.line] \in Digest
  BY <1>3, DispatchConstants
<1>5. /\ ~ duplicate' /\ queue' = Tail(queue)
      /\ metrics' = Incr(metrics, "received")
      /\ log' = Append(log, r) /\ current' = Len(log') /\ visited' = {}
      /\ UNCHANGED <<clientVars, writerVars, counters, reads>>
  BY DEF Deliver
<1>6. /\ now' \in Nat /\ now' >= now
      /\ lastPass' \in [Digest -> Nat \cup {Never}]
      /\ \A e \in Digest : lastPass'[e] >= lastPass[e] /\ lastPass'[e] <= now'
      /\ lastPass'[DigestOf[h.line]] = now'
      /\ lastPass[DigestOf[h.line]] # Never
           => now' - lastPass[DigestOf[h.line]] > Span
  BY <1>2, <1>4, <1>5, CheckStep
<1>7. duplicate' \in BOOLEAN
  BY <1>2, CheckAnswers
<1>8. r \in [line : Line, origin : Client, second : Nat]
  BY <1>3, <1>6
<1>9. log \in Seq([line : Line, origin : Client, second : Nat])
  BY DEF TypeOK
<1>10. /\ log' \in Seq([line : Line, origin : Client, second : Nat])
       /\ Len(log') = n /\ n \in Nat /\ Len(log) \in Nat
       /\ \A i \in 1 .. Len(log) : log'[i] = log[i]
       /\ log'[n] = r
  BY <1>5, <1>8, <1>9, AppendProperties
<1> HIDE DEF h, r
<1>11. Serial \subseteq Serial' /\ Serial' = 1 .. n /\ Serial = 1 .. Len(log)
  BY <1>10 DEF Serial
<1>12. Seq(Serial) \subseteq Seq(Serial')
  BY <1>11, SeqMonotonic
<1>13. \A c \in Client : /\ Stream(c)' = Stream(c)
                         /\ Stream(c) \in Seq(Serial)
  BY <1>5, StreamType DEF Stream, writerVars
<1>14. \A c \in Client : \A i \in 1 .. Len(Stream(c)) : Stream(c)[i] \in 1 .. Len(log)
  BY <1>11, <1>13, ElementOfSeq
<1>15. TypeOK'
  <2>1. metrics' \in [DOMAIN NoMetrics -> Nat]
    BY <1>5, IncrMetrics DEF TypeOK, NoMetrics
  <2>2. current' \in Serial' \cup {0} /\ visited' \in SUBSET Client
    BY <1>5, <1>10, <1>11
  <2>3. /\ outbox' \in [Client -> Seq(Serial')]
        /\ buffer' \in [Client -> Seq(Serial')]
        /\ wire' \in [Client -> Seq(Serial')]
        /\ writer' \in [Client -> {"idle", "drain", "dead"}]
    BY <1>5, <1>12 DEF TypeOK, writerVars
  <2>4. /\ status' \in [Client -> {"new", "registered", "leaving", "gone"}]
        /\ filter' \in [Client -> SUBSET Line]
        /\ joined' \in [Client -> Nat]
        /\ counters' \in [Client -> [DOMAIN NoCounters -> Nat]]
        /\ reads' \in 0 .. MaxReads
        /\ queue' \in Seq([line : Line, origin : Client])
    BY <1>3, <1>5 DEF TypeOK, clientVars
  <2> QED BY <1>6, <1>7, <1>10, <2>1, <2>2, <2>3, <2>4 DEF TypeOK
<1>16. QueuesBounded' /\ HeldFilter'
  BY <1>3, <1>5, DepthType DEF QueuesBounded, HeldFilter, clientVars, writerVars
<1>17. FeedInOrder'
  BY <1>13 DEF FeedInOrder
<1>18. NoEcho'
  BY <1>10, <1>13, <1>14 DEF NoEcho
<1>19. OnlyEntitled'
  <2>1. \A i \in Serial' : Verified[log'[i].origin]
    BY <1>2, <1>10, <1>11 DEF OnlyEntitled, r
  <2>2. ASSUME NEW c \in Client, Stream(c)' # <<>>
        PROVE  Kind[c] \in {"FullFeed", "Igate"}
    BY <1>13, <2>2 DEF OnlyEntitled
  <2>3. ASSUME NEW c \in Client, NEW i \in 1 .. Len(Stream(c)'),
               Kind[c] = "Igate", c \in Held
        PROVE  log'[Stream(c)'[i]].line \in Forced[c]
    BY <1>10, <1>13, <1>14, <2>3 DEF OnlyEntitled
  <2> QED BY <2>1, <2>2, <2>3 DEF OnlyEntitled
<1>20. ASSUME NEW i \in 1 .. Len(log)
       PROVE  /\ log'[i] = log[i] /\ log[i].second \in Nat
              /\ DigestOf[log[i].line] \in Digest
              /\ log[i].second <= lastPass[DigestOf[log[i].line]]
  BY <1>10, <1>11, LogType DEF LogIsRemembered
<1>21. NoDuplicateBroadcast'
  <2> SUFFICES ASSUME NEW i \in Serial', NEW j \in Serial', i < j,
                      DigestOf[log'[i].line] = DigestOf[log'[j].line]
               PROVE  log'[j].second - log'[i].second > Span
    BY DEF NoDuplicateBroadcast
  <2>1. i \in 1 .. Len(log)
    BY <1>10, <1>11
  <2>2. CASE j \in 1 .. Len(log)
    BY <1>10, <1>11, <2>1, <2>2 DEF NoDuplicateBroadcast
  <2>3. CASE j = n
    <3>1. log'[j].second = now' /\ DigestOf[log[i].line] = DigestOf[h.line]
      BY <1>10, <2>1, <2>3 DEF r
    <3>2. lastPass[DigestOf[h.line]] \in Nat \cup {-1}
      BY <1>4 DEF TypeOK, Never
    <3>3. log'[i].second \in Nat /\ log'[i].second <= lastPass[DigestOf[h.line]]
      BY <1>20, <2>1, <3>1
    <3>4. lastPass[DigestOf[h.line]] # Never /\ lastPass[DigestOf[h.line]] \in Nat
      BY <3>2, <3>3 DEF Never
    <3> QED BY <1>6, <3>1, <3>3, <3>4, SpanInNat
  <2>4. j \in 1 .. Len(log) \/ j = n
    <3>1. j \in 1 .. (Len(log) + 1)
      BY <1>11
    <3>2. Len(log) \in Nat
      BY <1>10
    <3> QED BY <3>1, <3>2
  <2> QED BY <2>2, <2>3, <2>4
<1>22. WalkIsNewest'
  BY <1>5, <1>10, <1>13, <1>14 DEF WalkIsNewest, clientVars, writerVars
<1>23. LogIsRemembered'
  <2>1. \A e \in Digest : lastPass[e] \in Int /\ lastPass'[e] \in Int
    BY <1>6 DEF TypeOK, Never
  <2>2. ASSUME NEW i \in 1 .. Len(log)
        PROVE  log'[i].second <= lastPass'[DigestOf[log'[i].line]]
    <3>1. lastPass[DigestOf[log[i].line]] \in Int /\ lastPass'[DigestOf[log[i].line]] \in Int
          /\ lastPass'[DigestOf[log[i].line]] >= lastPass[DigestOf[log[i].line]]
      BY <1>6, <1>20, <2>1
    <3> QED BY <1>20, <3>1
  <2>3. log'[n].second <= lastPass'[DigestOf[log'[n].line]]
    BY <1>6, <1>10 DEF r
  <2>4. \A i \in Serial' : log'[i].second <= lastPass'[DigestOf[log'[i].line]]
    BY <1>10, <1>11, <2>2, <2>3
  <2> QED BY <1>6, <2>4 DEF LogIsRemembered
<1> QED BY <1>15, <1>16, <1>17, <1>18, <1>19, <1>21, <1>22, <1>23

(* When the walk is over no client is ahead of anyone.                     *)
LEMMA EndBroadcastStep ==
  ASSUME DispatchInv, EndBroadcast
  PROVE  DispatchInv'
<1> USE DEF DispatchInv
<1>1. /\ current' = 0 /\ visited' = {}
      /\ UNCHANGED <<queue, log, dupeVars, clientVars, writerVars, countVars>>
  BY DEF EndBroadcast
<1>2. TypeOK'
  BY <1>1 DEF TypeOK, Serial, dupeVars, clientVars, writerVars, countVars
<1>3. QueuesBounded' /\ HeldFilter'
  BY <1>1 DEF QueuesBounded, HeldFilter, clientVars, writerVars
<1>4. \A c \in Client : Stream(c)' = Stream(c)
  BY <1>1 DEF Stream, writerVars
<1>5. WalkIsNewest'
  BY <1>1, <1>4 DEF WalkIsNewest, clientVars, writerVars
<1>6. LogIsRemembered'
  BY <1>1 DEF LogIsRemembered, Serial, dupeVars
<1> QED BY <1>1, <1>2, <1>3, <1>4, <1>5, <1>6, QuietStep

(* The walk queues the newest line for a client it had not reached.        *)
LEMMA OfferStep ==
  ASSUME DispatchInv, NEW c \in Client, Offer(c)
  PROVE  /\ DispatchInv'
         /\ Stream(c)' = Append(Stream(c), current)
         /\ \A e \in Client \ {c} : Stream(e)' = Stream(e)
<1> USE DEF DispatchInv
<1> DEFINE x == current
<1>1. /\ x # 0 /\ c \in Registered /\ c \notin visited
      /\ visited' = visited \cup {c}
      /\ outbox' = [outbox EXCEPT ![c] = Append(@, x)]
      /\ counters' = [counters EXCEPT ![c] = Incr(@, "sent")]
      /\ metrics' = Incr(metrics, "sent")
      /\ UNCHANGED <<queue, current, log, dupeVars, clientVars,
                     writer, buffer, wire, reads>>
      /\ c # log[x].origin /\ Accepts(c, log[x].line)
      /\ writer[c] # "dead" /\ Len(outbox[c]) < Depth
  BY DEF Offer, Reach, Wanted, Room
<1>2. x \in Serial /\ x = Len(log) /\ Serial' = Serial /\ Serial = 1 .. Len(log)
  BY <1>1 DEF WalkIsNewest, TypeOK, Serial
<1>3. wire[c] \in Seq(Serial) /\ buffer[c] \in Seq(Serial) /\ outbox[c] \in Seq(Serial)
  BY DEF TypeOK
<1>4. /\ Append(outbox[c], x) \in Seq(Serial)
      /\ Len(Append(outbox[c], x)) = Len(outbox[c]) + 1
      /\ Len(outbox[c]) \in Nat
  BY <1>2, <1>3, AppendProperties
<1>5. Stream(c)' = Append(Stream(c), x)
  <2>1. Stream(c)' = (wire[c] \o buffer[c]) \o Append(outbox[c], x)
    BY <1>1 DEF Stream, TypeOK
  <2>2. (wire[c] \o buffer[c]) \o Append(outbox[c], x)
          = Append((wire[c] \o buffer[c]) \o outbox[c], x)
    <3> DEFINE S == Serial  w == wire[c]  b == buffer[c]  o == outbox[c]
    <3>1. w \in Seq(S) /\ b \in Seq(S) /\ o \in Seq(S) /\ x \in S
      BY <1>2, <1>3
    <3> HIDE DEF S, w, b, o, x
    <3>2. (w \o b) \o Append(o, x) = Append((w \o b) \o o, x)
      BY <3>1, AppendOne, SMTT(30)
    <3> QED BY <3>2 DEF w, b, o
  <2> QED BY <2>1, <2>2 DEF Stream
<1>6. \A e \in Client \ {c} : Stream(e)' = Stream(e)
  BY <1>1 DEF Stream, TypeOK
<1> HIDE DEF x
<1>7. /\ Stream(c) \in Seq(Serial) /\ Len(Stream(c)) \in Nat
      /\ Len(Stream(c)') = Len(Stream(c)) + 1
      /\ \A i \in 1 .. Len(Stream(c)) : Stream(c)'[i] = Stream(c)[i]
      /\ Stream(c)'[Len(Stream(c)) + 1] = x
  BY <1>2, <1>5, StreamType, AppendProperties
<1>8. \A i \in 1 .. Len(Stream(c)) : Stream(c)[i] < x
  BY <1>1 DEF WalkIsNewest, x
<1>9. TypeOK'
  <2>1. metrics' \in [DOMAIN NoMetrics -> Nat]
    BY <1>1, IncrMetrics DEF TypeOK, NoMetrics
  <2>2. counters' \in [Client -> [DOMAIN NoCounters -> Nat]]
    BY <1>1, IncrCounters DEF TypeOK, NoCounters
  <2>3. outbox' \in [Client -> Seq(Serial)]
    BY <1>1, <1>4 DEF TypeOK
  <2> QED BY <1>1, <1>2, <2>1, <2>2, <2>3 DEF TypeOK, dupeVars, clientVars
<1>10. QueuesBounded'
  <2>1. ASSUME NEW e \in Client PROVE Len(outbox'[e]) <= Depth
    <3>1. CASE e = c
      BY <1>1, <1>4, <3>1, DepthType DEF TypeOK
    <3>2. CASE e # c
      BY <1>1, <3>2 DEF TypeOK, QueuesBounded
    <3> QED BY <3>1, <3>2
  <2> QED BY <1>1, <2>1 DEF QueuesBounded
<1>11. FeedInOrder'
  <2> SUFFICES ASSUME NEW e \in Client,
                      NEW i \in 1 .. Len(Stream(e)'), NEW j \in 1 .. Len(Stream(e)'),
                      i < j
               PROVE  Stream(e)'[i] < Stream(e)'[j]
    BY DEF FeedInOrder
  <2>1. CASE e # c
    BY <1>6, <2>1 DEF FeedInOrder
  <2>2. CASE e = c /\ j <= Len(Stream(c))
    BY <1>7, <2>2 DEF FeedInOrder
  <2>3. CASE e = c /\ j = Len(Stream(c)) + 1
    BY <1>7, <1>8, <2>3
  <2> QED BY <1>7, <2>1, <2>2, <2>3
<1>12. NoEcho'
  <2> SUFFICES ASSUME NEW e \in Client, NEW i \in 1 .. Len(Stream(e)')
               PROVE  log[Stream(e)'[i]].origin # e
    BY <1>1 DEF NoEcho
  <2>1. CASE e # c
    BY <1>6, <2>1 DEF NoEcho
  <2>2. CASE e = c /\ i <= Len(Stream(c))
    BY <1>7, <2>2 DEF NoEcho
  <2>3. CASE e = c /\ i = Len(Stream(c)) + 1
    BY <1>1, <1>7, <2>3 DEF x
  <2> QED BY <1>7, <2>1, <2>2, <2>3
<1>13. OnlyEntitled'
  <2>1. \A i \in Serial' : Verified[log'[i].origin]
    BY <1>1, <1>2 DEF OnlyEntitled
  <2>2. ASSUME NEW e \in Client, Stream(e)' # <<>>
        PROVE  Kind[e] \in {"FullFeed", "Igate"}
    <3>1. CASE e = c
      BY <1>1, <3>1 DEF Accepts
    <3>2. CASE e # c
      BY <1>6, <2>2, <3>2 DEF OnlyEntitled
    <3> QED BY <3>1, <3>2
  <2>3. ASSUME NEW e \in Client, NEW i \in 1 .. Len(Stream(e)'),
               Kind[e] = "Igate", e \in Held
        PROVE  log[Stream(e)'[i]].line \in Forced[e]
    <3>1. CASE e # c
      BY <1>6, <2>3, <3>1 DEF OnlyEntitled
    <3>2. CASE e = c /\ i <= Len(Stream(c))
      BY <1>7, <2>3, <3>2 DEF OnlyEntitled
    <3>3. CASE e = c /\ i = Len(Stream(c)) + 1
      <4>1. status[c] # "new"
        BY <1>1 DEF Registered
      <4>2. log[x].line \in filter[c] /\ filter[c] = Forced[c]
        BY <1>1, <2>3, <3>3, <4>1 DEF Accepts, HeldFilter, x
      <4> QED BY <1>7, <3>3, <4>2
    <3> QED BY <1>7, <3>1, <3>2, <3>3
  <2> QED BY <1>1, <2>1, <2>2, <2>3 DEF OnlyEntitled
<1>14. NoDuplicateBroadcast'
  BY <1>1, <1>2 DEF NoDuplicateBroadcast
<1>15. WalkIsNewest'
  <2>1. current' = current /\ current # 0 /\ current = Len(log) /\ log' = log
    BY <1>1, <1>2 DEF x
  <2>2. ASSUME NEW e \in Client, e # c
        PROVE  /\ outbox'[e] = outbox[e] /\ Stream(e)' = Stream(e)
               /\ e \notin visited' <=> e \notin visited
    BY <1>1, <1>6, <2>2 DEF TypeOK
  <2>3. status[c] # "new" /\ c \in visited'
    BY <1>1 DEF Registered
  <2>4. writer' = writer /\ buffer' = buffer /\ status' = status
    BY <1>1 DEF clientVars
  <2> QED BY <1>1, <2>1, <2>2, <2>3, <2>4 DEF WalkIsNewest
<1>16. LogIsRemembered' /\ HeldFilter'
  BY <1>1, <1>2 DEF LogIsRemembered, HeldFilter, dupeVars, clientVars
<1>17. Stream(c)' = Append(Stream(c), current)
  BY <1>5 DEF x
<1> QED BY <1>6, <1>9, <1>10, <1>11, <1>12, <1>13, <1>14, <1>15, <1>16, <1>17

(* The walk passes a client over, or costs it the line.                    *)
LEMMA PassOverStep ==
  ASSUME DispatchInv, NEW c \in Client, PassOver(c) \/ Drop(c)
  PROVE  DispatchInv'
<1> USE DEF DispatchInv
<1>1. /\ current # 0 /\ visited' = visited \cup {c}
      /\ UNCHANGED <<queue, current, log, dupeVars, clientVars,
                     outbox, writer, buffer, wire, reads>>
      /\ \/ UNCHANGED <<metrics, counters>>
         \/ /\ counters' = [counters EXCEPT ![c] = Incr(@, "dropped")]
            /\ metrics' = Incr(metrics, "slow")
  BY DEF PassOver, Drop, Reach
<1>2. metrics' \in [DOMAIN NoMetrics -> Nat]
  BY <1>1, IncrMetrics DEF TypeOK, NoMetrics
<1>3. counters' \in [Client -> [DOMAIN NoCounters -> Nat]]
  <2>1. counters \in [Client -> [DOMAIN NoCounters -> Nat]]
    BY DEF TypeOK
  <2>2. "dropped" \in DOMAIN NoCounters
    BY DEF NoCounters
  <2>3. [counters EXCEPT ![c] = Incr(@, "dropped")]
          \in [Client -> [DOMAIN NoCounters -> Nat]]
    BY <2>1, <2>2, IncrCounters
  <2> QED BY <1>1, <2>1, <2>3
<1>4. TypeOK'
  BY <1>1, <1>2, <1>3 DEF TypeOK, Serial, dupeVars, clientVars
<1>5. QueuesBounded' /\ HeldFilter'
  BY <1>1 DEF QueuesBounded, HeldFilter, clientVars
<1>6. \A e \in Client : Stream(e)' = Stream(e)
  BY <1>1 DEF Stream
<1>7. WalkIsNewest'
  BY <1>1, <1>6 DEF WalkIsNewest, clientVars
<1>8. LogIsRemembered'
  BY <1>1 DEF LogIsRemembered, Serial, dupeVars
<1> QED BY <1>1, <1>4, <1>5, <1>6, <1>7, <1>8, QuietStep

-----------------------------------------------------------------------------
(* The actions of the writer tasks: no stream changes.                     *)

(* A line moves on towards the socket of its client.                       *)
LEMMA MoveStep ==
  ASSUME DispatchInv, NEW c \in Client, Writer(c)
  PROVE  DispatchInv' /\ \A e \in Client : Stream(e)' = Stream(e)
<1> USE DEF DispatchInv
<1>0. wire[c] \in Seq(Serial) /\ buffer[c] \in Seq(Serial) /\ outbox[c] \in Seq(Serial)
  BY DEF TypeOK
<1>1. /\ UNCHANGED <<taskVars, clientVars, countVars>>
      /\ \A e \in Client \ {c} :
           /\ wire'[e] = wire[e] /\ buffer'[e] = buffer[e]
           /\ outbox'[e] = outbox[e] /\ writer'[e] = writer[e]
      /\ DOMAIN wire' = Client /\ DOMAIN buffer' = Client /\ DOMAIN outbox' = Client
      /\ wire' = [e \in Client |-> wire'[e]]
      /\ buffer' = [e \in Client |-> buffer'[e]]
      /\ outbox' = [e \in Client |-> outbox'[e]]
      /\ writer' \in [Client -> {"idle", "drain", "dead"}]
  BY ZenonT(60) DEF Writer, WriteFirst, WriteMore, Flush, TypeOK
<1>2. /\ wire'[c] \in Seq(Serial) /\ buffer'[c] \in Seq(Serial)
      /\ outbox'[c] \in Seq(Serial)
      /\ Len(outbox'[c]) <= Len(outbox[c]) /\ Len(outbox[c]) \in Nat
      /\ Len(outbox'[c]) \in Nat
      /\ Stream(c)' = Stream(c)
      /\ writer'[c] # "drain" => buffer'[c] = <<>>
      /\ writer'[c] # "dead"
  <2>1. CASE WriteFirst(c)
    <3>1. /\ outbox[c] # <<>> /\ buffer[c] = <<>>
          /\ wire'[c] = Append(wire[c], Head(outbox[c]))
          /\ outbox'[c] = Tail(outbox[c]) /\ buffer'[c] = <<>>
          /\ writer'[c] = "drain"
      BY <2>1 DEF WriteFirst, TypeOK, WalkIsNewest
    <3>2. /\ Head(outbox[c]) \in Serial /\ Tail(outbox[c]) \in Seq(Serial)
          /\ Len(Tail(outbox[c])) = Len(outbox[c]) - 1 /\ Len(outbox[c]) \in Nat
      BY <1>0, <3>1, HeadTailProperties
    <3>3. Append(wire[c], Head(outbox[c])) \in Seq(Serial)
      BY <1>0, <3>2, AppendProperties
    <3>4. Stream(c)' = Stream(c)
      BY <1>0, <3>1, MoveToWire DEF Stream
    <3> QED BY <1>0, <3>1, <3>2, <3>3, <3>4
  <2>2. CASE WriteMore(c)
    <3>1. /\ outbox[c] # <<>> /\ wire'[c] = wire[c]
          /\ buffer'[c] = Append(buffer[c], Head(outbox[c]))
          /\ outbox'[c] = Tail(outbox[c])
          /\ writer'[c] = "drain"
      BY <2>2 DEF WriteMore, TypeOK
    <3>2. /\ Head(outbox[c]) \in Serial /\ Tail(outbox[c]) \in Seq(Serial)
          /\ Len(Tail(outbox[c])) = Len(outbox[c]) - 1 /\ Len(outbox[c]) \in Nat
      BY <1>0, <3>1, HeadTailProperties
    <3>3. Append(buffer[c], Head(outbox[c])) \in Seq(Serial)
      BY <1>0, <3>2, AppendProperties
    <3>4. (wire[c] \o Append(buffer[c], Head(outbox[c]))) \o Tail(outbox[c])
            = (wire[c] \o buffer[c]) \o outbox[c]
      <4> DEFINE S == Serial  w == wire[c]  b == buffer[c]  o == outbox[c]
      <4>1. w \in Seq(S) /\ b \in Seq(S) /\ o \in Seq(S) /\ o # <<>>
        BY <1>0, <3>1
      <4> HIDE DEF S, w, b, o
      <4>2. (w \o Append(b, Head(o))) \o Tail(o) = (w \o b) \o o
        BY <4>1, MoveToBuffer, SMTT(30)
      <4> QED BY <4>2 DEF w, b, o
    <3>5. Stream(c)' = Stream(c)
      BY <3>1, <3>4 DEF Stream
    <3> QED BY <1>0, <3>1, <3>2, <3>3, <3>5
  <2>3. CASE Flush(c)
    <3>1. /\ outbox[c] = <<>> /\ outbox'[c] = <<>>
          /\ wire'[c] = wire[c] \o buffer[c] /\ buffer'[c] = <<>>
          /\ writer'[c] = "idle"
      BY <2>3 DEF Flush, TypeOK
    <3>2. wire[c] \o buffer[c] \in Seq(Serial)
      BY <1>0, ConcatProperties
    <3>3. (wire[c] \o buffer[c]) \o <<>> = wire[c] \o buffer[c]
      BY <3>2, ConcatEmptySeq
    <3>4. Stream(c)' = Stream(c)
      BY <3>1, <3>3 DEF Stream
    <3> QED BY <1>0, <3>1, <3>2, <3>4
  <2> QED BY <2>1, <2>2, <2>3 DEF Writer
<1>3. TypeOK'
  <2>1. Serial' = Serial
    BY <1>1 DEF Serial, taskVars
  <2>2. /\ wire' \in [Client -> Seq(Serial)]
        /\ buffer' \in [Client -> Seq(Serial)]
        /\ outbox' \in [Client -> Seq(Serial)]
    BY <1>1, <1>2 DEF TypeOK
  <2> QED BY <1>1, <2>1, <2>2 DEF TypeOK, taskVars, clientVars, countVars
<1>4. QueuesBounded'
  BY <1>1, <1>2, DepthType DEF QueuesBounded, taskVars
<1>5. \A e \in Client : Stream(e)' = Stream(e)
  BY <1>1, <1>2 DEF Stream
<1>6. WalkIsNewest'
  BY <1>1, <1>2, <1>5 DEF WalkIsNewest, taskVars, clientVars
<1>7. LogIsRemembered' /\ HeldFilter' /\ log' = log
  BY <1>1 DEF LogIsRemembered, HeldFilter, Serial, taskVars, clientVars
<1>8. DispatchInv'
  BY <1>3, <1>4, <1>5, <1>6, <1>7, QuietStep
<1> QED BY <1>5, <1>8

-----------------------------------------------------------------------------
(* The lines a client misses.                                              *)

(* They are finitely many, so whoever misses no more than before and has   *)
(* no smaller counter still finds them counted.                            *)
LEMMA MissedIsFinite ==
  ASSUME TypeOK, NEW c \in Client
  PROVE  IsFiniteSet(Missed(c)) /\ Cardinality(Missed(c)) \in Nat
<1>1. PICK n \in Nat : n = Len(log)
  BY DEF TypeOK
<1>2. Missed(c) \in SUBSET (1 .. n)
  BY <1>1 DEF Missed, Due, Serial
<1>3. IsFiniteSet(1 .. n)
  BY FS_Interval
<1>4. IsFiniteSet(Missed(c))
  BY <1>2, <1>3, FS_Subset
<1> QED BY <1>4, FS_CardinalityType

(* Missing no more than before, with as many drops counted, is missing no  *)
(* more than was counted.                                                  *)
LEMMA NoMoreMissed ==
  ASSUME TypeOK, NoSilentLoss, NEW c \in Client,
         status[c] = "registered", writer[c] # "dead",
         Missed(c)' \subseteq Missed(c), counters'[c].dropped \in Nat,
         counters'[c].dropped >= counters[c].dropped
  PROVE  Cardinality(Missed(c)') <= counters'[c].dropped
<1>1. IsFiniteSet(Missed(c)) /\ Cardinality(Missed(c)) \in Nat
  BY MissedIsFinite
<1>2. Missed(c)' \in SUBSET Missed(c)
  OBVIOUS
<1>3. IsFiniteSet(Missed(c)') /\ Cardinality(Missed(c)') <= Cardinality(Missed(c))
  BY <1>1, <1>2, FS_Subset
<1>4. Cardinality(Missed(c)') \in Nat
  BY <1>3, FS_CardinalityType
<1>5. Cardinality(Missed(c)) <= counters[c].dropped
  BY DEF NoSilentLoss
<1>6. counters[c].dropped \in Nat
  BY DEF TypeOK, NoCounters
<1> QED BY <1>1, <1>3, <1>4, <1>5, <1>6

(* Away from the walk nothing becomes due: a filter that locks does not    *)
(* change.                                                                 *)
LEMMA NothingDue ==
  ASSUME NEW c \in Client, UNCHANGED <<current, visited, log>>, joined'[c] = joined[c],
         Kind[c] = "Igate" /\ Locked(c) => filter'[c] = filter[c],
         Stream(c)' = Stream(c)
  PROVE  Missed(c)' = Missed(c)
<1>1. Due(c)' = Due(c)
  BY DEF Due, Serial
<1> QED BY <1>1 DEF Missed

(* A client's counter of drops is a number, and so it stays.               *)
LEMMA DroppedIsNat ==
  ASSUME NEW k \in [Client -> [DOMAIN NoCounters -> Nat]], NEW c \in Client
  PROVE  k[c].dropped \in Nat /\ k[c].dropped >= k[c].dropped
<1>1. k[c] \in [DOMAIN NoCounters -> Nat] /\ "dropped" \in DOMAIN NoCounters
  BY DEF NoCounters
<1>2. k[c].dropped \in Nat
  BY <1>1
<1> QED BY <1>2

(* A step that makes no line missed and takes back no count keeps the      *)
(* promise to a client it leaves registered with a live writer.            *)
LEMMA QuietKeeps ==
  ASSUME TypeOK, TypeOK', NoSilentLoss, NEW c \in Client,
         status[c] = "registered", writer[c] # "dead",
         UNCHANGED <<current, visited, log>>, joined'[c] = joined[c],
         Kind[c] = "Igate" /\ Locked(c) => filter'[c] = filter[c],
         Stream(c)' = Stream(c),
         counters'[c].dropped >= counters[c].dropped
  PROVE  Cardinality(Missed(c)') <= counters'[c].dropped
<1>1. Missed(c)' = Missed(c)
  BY NothingDue
<1>2. counters'[c].dropped \in Nat
  BY DEF TypeOK, NoCounters
<1> QED BY <1>1, <1>2, NoMoreMissed

(* The counters of drops only grow.                                        *)
LEMMA DropsGrow ==
  ASSUME TypeOK, NEW c \in Client, NEW e \in Client, NEW f \in DOMAIN NoCounters,
         counters' = [counters EXCEPT ![c] = Incr(@, f)]
  PROVE  /\ counters'[e].dropped >= counters[e].dropped
         /\ f = "dropped" => counters'[c].dropped = counters[c].dropped + 1
<1>1. counters[e] \in [DOMAIN NoCounters -> Nat] /\ counters[c] \in [DOMAIN NoCounters -> Nat]
  BY DEF TypeOK
<1>2. counters[e].dropped \in Nat /\ counters[c].dropped \in Nat
  BY <1>1 DEF NoCounters
<1>3. counters'[c] = Incr(counters[c], f) /\ (e # c => counters'[e] = counters[e])
  BY DEF TypeOK
<1>4. counters'[c].dropped = IF f = "dropped" THEN counters[c].dropped + 1
                             ELSE counters[c].dropped
  BY <1>1, <1>3 DEF Incr, NoCounters
<1> QED BY <1>2, <1>3, <1>4

(* A client that has just registered is owed nothing.                      *)
LEMMA NewcomerOwedNothing ==
  ASSUME TypeOK, TypeOK', NEW c \in Client, Register(c)
  PROVE  Cardinality(Missed(c)') <= counters'[c].dropped
<1>1. log' = log /\ joined'[c] = Len(log) /\ Len(log) \in Nat
  BY DEF Register, taskVars, TypeOK
<1>2. Due(c)' = {}
  BY <1>1 DEF Due, Serial
<1>3. Missed(c)' = {}
  BY <1>2 DEF Missed
<1>4. counters'[c].dropped \in Nat
  BY DEF TypeOK, NoCounters
<1> QED BY <1>3, <1>4, FS_EmptySet

(* A line that begins its walk is due to nobody yet.                       *)
LEMMA DeliverKeeps ==
  ASSUME DispatchInv, TypeOK', NoSilentLoss, Deliver, NEW c \in Client,
         status[c] = "registered", writer[c] # "dead"
  PROVE  Cardinality(Missed(c)') <= counters'[c].dropped
<1>1. PICK r : log' = Append(log, r)
  BY DEF Deliver
<1>2. /\ current = 0 /\ current' = Len(log') /\ visited' = {}
      /\ UNCHANGED <<clientVars, writerVars, counters>>
  BY DEF Deliver, Checked, Ready
<1>3. PICK n \in Nat : n = Len(log)
  BY DEF DispatchInv, TypeOK
<1>4. Len(log') = n + 1 /\ \A i \in 1 .. n : log'[i] = log[i]
  BY <1>1, <1>3 DEF DispatchInv, TypeOK
<1>5. Due(c)' \subseteq Due(c)
  BY <1>2, <1>3, <1>4 DEF Due, Serial, Locked, clientVars
<1>6. Stream(c)' = Stream(c)
  BY <1>2 DEF Stream, writerVars
<1>7. Missed(c)' \subseteq Missed(c)
  BY <1>5, <1>6 DEF Missed
<1>8. counters'[c].dropped \in Nat /\ counters[c].dropped = counters'[c].dropped
  BY <1>2 DEF TypeOK, NoCounters
<1> QED BY <1>7, <1>8, NoMoreMissed DEF DispatchInv

(* The walk ends owing its line only to clients it reached, or that        *)
(* registered too late for it.                                             *)
LEMMA EndKeeps ==
  ASSUME DispatchInv, TypeOK', NoSilentLoss, EndBroadcast, NEW c \in Client,
         status[c] = "registered", writer[c] # "dead"
  PROVE  Cardinality(Missed(c)') <= counters'[c].dropped
<1>1. /\ current' = 0 /\ visited' = {}
      /\ c \notin visited => joined[c] >= current
      /\ UNCHANGED <<log, clientVars, writerVars, counters>>
  BY DEF EndBroadcast, Registered, countVars
<1>2. joined[c] \in Nat /\ current \in Int
  BY DEF DispatchInv, TypeOK, Serial
<1>3. Due(c)' \subseteq Due(c)
  BY <1>1, <1>2 DEF Due, Serial, Locked, clientVars
<1>4. Stream(c)' = Stream(c)
  BY <1>1 DEF Stream, writerVars
<1>5. Missed(c)' \subseteq Missed(c)
  BY <1>3, <1>4 DEF Missed
<1>6. counters'[c].dropped \in Nat /\ counters[c].dropped = counters'[c].dropped
  BY <1>1 DEF TypeOK, NoCounters
<1> QED BY <1>5, <1>6, NoMoreMissed DEF DispatchInv

(* What the walk owes to a client it has just reached was owed before, or  *)
(* is the line of this walk; nobody else is owed more or less.             *)
LEMMA ReachOwes ==
  ASSUME NEW c \in Client, NEW e \in Client, Reach(c)
  PROVE  /\ Due(e)' \subseteq Due(e) \cup {current}
         /\ e # c => Due(e)' = Due(e)
         /\ ~ Wanted(c) => Due(e)' = Due(e)
<1>1. /\ visited' = visited \cup {c}
      /\ UNCHANGED <<current, log, clientVars>>
  BY DEF Reach
<1>2. Due(e)' \subseteq Due(e) \cup {current} /\ Due(e) \subseteq Due(e)'
  BY <1>1 DEF Due, Serial, Locked, clientVars
<1>3. ASSUME e # c PROVE current \in Due(e)' => current \in Due(e)
  BY <1>1, <1>3 DEF Due, Serial, Locked, clientVars
<1>4. ASSUME ~ Wanted(c), e = c PROVE current \notin Due(e)'
  BY <1>1, <1>4 DEF Due, Wanted, Accepts, Locked, clientVars
<1> QED BY <1>2, <1>3, <1>4

(* A client passed over misses nothing by it.                              *)
LEMMA PassOverKeeps ==
  ASSUME DispatchInv, TypeOK', NoSilentLoss, NEW c \in Client, PassOver(c),
         NEW e \in Client, status[e] = "registered", writer[e] # "dead"
  PROVE  Cardinality(Missed(e)') <= counters'[e].dropped
<1>1. Reach(c) /\ ~ Wanted(c) /\ UNCHANGED <<outbox, counters>>
  BY DEF PassOver
<1>2. Stream(e)' = Stream(e)
  BY <1>1 DEF Reach, Stream
<1>3. Missed(e)' \subseteq Missed(e)
  BY <1>1, <1>2, ReachOwes DEF Missed
<1>4. counters'[e].dropped \in Nat /\ counters[e].dropped = counters'[e].dropped
  BY <1>1 DEF TypeOK, NoCounters
<1> QED BY <1>3, <1>4, NoMoreMissed DEF DispatchInv

(* A client offered the line of the walk has it in its stream.             *)
LEMMA OfferKeeps ==
  ASSUME DispatchInv, TypeOK', NoSilentLoss, NEW c \in Client, Offer(c),
         NEW e \in Client, status[e] = "registered", writer[e] # "dead"
  PROVE  Cardinality(Missed(e)') <= counters'[e].dropped
<1>1. Reach(c) /\ counters' = [counters EXCEPT ![c] = Incr(@, "sent")]
  BY DEF Offer
<1>2. Missed(e)' \subseteq Missed(e)
  <2>1. CASE e # c
    BY <1>1, <2>1, ReachOwes, OfferStep DEF Missed
  <2>2. CASE e = c
    <3>1. Due(c)' \subseteq Due(c) \cup {current}
      BY <1>1, ReachOwes
    <3>2. PICK s \in Seq(Serial) : s = Stream(c)
      BY StreamType DEF DispatchInv
    <3>3. Stream(c)' = Append(s, current)
      BY <3>2, OfferStep
    <3>4. /\ Len(s) \in Nat /\ Len(Append(s, current)) = Len(s) + 1
          /\ Append(s, current)[Len(s) + 1] = current
          /\ \A i \in 1 .. Len(s) : Append(s, current)[i] = s[i]
      BY <3>2
    <3>5. {s[i] : i \in 1 .. Len(s)} \cup {current}
            \subseteq {Append(s, current)[i] : i \in 1 .. Len(Append(s, current))}
      BY <3>4
    <3>6. Missed(c)' = Due(c)' \ {Append(s, current)[i] : i \in 1 .. Len(Append(s, current))}
      BY <3>3 DEF Missed
    <3>7. Missed(c) = Due(c) \ {s[i] : i \in 1 .. Len(s)}
      BY <3>2 DEF Missed
    <3> QED BY <2>2, <3>1, <3>5, <3>6, <3>7
  <2> QED BY <2>1, <2>2
<1>3. counters'[e].dropped >= counters[e].dropped
  BY <1>1, DropsGrow DEF NoCounters, DispatchInv
<1>4. counters'[e].dropped \in Nat
  BY DEF TypeOK, NoCounters
<1> QED BY <1>2, <1>3, <1>4, NoMoreMissed DEF DispatchInv

(* A client whose outbox is full misses one line more, and its counter of  *)
(* drops is one higher.                                                    *)
LEMMA DropKeeps ==
  ASSUME DispatchInv, TypeOK', NoSilentLoss, NEW c \in Client, Drop(c),
         NEW e \in Client, status[e] = "registered", writer[e] # "dead"
  PROVE  Cardinality(Missed(e)') <= counters'[e].dropped
<1>1. /\ Reach(c) /\ counters' = [counters EXCEPT ![c] = Incr(@, "dropped")]
      /\ outbox' = outbox
  BY DEF Drop
<1>2. Stream(e)' = Stream(e)
  BY <1>1 DEF Reach, Stream
<1>3. counters'[e].dropped \in Nat /\ counters[e].dropped \in Nat
  BY DroppedIsNat DEF TypeOK, DispatchInv
<1>4. CASE e # c
  <2>1. Missed(e)' \subseteq Missed(e)
    BY <1>1, <1>2, <1>4, ReachOwes DEF Missed
  <2>2. counters'[e].dropped >= counters[e].dropped
    BY <1>1, DropsGrow DEF NoCounters, DispatchInv
  <2> QED BY <1>3, <2>1, <2>2, NoMoreMissed DEF DispatchInv
<1>5. CASE e = c
  <2>1. Missed(e)' \subseteq Missed(e) \cup {current}
    BY <1>1, <1>2, ReachOwes DEF Missed
  <2>2. IsFiniteSet(Missed(e)) /\ Cardinality(Missed(e)) \in Nat
    BY MissedIsFinite DEF DispatchInv
  <2>3. /\ IsFiniteSet(Missed(e) \cup {current})
        /\ Cardinality(Missed(e) \cup {current}) <= Cardinality(Missed(e)) + 1
    <3>1. CASE current \in Missed(e)
      <4>1. Missed(e) \cup {current} = Missed(e)
        BY <3>1
      <4>2. PICK m \in Nat : m = Cardinality(Missed(e))
        BY <2>2
      <4> QED BY <2>2, <4>1, <4>2
    <3>2. CASE current \notin Missed(e)
      <4>1. /\ IsFiniteSet(Missed(e) \cup {current})
            /\ Cardinality(Missed(e) \cup {current}) = Cardinality(Missed(e)) + 1
        BY <2>2, <3>2, FS_AddElement
      <4> QED BY <2>2, <4>1
    <3> QED BY <3>1, <3>2
  <2>4. /\ Cardinality(Missed(e)') <= Cardinality(Missed(e) \cup {current})
        /\ Cardinality(Missed(e)') \in Nat /\ Cardinality(Missed(e) \cup {current}) \in Nat
    BY <2>1, <2>3, FS_Subset, FS_CardinalityType
  <2>5. counters'[e].dropped = counters[e].dropped + 1
    BY <1>1, <1>5, DropsGrow DEF NoCounters, DispatchInv
  <2>6. Cardinality(Missed(e)) <= counters[e].dropped
    BY DEF NoSilentLoss
  <2> QED BY <1>3, <2>2, <2>3, <2>4, <2>5, <2>6
<1> QED BY <1>4, <1>5

(* The readers and the writers of other clients, and of this one.          *)
LEMMA ReaderKeeps ==
  ASSUME DispatchInv, TypeOK', NoSilentLoss, NEW c \in Client,
         Reader(c) \/ Writer(c) \/ WriteFails(c),
         NEW e \in Client, status'[e] = "registered", writer'[e] # "dead"
  PROVE  Cardinality(Missed(e)') <= counters'[e].dropped
<1> USE DEF DispatchInv
<1>1. CASE Register(c)
  <2>1. CASE e = c
    BY <1>1, <2>1, NewcomerOwedNothing
  <2>2. CASE e # c
    <3>1. /\ status[e] = "registered" /\ writer[e] # "dead"
          /\ joined'[e] = joined[e] /\ filter'[e] = filter[e]
          /\ UNCHANGED <<taskVars, writerVars, counters>>
      BY <1>1, <2>2 DEF Register, TypeOK, countVars, writerVars
    <3>2. Stream(e)' = Stream(e) /\ UNCHANGED <<current, visited, log>>
      BY <3>1 DEF Stream, writerVars, taskVars
    <3>3. counters'[e].dropped >= counters[e].dropped
      BY <3>1, DroppedIsNat DEF TypeOK
    <3> QED BY <3>1, <3>2, <3>3, QuietKeeps
  <2> QED BY <2>1, <2>2
<1>2. CASE (\E l \in Line : Submit(c, l)) \/ ReadUnusable(c)
  <2>1. /\ UNCHANGED <<current, visited, log, clientVars, writerVars>>
        /\ \E f \in DOMAIN NoCounters : counters' = [counters EXCEPT ![c] = Incr(@, f)]
    BY <1>2 DEF Submit, ReadUnusable, taskVars, NoCounters
  <2>2. counters'[e].dropped >= counters[e].dropped
    BY <2>1, DropsGrow
  <2>3. /\ Stream(e)' = Stream(e) /\ status[e] = "registered" /\ writer[e] # "dead"
        /\ joined'[e] = joined[e] /\ filter'[e] = filter[e]
    BY <2>1 DEF Stream, writerVars, clientVars
  <2> QED BY <2>1, <2>2, <2>3, QuietKeeps
<1>3. CASE (\E f \in Filters : FilterCommand(c, f)) \/ Unregister(c)
  <2>1. /\ UNCHANGED <<current, visited, log, joined, writerVars, counters>>
        /\ Locked(e) => filter'[e] = filter[e]
        /\ status[e] = "registered"
    BY <1>3 DEF FilterCommand, Unregister, taskVars, countVars, TypeOK
  <2>2. Stream(e)' = Stream(e) /\ writer[e] # "dead"
    BY <2>1 DEF Stream, writerVars
  <2>3. counters'[e].dropped >= counters[e].dropped
    BY <2>1, DroppedIsNat DEF TypeOK
  <2> QED BY <2>1, <2>2, <2>3, QuietKeeps
<1>4. CASE Hangup(c) \/ WriteFails(c)
  <2>1. /\ e # c
        /\ status[e] = "registered" /\ writer[e] # "dead"
        /\ outbox'[e] = outbox[e] /\ buffer'[e] = buffer[e] /\ wire'[e] = wire[e]
    BY <1>4 DEF Hangup, WriteFails, TypeOK, clientVars
  <2>2. UNCHANGED <<current, visited, log, joined, filter, counters>>
    BY <1>4 DEF Hangup, WriteFails, taskVars, countVars, clientVars
  <2>3. Stream(e)' = Stream(e)
    BY <2>1 DEF Stream
  <2>4. counters'[e].dropped >= counters[e].dropped
    BY <2>2, DroppedIsNat DEF TypeOK
  <2> QED BY <2>1, <2>2, <2>3, <2>4, QuietKeeps
<1>5. CASE Writer(c)
  <2>1. Stream(e)' = Stream(e)
    BY <1>5, MoveStep
  <2>2. /\ UNCHANGED <<taskVars, clientVars, countVars>>
        /\ writer[e] # "dead"
    BY <1>5 DEF Writer, WriteFirst, WriteMore, Flush, TypeOK
  <2>3. /\ UNCHANGED <<current, visited, log, joined, filter, counters>>
        /\ status[e] = "registered"
    BY <2>2 DEF taskVars, clientVars, countVars
  <2>4. counters'[e].dropped >= counters[e].dropped
    BY <2>3, DroppedIsNat DEF TypeOK
  <2> QED BY <2>1, <2>2, <2>3, <2>4, QuietKeeps
<1> QED BY <1>1, <1>2, <1>3, <1>4, <1>5 DEF Reader

(* A line that is refused is due to nobody.                                *)
LEMMA RefuseKeeps ==
  ASSUME DispatchInv, TypeOK', NoSilentLoss, NEW reason, Refuse(reason),
         NEW e \in Client, status[e] = "registered", writer[e] # "dead"
  PROVE  Cardinality(Missed(e)') <= counters'[e].dropped
<1>1. UNCHANGED <<current, visited, log, clientVars, writerVars, counters>>
  BY DEF Refuse
<1>2. Stream(e)' = Stream(e) /\ joined'[e] = joined[e] /\ filter'[e] = filter[e]
  BY <1>1 DEF Stream, writerVars, clientVars
<1>3. counters'[e].dropped >= counters[e].dropped
  BY <1>1 DEF TypeOK, DispatchInv, NoCounters
<1> QED BY <1>1, <1>2, <1>3, QuietKeeps DEF DispatchInv

(* No step loses a line without counting it.                               *)
LEMMA LossStep == DispatchInv /\ NoSilentLoss /\ DispatchInv' /\ [Next]_vars => NoSilentLoss'
<1> SUFFICES ASSUME DispatchInv, NoSilentLoss, DispatchInv', [Next]_vars,
                    NEW e \in Client, status'[e] = "registered", writer'[e] # "dead"
             PROVE  Cardinality(Missed(e)') <= counters'[e].dropped
  BY DEF NoSilentLoss
<1>1. TypeOK /\ TypeOK'
  BY DEF DispatchInv
<1>2. CASE UNCHANGED vars
  <2>1. UNCHANGED <<current, visited, log, joined, filter, counters, status, writerVars>>
    BY <1>2 DEF vars, taskVars, clientVars, countVars
  <2>2. Stream(e)' = Stream(e) /\ writer[e] # "dead" /\ status[e] = "registered"
    BY <2>1 DEF Stream, writerVars
  <2>3. counters'[e].dropped >= counters[e].dropped
    BY <1>1, <2>1 DEF TypeOK, NoCounters
  <2> QED BY <1>1, <2>1, <2>2, <2>3, QuietKeeps
<1>3. ASSUME NEW c \in Client, Reader(c) \/ Writer(c) \/ WriteFails(c)
      PROVE  Cardinality(Missed(e)') <= counters'[e].dropped
  BY <1>1, <1>3, ReaderKeeps
<1>4. CASE DispatchTask
  <2>1. status[e] = "registered" /\ writer[e] # "dead"
    BY <1>4 DEF DispatchTask, Process, RefuseUnverified, RefuseMalformed, RefuseDuplicate,
                RefuseLoop, RefuseOverlong, Refuse, Deliver, Visit, PassOver, Offer, Drop,
                Reach, EndBroadcast, clientVars, writerVars
  <2>2. CASE \E reason : Refuse(reason)
    BY <1>1, <2>1, <2>2, RefuseKeeps
  <2>3. ASSUME NEW c \in Client, Visit(c)
        PROVE  Cardinality(Missed(e)') <= counters'[e].dropped
    BY <1>1, <2>1, <2>3, PassOverKeeps, OfferKeeps, DropKeeps DEF Visit
  <2>4. (\E reason : Refuse(reason)) \/ Deliver \/ (\E c \in Client : Visit(c)) \/ EndBroadcast
    BY <1>4 DEF DispatchTask, Process, RefuseUnverified, RefuseMalformed, RefuseDuplicate,
                RefuseLoop, RefuseOverlong
  <2> QED BY <1>1, <2>1, <2>2, <2>3, <2>4, DeliverKeeps, EndKeeps
<1> QED BY <1>2, <1>3, <1>4 DEF Next

-----------------------------------------------------------------------------
(* The invariant.                                                          *)

(* No step of a reader, a writer or the dispatch task disturbs it.         *)
LEMMA DispatchNextStep == DispatchInv /\ [Next]_vars => DispatchInv'
<1> SUFFICES ASSUME DispatchInv, [Next]_vars
             PROVE  DispatchInv'
  OBVIOUS
<1>1. CASE UNCHANGED vars
  <2>1. TypeOK' /\ QueuesBounded' /\ HeldFilter'
    BY <1>1 DEF vars, taskVars, clientVars, writerVars, countVars, dupeVars,
                DispatchInv, TypeOK, QueuesBounded, HeldFilter, Serial
  <2>2. /\ UNCHANGED <<current, visited, log, dupeVars, writerVars>>
        /\ \A c \in Client : status'[c] = "new" => status[c] = "new"
    BY <1>1 DEF vars, taskVars, clientVars, writerVars, dupeVars
  <2> QED BY <2>1, <2>2, IdleStep
<1>2. ASSUME NEW c \in Client, Reader(c) PROVE DispatchInv'
  BY <1>2, RegisterStep, SubmitStep, ReadUnusableStep, FilterCommandStep,
     WriterGoesStep, UnregisterStep DEF Reader
<1>3. ASSUME NEW c \in Client, Visit(c) PROVE DispatchInv'
  BY <1>3, OfferStep, PassOverStep DEF Visit
<1>4. ASSUME NEW t \in Clock, Checked(t)
      PROVE  Ready /\ \E d \in Digest, u \in Clock : Check(d, u)
  <2>1. Ready /\ queue # <<>> /\ Check(DigestOf[Head1.line], t)
    BY <1>4 DEF Checked, Ready
  <2>2. DigestOf[Head1.line] \in Digest
    BY <2>1, HeadType, DispatchConstants DEF DispatchInv
  <2> QED BY <2>1, <2>2
<1>5. CASE RefuseUnverified
  BY <1>5, RefuseStep DEF RefuseUnverified, NoMetrics
<1>6. CASE RefuseMalformed
  BY <1>6, RefuseStep DEF RefuseMalformed, NoMetrics
<1>7. CASE RefuseDuplicate
  BY <1>4, <1>7, RefuseStep DEF RefuseDuplicate, NoMetrics
<1>8. CASE RefuseLoop
  BY <1>4, <1>8, RefuseStep DEF RefuseLoop, NoMetrics
<1>9. CASE RefuseOverlong
  BY <1>4, <1>9, RefuseStep DEF RefuseOverlong, NoMetrics
<1>10. CASE Next
  BY <1>2, <1>3, <1>5, <1>6, <1>7, <1>8, <1>9, <1>10, DeliverStep,
     EndBroadcastStep, MoveStep, WriterGoesStep
     DEF Next, DispatchTask, Process
<1> QED BY <1>1, <1>10

(* Every reachable state of the packet path is typed, and its channels,    *)
(* streams, history and detector agree as DispatchInv says.                *)
THEOREM DispatchInvariant == Spec => []DispatchInv
<1>1. Init => DispatchInv
  BY InitStep
<1>2. DispatchInv /\ [Next]_vars => DispatchInv'
  BY DispatchNextStep
<1> QED BY <1>1, <1>2, PTL DEF Spec

(* Every variable of the packet path has its type, for any set of clients, *)
(* lines, filters and depth of queue: in particular every serial in a      *)
(* channel names a line that was broadcast.                                *)
THEOREM DispatchTypeCorrect == Spec => []TypeOK
<1>1. DispatchInv => TypeOK
  BY DEF DispatchInv
<1> QED BY <1>1, DispatchInvariant, PTL

(* The dispatch queue and every outbox hold at most the configured depth,  *)
(* however many clients submit and however slowly they read.               *)
THEOREM DispatchQueuesBounded == Spec => []QueuesBounded
<1>1. DispatchInv => QueuesBounded
  BY DEF DispatchInv
<1> QED BY <1>1, DispatchInvariant, PTL

(* Every client's feed is in broadcast order and repeats nothing, however  *)
(* the walk of the registry interleaves with joins, drops and writers.     *)
THEOREM DispatchFeedInOrder == Spec => []FeedInOrder
<1>1. DispatchInv => FeedInOrder
  BY DEF DispatchInv
<1> QED BY <1>1, DispatchInvariant, PTL

(* No connection is sent a packet it submitted.                            *)
THEOREM DispatchNoEcho == Spec => []NoEcho
<1>1. DispatchInv => NoEcho
  BY DEF DispatchInv
<1> QED BY <1>1, DispatchInvariant, PTL

(* Only verified clients inject, only ports with a feed receive, and an    *)
(* igate-port client behind a forced filter receives only what it matches. *)
THEOREM DispatchOnlyEntitled == Spec => []OnlyEntitled
<1>1. DispatchInv => OnlyEntitled
  BY DEF DispatchInv
<1> QED BY <1>1, DispatchInvariant, PTL

(* Two broadcasts of one transmission are more than a window apart, for    *)
(* any window and any digest of lines.                                     *)
THEOREM DispatchNoDuplicates == Spec => []NoDuplicateBroadcast
<1>1. DispatchInv => NoDuplicateBroadcast
  BY DEF DispatchInv
<1> QED BY <1>1, DispatchInvariant, PTL

(* While its writer lives, no client misses a line that was due to it      *)
(* without a drop its own counter shows: however the walk interleaves with *)
(* registrations, filter commands, full outboxes and slow writers.         *)
THEOREM DispatchLosesNothingSilently == Spec => []NoSilentLoss
<1>1. Init => NoSilentLoss
  BY DEF Init, NoSilentLoss
<1>2. DispatchInv /\ DispatchInv' /\ NoSilentLoss /\ [Next]_vars => NoSilentLoss'
  BY LossStep
<1> QED BY <1>1, <1>2, DispatchInvariant, PTL DEF Spec

-----------------------------------------------------------------------------
(* The counters balance: what a step counts for a client is one more pair  *)
(* in a set of pairs, and the server's counters move by as much.           *)

(* One tick more of a client is one pair more.                             *)
LEMMA OneMore ==
  ASSUME NEW f \in [Client -> Nat], NEW c \in Client,
         NEW g \in [Client -> Nat], g[c] = f[c] + 1,
         \A e \in Client \ {c} : g[e] = f[e],
         IsFiniteSet(Ticks(f))
  PROVE  IsFiniteSet(Ticks(g)) /\ Total(g) = Total(f) + 1 /\ Total(f) \in Nat
<1>1. f[c] \in Nat /\ g[c] = f[c] + 1
  OBVIOUS
<1>2. \A p : p \in Ticks(f) <=> \E e \in Client : \E n \in 1 .. f[e] : p = <<e, n>>
  BY DEF Ticks
<1>3. \A p : p \in Ticks(g) <=> \E e \in Client : \E n \in 1 .. g[e] : p = <<e, n>>
  BY DEF Ticks
<1>4. 1 .. g[c] = (1 .. f[c]) \cup {f[c] + 1} /\ f[c] + 1 \notin 1 .. f[c]
  BY <1>1
<1>5. \A e \in Client \ {c} : 1 .. g[e] = 1 .. f[e]
  OBVIOUS
<1>6. ASSUME NEW p PROVE p \in Ticks(g) <=> p \in Ticks(f) \cup {<<c, f[c] + 1>>}
  BY <1>2, <1>3, <1>4, <1>5, Zenon
<1>7. Ticks(g) = Ticks(f) \cup {<<c, f[c] + 1>>}
  BY <1>6
<1>8. <<c, f[c] + 1>> \notin Ticks(f)
  BY <1>2, <1>4
<1> QED BY <1>7, <1>8, FS_AddElement, FS_CardinalityType DEF Total

(* Both totals count finitely many pairs.                                  *)
TotalsFinite == IsFiniteSet(Ticks(Taken)) /\ IsFiniteSet(Ticks(Handed))

(* The types of what is counted.                                           *)
LEMMA TotalsType ==
  ASSUME TypeOK
  PROVE  /\ Taken \in [Client -> Nat] /\ Handed \in [Client -> Nat]
         /\ \A f \in DOMAIN NoMetrics : metrics[f] \in Nat
         /\ Len(log) \in Nat /\ Len(queue) \in Nat
<1>1. \A e \in Client : counters[e] \in [DOMAIN NoCounters -> Nat]
  BY DEF TypeOK
<1>2. \A e \in Client : /\ counters[e].received \in Nat /\ counters[e].dropped \in Nat
                        /\ counters[e].sent \in Nat
  BY <1>1 DEF NoCounters
<1> QED BY <1>2 DEF Taken, Handed, TypeOK

(* Counting one line taken from a client, or dropped on the way to it.     *)
LEMMA TakenGrows ==
  ASSUME TypeOK, TypeOK', TotalsFinite, NEW c \in Client, NEW f \in {"received", "dropped"},
         counters' = [counters EXCEPT ![c] = Incr(@, f)]
  PROVE  /\ TotalsFinite'
         /\ Total(Taken)' = Total(Taken) + 1 /\ Total(Taken) \in Nat
         /\ Total(Handed)' = Total(Handed)
<1>1. \A e \in Client : counters[e] \in [DOMAIN NoCounters -> Nat]
  BY DEF TypeOK
<1>2. /\ counters'[c] = [counters[c] EXCEPT ![f] = @ + 1]
      /\ \A e \in Client \ {c} : counters'[e] = counters[e]
  BY DEF TypeOK, Incr
<1>3. /\ counters'[c].received + counters'[c].dropped
           = counters[c].received + counters[c].dropped + 1
      /\ counters'[c].sent = counters[c].sent
  BY <1>1, <1>2 DEF NoCounters
<1>4. Taken'[c] = Taken[c] + 1 /\ \A e \in Client \ {c} : Taken'[e] = Taken[e]
  BY <1>2, <1>3 DEF Taken
<1>5. Handed' = Handed
  BY <1>2, <1>3 DEF Handed
<1>6. Taken \in [Client -> Nat] /\ Taken' \in [Client -> Nat]
  <2>1. Taken \in [Client -> Nat]
    BY TotalsType
  <2>2. Taken[c] \in Nat /\ \A e \in Client : Taken[e] \in Nat
    BY <2>1
  <2>3. \A e \in Client : Taken'[e] \in Nat
    BY <1>4, <2>2
  <2>4. Taken' = [e \in Client |-> Taken'[e]]
    BY DEF Taken
  <2> QED BY <2>1, <2>3, <2>4
<1>7. /\ IsFiniteSet(Ticks(Taken')) /\ Total(Taken') = Total(Taken) + 1
      /\ Total(Taken) \in Nat
  BY <1>4, <1>6, OneMore DEF TotalsFinite
<1> QED BY <1>5, <1>7 DEF TotalsFinite, Total, Ticks

(* Counting one line put in a client's outbox.                             *)
LEMMA HandedGrows ==
  ASSUME TypeOK, TypeOK', TotalsFinite, NEW c \in Client,
         counters' = [counters EXCEPT ![c] = Incr(@, "sent")]
  PROVE  /\ TotalsFinite'
         /\ Total(Handed)' = Total(Handed) + 1 /\ Total(Handed) \in Nat
         /\ Total(Taken)' = Total(Taken)
<1>1. \A e \in Client : counters[e] \in [DOMAIN NoCounters -> Nat]
  BY DEF TypeOK
<1>2. /\ counters'[c] = [counters[c] EXCEPT !["sent"] = @ + 1]
      /\ \A e \in Client \ {c} : counters'[e] = counters[e]
  BY DEF TypeOK, Incr
<1>3. /\ counters'[c].received + counters'[c].dropped
           = counters[c].received + counters[c].dropped
      /\ counters'[c].sent = counters[c].sent + 1
  BY <1>1, <1>2 DEF NoCounters
<1>4. Handed'[c] = Handed[c] + 1 /\ \A e \in Client \ {c} : Handed'[e] = Handed[e]
  BY <1>2, <1>3 DEF Handed
<1>5. Taken' = Taken
  BY <1>2, <1>3 DEF Taken
<1>6. Handed \in [Client -> Nat] /\ Handed' \in [Client -> Nat]
  <2>1. Handed \in [Client -> Nat]
    BY TotalsType
  <2>2. Handed[c] \in Nat /\ \A e \in Client : Handed[e] \in Nat
    BY <2>1
  <2>3. \A e \in Client : Handed'[e] \in Nat
    BY <1>4, <2>2
  <2>4. Handed' = [e \in Client |-> Handed'[e]]
    BY DEF Handed
  <2> QED BY <2>1, <2>3, <2>4
<1>7. /\ IsFiniteSet(Ticks(Handed')) /\ Total(Handed') = Total(Handed) + 1
      /\ Total(Handed) \in Nat
  BY <1>4, <1>6, OneMore DEF TotalsFinite
<1> QED BY <1>5, <1>7 DEF TotalsFinite, Total, Ticks

(* The refusals are a number, and the count of one refusal is one more.    *)
LEMMA RefusalsGrow ==
  ASSUME NEW m \in [DOMAIN NoMetrics -> Nat], NEW why \in DOMAIN NoMetrics
  PROVE  /\ Incr(m, why) \in [DOMAIN NoMetrics -> Nat]
         /\ Refusals(m) \in Nat
         /\ Incr(m, why).sent = IF why = "sent" THEN m.sent + 1 ELSE m.sent
         /\ Refusals(Incr(m, why)) = IF why \in {"received", "sent"} THEN Refusals(m)
                                     ELSE Refusals(m) + 1
<1>1. \A f \in DOMAIN NoMetrics : Incr(m, why)[f] = IF f = why THEN m[f] + 1 ELSE m[f]
  BY DEF Incr, NoMetrics
<1>2. /\ m.received \in Nat /\ m.unverified \in Nat /\ m.invalid \in Nat
      /\ m.duplicate \in Nat /\ m.rejected \in Nat /\ m.slow \in Nat /\ m.sent \in Nat
  BY DEF NoMetrics
<1>3. /\ Incr(m, why).unverified = IF why = "unverified" THEN m.unverified + 1 ELSE m.unverified
      /\ Incr(m, why).invalid = IF why = "invalid" THEN m.invalid + 1 ELSE m.invalid
      /\ Incr(m, why).duplicate = IF why = "duplicate" THEN m.duplicate + 1 ELSE m.duplicate
      /\ Incr(m, why).rejected = IF why = "rejected" THEN m.rejected + 1 ELSE m.rejected
      /\ Incr(m, why).slow = IF why = "slow" THEN m.slow + 1 ELSE m.slow
      /\ Incr(m, why).sent = IF why = "sent" THEN m.sent + 1 ELSE m.sent
  BY <1>1 DEF NoMetrics
<1>4. why \in {"received", "unverified", "invalid", "duplicate", "rejected", "slow", "sent"}
  BY DEF NoMetrics
<1>5. Refusals(Incr(m, why)) = IF why \in {"received", "sent"} THEN Refusals(m)
                               ELSE Refusals(m) + 1
  <2> HIDE DEF Incr
  <2>1. CASE why \in {"received", "sent"}
    BY <1>3, <2>1 DEF Refusals
  <2>2. CASE why = "unverified"
    BY <1>2, <1>3, <2>2 DEF Refusals
  <2>3. CASE why = "invalid"
    BY <1>2, <1>3, <2>3 DEF Refusals
  <2>4. CASE why = "duplicate"
    BY <1>2, <1>3, <2>4 DEF Refusals
  <2>5. CASE why = "rejected"
    BY <1>2, <1>3, <2>5 DEF Refusals
  <2>6. CASE why = "slow"
    BY <1>2, <1>3, <2>6 DEF Refusals
  <2> QED BY <1>4, <2>1, <2>2, <2>3, <2>4, <2>5, <2>6
<1> QED BY <1>2, <1>3, <1>5, IncrMetrics DEF Refusals

(* A refused line leaves the queue and is counted under its reason.        *)
LEMMA RefuseBalances ==
  ASSUME TypeOK, TotalsFinite, CountersBalance, Ready,
         NEW reason \in {"unverified", "invalid", "duplicate", "rejected"}, Refuse(reason)
  PROVE  TotalsFinite' /\ CountersBalance'
<1>1. /\ queue' = Tail(queue) /\ log' = log /\ counters' = counters
      /\ metrics' = Incr(Incr(metrics, "received"), reason)
  BY DEF Refuse
<1>2. Len(queue') = Len(queue) - 1 /\ Len(queue) \in Nat /\ Len(log) \in Nat
  BY <1>1, HeadType DEF Ready, TypeOK
<1>3. metrics \in [DOMAIN NoMetrics -> Nat] /\ {reason, "received"} \subseteq DOMAIN NoMetrics
  BY DEF TypeOK, NoMetrics
<1>4. /\ Refusals(metrics') = Refusals(metrics) + 1 /\ Refusals(metrics) \in Nat
      /\ metrics'.sent = metrics.sent
  <2>1. PICK m \in [DOMAIN NoMetrics -> Nat] :
          /\ m = Incr(metrics, "received")
          /\ Refusals(m) = Refusals(metrics) /\ m.sent = metrics.sent
    BY <1>3, RefusalsGrow
  <2>2. Refusals(Incr(m, reason)) = Refusals(m) + 1 /\ Incr(m, reason).sent = m.sent
    BY <1>3, RefusalsGrow
  <2>3. Refusals(metrics) \in Nat
    BY <1>3, RefusalsGrow
  <2> QED BY <1>1, <2>1, <2>2, <2>3
<1>5. Taken' = Taken /\ Handed' = Handed
  BY <1>1 DEF Taken, Handed
<1>6. Total(Taken)' = Total(Taken) /\ Total(Handed)' = Total(Handed) /\ TotalsFinite'
  BY <1>5 DEF Total, Ticks, TotalsFinite
<1>7. Len(log') = Len(log)
  BY <1>1
<1> QED BY <1>2, <1>4, <1>6, <1>7 DEF CountersBalance

(* A delivered line leaves the queue for the log.                          *)
LEMMA DeliverBalances ==
  ASSUME TypeOK, TotalsFinite, CountersBalance, Deliver
  PROVE  TotalsFinite' /\ CountersBalance'
<1>1. /\ Ready /\ queue' = Tail(queue) /\ counters' = counters
      /\ metrics' = Incr(metrics, "received")
  BY DEF Deliver, Checked
<1>2. Len(queue') = Len(queue) - 1 /\ Len(queue) \in Nat
  BY <1>1, HeadType DEF Ready
<1>3. /\ Refusals(metrics') = Refusals(metrics) /\ Refusals(metrics) \in Nat
      /\ metrics'.sent = metrics.sent
  <2>1. metrics \in [DOMAIN NoMetrics -> Nat] /\ "received" \in DOMAIN NoMetrics
    BY DEF TypeOK, NoMetrics
  <2> QED BY <1>1, <2>1, RefusalsGrow
<1>4. Len(log') = Len(log) + 1 /\ Len(log) \in Nat
  BY DEF Deliver, TypeOK
<1>5. Taken' = Taken /\ Handed' = Handed
  BY <1>1 DEF Taken, Handed
<1>6. Total(Taken)' = Total(Taken) /\ Total(Handed)' = Total(Handed) /\ TotalsFinite'
  BY <1>5 DEF Total, Ticks, TotalsFinite
<1> QED BY <1>2, <1>3, <1>4, <1>6 DEF CountersBalance

(* One line counted for a client and once by the server, or queued.        *)
LEMMA TakenBalances ==
  ASSUME TypeOK, TypeOK', TotalsFinite, CountersBalance, NEW c \in Client,
         NEW f \in {"received", "dropped"}, log' = log,
         counters' = [counters EXCEPT ![c] = Incr(@, f)],
         \/ metrics' = metrics /\ Len(queue') = Len(queue) + 1
         \/ queue' = queue /\ \E why \in {"slow", "invalid"} : metrics' = Incr(metrics, why)
  PROVE  TotalsFinite' /\ CountersBalance'
<1>1. /\ TotalsFinite' /\ Total(Taken)' = Total(Taken) + 1 /\ Total(Taken) \in Nat
      /\ Total(Handed)' = Total(Handed)
  BY TakenGrows
<1>2. metrics \in [DOMAIN NoMetrics -> Nat] /\ Len(queue) \in Nat /\ Len(log) \in Nat
  BY DEF TypeOK
<1>3. Refusals(metrics) \in Nat /\ {"slow", "invalid"} \subseteq DOMAIN NoMetrics
  BY <1>2, RefusalsGrow DEF NoMetrics
<1>4. CASE metrics' = metrics /\ Len(queue') = Len(queue) + 1
  BY <1>1, <1>2, <1>3, <1>4 DEF CountersBalance
<1>5. ASSUME queue' = queue, NEW why \in {"slow", "invalid"}, metrics' = Incr(metrics, why)
      PROVE  TotalsFinite' /\ CountersBalance'
  <2>1. Refusals(metrics') = Refusals(metrics) + 1 /\ metrics'.sent = metrics.sent
    BY <1>2, <1>3, <1>5, RefusalsGrow
  <2> QED BY <1>1, <1>2, <1>3, <1>5, <2>1 DEF CountersBalance
<1> QED BY <1>4, <1>5

(* One line put in an outbox, counted once by the client and the server.   *)
LEMMA OfferBalances ==
  ASSUME TypeOK, TypeOK', TotalsFinite, CountersBalance, NEW c \in Client, Offer(c)
  PROVE  TotalsFinite' /\ CountersBalance'
<1>1. /\ queue' = queue /\ log' = log /\ metrics' = Incr(metrics, "sent")
      /\ counters' = [counters EXCEPT ![c] = Incr(@, "sent")]
  BY DEF Offer, Reach
<1>2. /\ TotalsFinite' /\ Total(Handed)' = Total(Handed) + 1
      /\ Total(Taken)' = Total(Taken)
  BY <1>1, HandedGrows
<1>3. metrics \in [DOMAIN NoMetrics -> Nat] /\ "sent" \in DOMAIN NoMetrics
  BY DEF TypeOK, NoMetrics
<1>4. Refusals(metrics') = Refusals(metrics) /\ metrics'.sent = metrics.sent + 1
  BY <1>1, <1>3, RefusalsGrow
<1> QED BY <1>1, <1>2, <1>4 DEF CountersBalance

(* Every other step leaves the counters, the log and the queue alone.      *)
LEMMA BalanceStep ==
  TypeOK /\ TypeOK' /\ TotalsFinite /\ CountersBalance /\ [Next]_vars
    => TotalsFinite' /\ CountersBalance'
<1> SUFFICES ASSUME TypeOK, TypeOK', TotalsFinite, CountersBalance, [Next]_vars
             PROVE  TotalsFinite' /\ CountersBalance'
  OBVIOUS
<1>1. ASSUME UNCHANGED <<counters, metrics, log, queue>>
      PROVE  TotalsFinite' /\ CountersBalance'
  BY <1>1 DEF TotalsFinite, CountersBalance, Total, Ticks, Taken, Handed
<1>2. ASSUME NEW c \in Client, NEW l \in Line, Submit(c, l)
      PROVE  TotalsFinite' /\ CountersBalance'
  <2>1. Len(Append(queue, [line |-> l, origin |-> c])) = Len(queue) + 1
    BY DEF TypeOK
  <2> QED BY <1>2, <2>1, TakenBalances DEF Submit
<1>3. ASSUME NEW c \in Client, ReadUnusable(c)
      PROVE  TotalsFinite' /\ CountersBalance'
  BY <1>3, TakenBalances DEF ReadUnusable, taskVars
<1>4. ASSUME NEW c \in Client, Reader(c) \/ Writer(c) \/ WriteFails(c)
      PROVE  TotalsFinite' /\ CountersBalance'
  BY <1>1, <1>2, <1>3, <1>4
     DEF Reader, Register, FilterCommand, Hangup, Unregister, Writer, WriteFirst,
         WriteMore, Flush, WriteFails, taskVars, countVars
<1>5. ASSUME NEW c \in Client, Visit(c)
      PROVE  TotalsFinite' /\ CountersBalance'
  <2>1. CASE PassOver(c)
    BY <1>1, <2>1 DEF PassOver, Reach
  <2>2. CASE Drop(c)
    BY <2>2, TakenBalances DEF Drop, Reach
  <2> QED BY <1>5, <2>1, <2>2, OfferBalances DEF Visit
<1>6. CASE Process
  BY <1>6, RefuseBalances, DeliverBalances
     DEF Process, RefuseUnverified, RefuseMalformed, RefuseDuplicate, RefuseLoop,
         RefuseOverlong, Checked
<1>7. CASE EndBroadcast
  BY <1>1, <1>7 DEF EndBroadcast, countVars
<1>8. CASE UNCHANGED vars
  BY <1>1, <1>8 DEF vars, taskVars, countVars
<1> QED BY <1>4, <1>5, <1>6, <1>7, <1>8 DEF Next, DispatchTask

(* Every line read and every refused delivery is counted exactly once, for *)
(* any number of clients: the clients' counters add up to what the server  *)
(* counted as refused or dropped, plus what is queued and what was logged. *)
THEOREM DispatchCountsOnce == Spec => []CountersBalance
<1>1. Init => TotalsFinite /\ CountersBalance
  <2> SUFFICES ASSUME Init PROVE TotalsFinite /\ CountersBalance
    OBVIOUS
  <2>1. \A e \in Client : Taken[e] = 0 /\ Handed[e] = 0
    BY DEF Init, Taken, Handed, NoCounters
  <2>2. Ticks(Taken) = {} /\ Ticks(Handed) = {}
    BY <2>1 DEF Ticks
  <2>3. Total(Taken) = 0 /\ Total(Handed) = 0 /\ TotalsFinite
    BY <2>2, FS_EmptySet DEF Total, TotalsFinite
  <2> QED BY <2>3 DEF Init, CountersBalance, NoMetrics, Refusals
<1>2. TypeOK /\ TypeOK' /\ TotalsFinite /\ CountersBalance /\ [Next]_vars
        => TotalsFinite' /\ CountersBalance'
  BY BalanceStep
<1> QED BY <1>1, <1>2, DispatchTypeCorrect, PTL DEF Spec

-----------------------------------------------------------------------------
(* The packet path implements the abstract feed.                           *)

(* A sequence that agrees with a shorter one has it as its beginning.      *)
LEMMA BeginsWith ==
  ASSUME NEW S, NEW s \in Seq(S), NEW t \in Seq(S), Len(s) <= Len(t),
         \A i \in 1 .. Len(s) : t[i] = s[i]
  PROVE  SubSeq(t, 1, Len(s)) = s
<1>1. Len(s) \in Nat /\ Len(t) \in Nat
  OBVIOUS
<1>2. SubSeq(t, 1, Len(s)) \in Seq(S) /\ Len(SubSeq(t, 1, Len(s))) = Len(s)
  BY <1>1, SubSeqProperties
<1>3. \A i \in 1 .. Len(s) : SubSeq(t, 1, Len(s))[i] = t[i]
  BY <1>1, SubSeqProperties
<1> QED BY <1>2, <1>3, SeqEqual

-----------------------------------------------------------------------------
(* The steps that broadcast and the steps that send.                       *)

(* What a writer puts on the wire is the next part of its client's stream. *)
LEMMA WireMoves ==
  ASSUME TypeOK, WalkIsNewest, NEW c \in Client, Writer(c), wire' # wire
  PROVE  /\ log' = log
         /\ wire' = [wire EXCEPT ![c] = wire'[c]]
         /\ wire'[c] \in Seq(Serial)
         /\ Len(wire[c]) < Len(wire'[c])
         /\ Len(wire'[c]) <= Len(Stream(c))
         /\ \A i \in 1 .. Len(wire'[c]) : wire'[c][i] = Stream(c)[i]
<1> DEFINE w == wire[c]
           b == buffer[c]
           o == outbox[c]
           S == Serial
<1>0. /\ w \in Seq(S) /\ b \in Seq(S) /\ o \in Seq(S)
      /\ wire \in [Client -> Seq(S)]
      /\ Stream(c) = (w \o b) \o o
  BY DEF TypeOK, Stream
<1>1. log' = log
  BY DEF Writer, WriteFirst, WriteMore, Flush, taskVars
<1>2. PICK m \in Seq(S) :
        /\ wire' = [wire EXCEPT ![c] = w \o m] /\ m # <<>>
        /\ \/ m = b /\ o = <<>>
           \/ b = <<>> /\ o # <<>> /\ m = <<Head(o)>>
  <2>1. CASE WriteFirst(c)
    <3>1. o # <<>> /\ b = <<>> /\ wire' = [wire EXCEPT ![c] = Append(w, Head(o))]
      BY <2>1 DEF WriteFirst, WalkIsNewest
    <3>2. Append(w, Head(o)) = w \o <<Head(o)>> /\ <<Head(o)>> \in Seq(S)
      BY <1>0, <3>1
    <3> QED BY <3>1, <3>2
  <2>2. CASE Flush(c)
    <3>1. o = <<>> /\ wire' = [wire EXCEPT ![c] = w \o b]
      BY <2>2 DEF Flush
    <3>2. b # <<>>
      <4>1. SUFFICES ASSUME b = <<>> PROVE FALSE
        OBVIOUS
      <4>2. w \o b = w
        BY <1>0, <4>1
      <4> QED BY <1>0, <3>1, <4>2
    <3> QED BY <1>0, <3>1, <3>2
  <2>3. ASSUME WriteMore(c) PROVE FALSE
    <3>1. wire' = wire
      BY <2>3 DEF WriteMore
    <3> QED BY <3>1
  <2> QED BY <2>1, <2>2, <2>3 DEF Writer
<1>3. wire'[c] = w \o m
  BY <1>0, <1>2
<1> HIDE DEF w, b, o, S
<1>4. /\ w \o m \in Seq(S) /\ Len(w \o m) = Len(w) + Len(m)
      /\ Len(w) \in Nat /\ Len(m) \in Nat /\ Len(m) > 0 /\ Len(b) \in Nat /\ Len(o) \in Nat
      /\ \A i \in 1 .. Len(w) : (w \o m)[i] = w[i]
      /\ \A i \in Len(w) + 1 .. Len(w) + Len(m) : (w \o m)[i] = m[i - Len(w)]
  <2>1. w \in Seq(S) /\ b \in Seq(S) /\ o \in Seq(S) /\ m \in Seq(S) /\ m # <<>>
    BY <1>0, <1>2, Zenon
  <2>2. /\ Len(w) \in Nat /\ Len(m) \in Nat /\ Len(m) > 0
        /\ Len(b) \in Nat /\ Len(o) \in Nat
    BY <2>1
  <2>3. /\ w \o m \in Seq(S) /\ Len(w \o m) = Len(w) + Len(m)
        /\ \A i \in 1 .. Len(w) + Len(m) :
             (w \o m)[i] = IF i <= Len(w) THEN w[i] ELSE m[i - Len(w)]
    BY <2>1, ConcatProperties, Zenon
  <2> QED BY <2>2, <2>3
<1>5. /\ Len(Stream(c)) = Len(w) + Len(b) + Len(o)
      /\ \A i \in 1 .. Len(w) + Len(b) + Len(o) :
           Stream(c)[i] = IF i <= Len(w) THEN w[i]
                          ELSE IF i <= Len(w) + Len(b) THEN b[i - Len(w)]
                          ELSE o[i - Len(w) - Len(b)]
  BY <1>0, ConcatThree
<1>6. /\ Len(w \o m) <= Len(Stream(c))
      /\ \A i \in 1 .. Len(w \o m) : (w \o m)[i] = Stream(c)[i]
  <2>1. CASE m = b /\ o = <<>>
    BY <1>4, <1>5, <2>1
  <2>2. CASE b = <<>> /\ o # <<>> /\ m = <<Head(o)>>
    <3>1. Len(b) = 0 /\ Len(m) = 1 /\ Len(o) >= 1 /\ m[1] = o[1]
      BY <1>0, <2>2
    <3> QED BY <1>4, <1>5, <3>1
  <2> QED BY <1>2, <2>1, <2>2
<1>7. Len(w) < Len(w \o m)
  BY <1>4
<1> QED BY <1>1, <1>2, <1>3, <1>4, <1>6, <1>7 DEF w, S

(* A writer's step is a stutter, or its client receives more of the log.   *)
LEMMA WriterReceives ==
  ASSUME DispatchInv, NEW c \in Client, Writer(c), wire' # wire
  PROVE  Promised!Receive(c)
<1> DEFINE after == wire'[c]
<1>1. /\ log' = log
      /\ wire' = [wire EXCEPT ![c] = after]
      /\ after \in Seq(Serial)
      /\ Len(wire[c]) < Len(after)
      /\ Len(after) <= Len(Stream(c))
      /\ \A i \in 1 .. Len(after) : after[i] = Stream(c)[i]
  BY WireMoves DEF DispatchInv
<1>2. /\ wire[c] \in Seq(Serial)
      /\ Stream(c) \in Seq(Serial)
      /\ \A i \in 1 .. Len(wire[c]) : Stream(c)[i] = wire[c][i]
  BY StreamType DEF DispatchInv
<1>3. Len(wire[c]) \in Nat /\ Len(after) \in Nat /\ Len(Stream(c)) \in Nat
  BY <1>1, <1>2
<1> HIDE DEF after
<1>4. SubSeq(after, 1, Len(wire[c])) = wire[c]
  BY <1>1, <1>2, <1>3, BeginsWith
<1>5. ASSUME NEW i \in Len(wire[c]) + 1 .. Len(after)
      PROVE  Promised!MaySend(c, after[i]) /\ (i > 1 => after[i] > after[i - 1])
  <2>1. i \in 1 .. Len(Stream(c)) /\ i \in 1 .. Len(after)
    BY <1>1, <1>3, <1>5
  <2>2. after[i] = Stream(c)[i] /\ after[i] \in 1 .. Len(log)
    BY <1>1, <2>1, ElementOfSeq DEF Serial
  <2>3. log[after[i]].origin # c
    BY <2>1, <2>2 DEF DispatchInv, NoEcho
  <2>4. /\ Kind[c] \in {"FullFeed", "Igate"}
        /\ Kind[c] = "Igate" /\ c \in Held => log[after[i]].line \in Forced[c]
    <3>1. Stream(c) # <<>>
      BY <2>1
    <3> QED BY <2>1, <2>2, <3>1 DEF DispatchInv, OnlyEntitled
  <2>5. log[after[i]].line \in Line
    BY <2>2, LogType DEF DispatchInv
  <2>6. Promised!MaySend(c, after[i])
    BY <2>2, <2>3, <2>4, <2>5 DEF Promised!MaySend
  <2>7. i > 1 => after[i] > after[i - 1]
    <3>1. SUFFICES ASSUME i > 1 PROVE after[i] > after[i - 1]
      OBVIOUS
    <3>2. i - 1 \in 1 .. Len(after) /\ i - 1 \in 1 .. Len(Stream(c)) /\ i - 1 < i
      BY <1>3, <2>1, <3>1
    <3>3. after[i - 1] = Stream(c)[i - 1]
      BY <1>1, <3>2
    <3>4. Stream(c)[i - 1] < Stream(c)[i]
      BY <2>1, <3>2 DEF DispatchInv, FeedInOrder
    <3>5. after[i - 1] \in Int /\ after[i] \in Int
      BY <1>1, <2>1, <3>2, ElementOfSeq DEF Serial
    <3> QED BY <2>2, <3>3, <3>4, <3>5
  <2> QED BY <2>6, <2>7
<1> QED BY <1>1, <1>3, <1>4, <1>5 DEF Promised!Receive, after

(* A delivery of the dispatch task is a broadcast of the abstract feed.    *)
LEMMA DeliverBroadcasts ==
  ASSUME DispatchInv, DispatchInv', Deliver
  PROVE  Promised!Broadcast
<1> DEFINE newest == [line |-> Head1.line, origin |-> Head1.origin, second |-> now']
           n == Len(log)
<1>1. /\ log' = Append(log, newest) /\ wire' = wire
      /\ Verified[Head1.origin] /\ queue # <<>>
  BY DEF Deliver, Checked, Ready, writerVars
<1>2. Head1.line \in Line /\ Head1.origin \in Client
  BY <1>1, HeadType DEF DispatchInv
<1>3. log \in Seq([line : Line, origin : Client, second : Nat])
  BY DEF DispatchInv, TypeOK
<1> HIDE DEF newest
<1>4. /\ n \in Nat /\ Len(log') = n + 1 /\ log'[n + 1] = newest
      /\ \A i \in 1 .. n : log'[i] = log[i]
  <2>1. newest \in [line : Line, origin : Client, second : Nat]
    <3>1. now' \in Nat
      BY DEF DispatchInv, TypeOK
    <3> QED BY <1>2, <3>1 DEF newest
  <2> QED BY <1>1, <1>3, <2>1, AppendProperties
<1>5. ASSUME NEW i \in 1 .. n, DigestOf[log[i].line] = DigestOf[newest.line]
      PROVE  newest.second - log[i].second > Span
  <2>1. i \in 1 .. Len(log') /\ n + 1 \in 1 .. Len(log') /\ i < n + 1
    BY <1>4
  <2>2. log'[i] = log[i] /\ log'[n + 1] = newest
    BY <1>4
  <2>3. NoDuplicateBroadcast'
    BY DEF DispatchInv
  <2>4. log'[n + 1].second - log'[i].second > Span
    BY <1>5, <2>1, <2>2, <2>3 DEF NoDuplicateBroadcast, Serial
  <2> QED BY <2>2, <2>4
<1>6. newest.line \in Line /\ newest.origin \in {c \in Client : Verified[c]}
  BY <1>1, <1>2 DEF newest
<1> QED BY <1>1, <1>4, <1>5, <1>6 DEF Promised!Broadcast

-----------------------------------------------------------------------------

(* Every other step leaves the log and the wires as they are.              *)
LEMMA FeedStep ==
  ASSUME DispatchInv, DispatchInv', [Next]_vars
  PROVE  [Promised!FeedNext]_Promised!feedVars
<1>1. ASSUME UNCHANGED <<log, wire>> PROVE UNCHANGED Promised!feedVars
  BY <1>1 DEF Promised!feedVars
<1>2. CASE UNCHANGED vars
  BY <1>1, <1>2 DEF vars, taskVars, writerVars
<1>3. ASSUME NEW c \in Client, Reader(c) \/ WriteFails(c) \/ Visit(c)
      PROVE  UNCHANGED <<log, wire>>
  BY <1>3 DEF Reader, Register, Submit, ReadUnusable, FilterCommand, Hangup, Unregister,
              WriteFails, Visit, PassOver, Offer, Drop, Reach, taskVars, writerVars
<1>4. ASSUME NEW c \in Client, Writer(c)
      PROVE  Promised!FeedNext \/ UNCHANGED <<log, wire>>
  <2>1. log' = log
    BY <1>4 DEF Writer, WriteFirst, WriteMore, Flush, taskVars
  <2> QED BY <1>4, <2>1, WriterReceives DEF Promised!FeedNext
<1>5. ASSUME RefuseUnverified \/ RefuseMalformed \/ RefuseDuplicate \/ RefuseLoop
               \/ RefuseOverlong \/ EndBroadcast
      PROVE  UNCHANGED <<log, wire>>
  BY <1>5 DEF RefuseUnverified, RefuseMalformed, RefuseDuplicate, RefuseLoop,
              RefuseOverlong, Refuse, EndBroadcast, writerVars
<1>6. CASE Deliver
  BY <1>6, DeliverBroadcasts DEF Promised!FeedNext
<1>7. CASE Next
  BY <1>1, <1>3, <1>4, <1>5, <1>6, <1>7 DEF Next, DispatchTask, Process
<1> QED BY <1>2, <1>7

(* With its queues, its unlocked walk of the registry and its writers the  *)
(* packet path shows every client what the abstract feed promises: one     *)
(* log, received in order, from which nothing it may not have arrives.     *)
THEOREM DispatchImplementsFeed == Spec => ImplementsFeed
<1>1. Init => Promised!FeedInit
  BY DEF Init, Promised!FeedInit
<1>2. DispatchInv /\ DispatchInv' /\ [Next]_vars => [Promised!FeedNext]_Promised!feedVars
  BY FeedStep
<1> QED BY <1>1, <1>2, DispatchInvariant, PTL DEF Spec, ImplementsFeed, Promised!FeedSpec
=============================================================================
