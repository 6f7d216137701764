-------------------------------- MODULE Feed --------------------------------
(***************************************************************************)
(* What aprsr promises its clients, without the queues, the tasks and the  *)
(* walk of the registry that Dispatch has: one log of the lines broadcast, *)
(* which each client receives from in the order of the log, a part at a    *)
(* time, perhaps with gaps, and nothing twice.                             *)
(***************************************************************************)
EXTENDS Integers, Sequences

CONSTANTS
  Client,
  Line,
  DigestOf,     \* Line -> what the duplicate detector compares
  Span,         \* seconds within which a digest is not broadcast again
  MayInject,    \* the clients whose lines are broadcast
  MayReceive    \* Client -> the lines it may be sent

VARIABLES
  log,          \* [line, origin, second] of each line broadcast
  received      \* Client -> the serials in the log of what it received

feedVars == <<log, received>>

FeedInit ==
  /\ log = <<>>
  /\ received = [c \in Client |-> <<>>]

(* A line of a client that may inject goes into the log, unless the log    *)
(* has the same transmission from within the window.                       *)
Broadcast ==
  LET newest == log'[Len(log) + 1] IN
  /\ Len(log') = Len(log) + 1
  /\ log' = Append(log, newest)
  /\ newest.line \in Line
  /\ newest.origin \in MayInject
  /\ \A i \in 1 .. Len(log) :
       DigestOf[log[i].line] = DigestOf[newest.line]
         => newest.second - log[i].second > Span
  /\ UNCHANGED received

MaySend(c, i) ==
  /\ i \in 1 .. Len(log)
  /\ log[i].origin # c
  /\ log[i].line \in MayReceive[c]

(* The client receives more of the log: later lines than it has, in order. *)
Receive(c) ==
  /\ Len(received'[c]) > Len(received[c])
  /\ SubSeq(received'[c], 1, Len(received[c])) = received[c]
  /\ \A i \in Len(received[c]) + 1 .. Len(received'[c]) :
       /\ MaySend(c, received'[c][i])
       /\ i > 1 => received'[c][i] > received'[c][i - 1]
  /\ received' = [received EXCEPT ![c] = received'[c]]
  /\ UNCHANGED log

FeedNext == Broadcast \/ \E c \in Client : Receive(c)

FeedSpec == FeedInit /\ [][FeedNext]_feedVars
=============================================================================
