--------------------------- MODULE PositionStore ---------------------------
(***************************************************************************)
(* Station positions: the PositionCache that dispatch writes, the          *)
(* station_position table behind it (aprsr-store/src/lib.rs), and the two  *)
(* tasks that copy the one into the other: `maintain` every minute         *)
(* (aprsr/src/commands.rs) and Server::run once, at the end of a shutdown  *)
(* (aprsr-server/src/lib.rs).  Both run Store::save_positions, which       *)
(* awaits the database twice for every station; the tasks interleave there *)
(* and the process may die there.                                          *)
(*                                                                         *)
(* The database runs one statement at a time and refuses a second row for  *)
(* a callsign (external: SQLite or PostgreSQL through sea-orm).  A         *)
(* position is abstracted to the time of its report and a place; symbols   *)
(* travel with the place.                                                  *)
(***************************************************************************)
EXTENDS Integers, FiniteSets

CONSTANTS
  Station,      \* callsigns, upper-cased
  Place,        \* what a report says
  MaxTime,      \* bound: times the wall clock shows
  MaxMishaps    \* bound: crashes, failing statements and failing loads

NoStation == ""     \* no callsign: Callsign::parse refuses the empty one

ASSUME PositionStoreConstants ==
  /\ NoStation \notin Station
  /\ MaxTime \in Nat
  /\ MaxMishaps \in Nat

Saver == {"maintain", "run"}

Time == 1 .. MaxTime
Nowhere == [heard |-> 0, place |-> {}]       \* no entry, no row
Entry == [heard : Time, place : Place] \cup {Nowhere}

VARIABLES
  now,          \* now_secs, the wall clock
  main,         \* "running", "stopping", "saving", "saved", "exited"
  cache,        \* PositionCache: Station -> Entry
  row,          \* the table: Station -> Entry
  pass,         \* Saver -> "idle", "saving", "failed" or "ended"
  taken,        \* Saver -> the snapshot its pass writes
  todo,         \* Saver -> stations its pass has not come to
  at,           \* Saver -> the station it asked for, if any
  existed,      \* Saver -> whether that station had a row when asked
  alone,        \* history: Saver -> whether no other pass overlapped its pass
  checkpoint,   \* history: Station -> the row its last undisturbed pass left,
                \* or the last start of the process found
  unread,       \* history: Station -> the row the last start could not load
  mishaps       \* how often the process died, a statement or a load failed

saverVars == <<pass, taken, todo, at, existed, alone>>
historyVars == <<checkpoint, unread>>
vars == <<now, main, cache, row, saverVars, historyVars, mishaps>>

-----------------------------------------------------------------------------

Init ==
  /\ now \in Time
  /\ main = "running"
  /\ cache = [s \in Station |-> Nowhere]
  /\ row = cache
  /\ pass = [w \in Saver |-> "idle"]
  /\ taken = [w \in Saver |-> cache]
  /\ todo = [w \in Saver |-> {}]
  /\ at = [w \in Saver |-> NoStation]
  /\ existed = [w \in Saver |-> FALSE]
  /\ alone = [w \in Saver |-> TRUE]
  /\ checkpoint = row
  /\ unread = cache
  /\ mishaps = 0

(* now_secs reads the wall clock, which may be set back.                   *)
Clock ==
  /\ now' \in Time \ {now}
  /\ UNCHANGED <<main, cache, row, saverVars, historyVars, mishaps>>

(* record, called by dispatch::process for a packet with a position.  A    *)
(* report later than the clock stays.                                      *)
RecordAlways(s, place) ==    \* mutant
  /\ main \in {"running", "stopping"}
  /\ cache' = [cache EXCEPT ![s] = [heard |-> now, place |-> place]]
  /\ UNCHANGED <<now, main, row, saverVars, historyVars, mishaps>>

Record(s, place) ==
  /\ main \in {"running", "stopping"}
  /\ cache[s].heard <= now
  /\ cache' = [cache EXCEPT ![s] = [heard |-> now, place |-> place]]
  /\ UNCHANGED <<now, main, row, saverVars, historyVars, mishaps>>

-----------------------------------------------------------------------------
(* save_positions.                                                         *)

Saving == {w \in Saver : pass[w] = "saving"}

Cached == {s \in Station : cache[s] # Nowhere}

Start(w) ==
  /\ pass' = [pass EXCEPT ![w] = "saving"]
  /\ taken' = [taken EXCEPT ![w] = cache]
  /\ todo' = [todo EXCEPT ![w] = Cached]
  /\ alone' = [v \in Saver |-> IF v = w THEN Saving \ {w} = {}
                               ELSE alone[v] /\ v \notin Saving]
  /\ UNCHANGED <<now, cache, row, at, existed, historyVars, mishaps>>

(* find(...).one(...)                                                      *)
Ask(w, s) ==
  /\ pass[w] = "saving"
  /\ at[w] = NoStation
  /\ s \in todo[w]
  /\ todo' = [todo EXCEPT ![w] = @ \ {s}]
  /\ at' = [at EXCEPT ![w] = s]
  /\ existed' = [existed EXCEPT ![w] = row[s] # Nowhere]
  /\ UNCHANGED <<now, main, cache, row, pass, taken, alone, historyVars,
                 mishaps>>

(* update, or insert                                                       *)
WriteNothing(w) ==    \* mutant: known stations are not updated
  /\ pass[w] = "saving"
  /\ at[w] # NoStation
  /\ row' = IF existed[w] THEN row ELSE [row EXCEPT ![at[w]] = taken[w][at[w]]]
  /\ at' = [at EXCEPT ![w] = NoStation]
  /\ UNCHANGED <<now, main, cache, pass, taken, todo, existed, alone,
                 historyVars, mishaps>>

Write(w) ==
  /\ pass[w] = "saving"
  /\ at[w] # NoStation
  /\ existed[w] \/ row[at[w]] = Nowhere
  /\ row' = [row EXCEPT ![at[w]] = taken[w][at[w]]]
  /\ at' = [at EXCEPT ![w] = NoStation]
  /\ UNCHANGED <<now, main, cache, pass, taken, todo, existed, alone,
                 historyVars, mishaps>>

(* The `?` on a statement: the rest of the pass is not written.            *)
GiveUp(w) ==
  /\ pass' = [pass EXCEPT ![w] = "failed"]
  /\ at' = [at EXCEPT ![w] = NoStation]
  /\ todo' = [todo EXCEPT ![w] = {}]
  /\ UNCHANGED <<now, main, cache, row, taken, existed, alone, historyVars>>

InsertRefused(w) ==
  /\ pass[w] = "saving"
  /\ at[w] # NoStation
  /\ ~ existed[w] /\ row[at[w]] # Nowhere
  /\ GiveUp(w)
  /\ UNCHANGED mishaps

DatabaseFails(w) ==
  /\ mishaps < MaxMishaps
  /\ pass[w] = "saving"
  /\ at[w] # NoStation \/ todo[w] # {}
  /\ GiveUp(w)
  /\ mishaps' = mishaps + 1

Finish(w) ==
  /\ pass[w] = "saving"
  /\ at[w] = NoStation
  /\ todo[w] = {}
  /\ pass' = [pass EXCEPT ![w] = "ended"]
  /\ LET settled == {s \in Station : alone[w] /\ taken[w][s] # Nowhere} IN
     /\ checkpoint' = [s \in Station |->
                         IF s \in settled THEN taken[w][s] ELSE checkpoint[s]]
     /\ unread' = [s \in Station |-> IF s \in settled THEN Nowhere ELSE unread[s]]
  /\ UNCHANGED <<now, main, cache, row, taken, todo, at, existed, alone,
                 mishaps>>

-----------------------------------------------------------------------------
(* maintain: a pass at every tick, until its select! takes the shutdown.   *)

Tick ==
  /\ main # "exited"
  /\ pass["maintain"] \in {"idle", "failed", "ended"}
  /\ Start("maintain")
  /\ UNCHANGED main

(* Server::run: everything is heard before the last save.                  *)
Shutdown ==
  /\ main = "running"
  /\ main' = "stopping"
  /\ UNCHANGED <<now, cache, row, saverVars, historyVars, mishaps>>

SaveEarly ==    \* mutant: the dispatch task is not waited for
  /\ main = "stopping"
  /\ pass["run"] = "idle"
  /\ Start("run")
  /\ UNCHANGED main

LastSave ==
  /\ main = "stopping"
  /\ main' = "saving"
  /\ Start("run")

RunReturns ==
  /\ main = "saving"
  /\ pass["run"] # "saving"
  /\ main' = "saved"
  /\ UNCHANGED <<now, cache, row, saverVars, historyVars, mishaps>>

(* The process ends wherever its passes are; a statement is atomic.        *)
Die ==
  /\ main' = "exited"
  /\ pass' = [w \in Saver |-> IF pass[w] = "saving" THEN "failed" ELSE pass[w]]
  /\ at' = [w \in Saver |-> NoStation]
  /\ todo' = [w \in Saver |-> {}]
  /\ UNCHANGED <<now, cache, row, taken, existed, alone, historyVars>>

(* maintenance.abort() drops the pass of maintain, and main returns.       *)
Exit == main = "saved" /\ Die /\ UNCHANGED mishaps

(* The process is killed.                                                  *)
Crash ==
  /\ mishaps < MaxMishaps
  /\ main # "exited"
  /\ Die
  /\ mishaps' = mishaps + 1

(* Server::bind loads the positions, or starts cold when it cannot.        *)
Loaded ==
  /\ cache' = row
  /\ unread' = [s \in Station |-> Nowhere]
  /\ UNCHANGED mishaps

Cold ==
  /\ mishaps < MaxMishaps
  /\ cache' = [s \in Station |-> Nowhere]
  /\ unread' = row
  /\ mishaps' = mishaps + 1

Restart ==
  /\ main = "exited"
  /\ main' = "running"
  /\ Loaded \/ Cold
  /\ pass' = [w \in Saver |-> "idle"]
  /\ taken' = [w \in Saver |-> [s \in Station |-> Nowhere]]
  /\ existed' = [w \in Saver |-> FALSE]
  /\ alone' = [w \in Saver |-> TRUE]
  /\ checkpoint' = row
  /\ UNCHANGED <<now, row, todo, at>>

-----------------------------------------------------------------------------

Step(w) == (\E s \in Station : Ask(w, s)) \/ Write(w) \/ InsertRefused(w) \/ Finish(w)

Next ==
  \/ Clock
  \/ \E s \in Station, place \in Place : Record(s, place)
  \/ \E w \in Saver : Step(w) \/ DatabaseFails(w)
  \/ Tick \/ Shutdown \/ LastSave \/ RunReturns \/ Exit \/ Restart \/ Crash

Spec == Init /\ [][Next]_vars

(* The interval keeps ticking and the tasks of the runtime are polled;     *)
(* the database fails only so often.                                       *)
FairSpec ==
  Spec /\ WF_vars(Tick) /\ \A w \in Saver : WF_vars(Step(w))

-----------------------------------------------------------------------------

TypeOK ==
  /\ now \in Time
  /\ main \in {"running", "stopping", "saving", "saved", "exited"}
  /\ cache \in [Station -> Entry]
  /\ row \in [Station -> Entry]
  /\ pass \in [Saver -> {"idle", "saving", "failed", "ended"}]
  /\ taken \in [Saver -> [Station -> Entry]]
  /\ todo \in [Saver -> SUBSET Station]
  /\ at \in [Saver -> Station \cup {NoStation}]
  /\ \A w \in Saver \ Saving : at[w] = NoStation /\ todo[w] = {}
  /\ existed \in [Saver -> BOOLEAN]
  /\ alone \in [Saver -> BOOLEAN]
  /\ checkpoint \in [Station -> Entry]
  /\ unread \in [Station -> Entry]
  /\ mishaps \in 0 .. MaxMishaps

(* A crash costs at most what was heard since the last pass: whatever the  *)
(* two tasks, the clock and the database do, no station's row is ever      *)
(* older than what the last pass that ran alone left.  The exception is a  *)
(* station whose row a start could not load and which has been heard       *)
(* again: record has nothing to compare with, so under a clock set back a  *)
(* pass replaces the row by an older report.                               *)
CheckpointHolds ==
  \A s \in Station :
    \/ row[s].heard >= checkpoint[s].heard
    \/ unread[s] # Nowhere /\ cache[s] # Nowhere

(* What the process serves is never older than what it would find after a  *)
(* crash, but for rows it could not load and has not written since.        *)
CacheLeadsTable ==
  \A s \in Station : cache[s].heard >= row[s].heard \/ row[s] = unread[s]

(* A shutdown whose last save no pass of maintain overlapped loses         *)
(* nothing: from when it has saved, every station heard or loaded is in    *)
(* the table as it is in the cache, and a row that could not be loaded     *)
(* stays unless its station has been heard since.                          *)
QuietShutdownSaves ==
  pass["run"] = "ended" /\ alone["run"] =>
    \A s \in Station :
      row[s] = IF cache[s] # Nowhere THEN cache[s] ELSE unread[s]

(* What the three properties above rest on.  A snapshot is never behind    *)
(* the checkpoint while it is written, nor ahead of the cache.             *)
SnapshotsFollow ==
  /\ \A w \in Saver, s \in Station : taken[w][s].heard <= cache[s].heard
  /\ \A w \in Saving, s \in Station :
       taken[w][s].heard >= checkpoint[s].heard \/ unread[s] # Nowhere
  /\ \A w \in Saver, s \in Station :
       s \in todo[w] \/ s = at[w] => taken[w][s] # Nowhere

(* A row that was not loaded stays until its station is heard.             *)
UnreadStays ==
  \A s \in Station :
    unread[s] # Nowhere /\ cache[s] = Nowhere => row[s] = unread[s]

(* While a pass is alone the rows it is through with are its snapshot.     *)
AloneWrites ==
  \A w \in Saving :
    alone[w] =>
      /\ Saving = {w}
      /\ \A s \in Station \ (todo[w] \cup {at[w]}) :
           taken[w][s] # Nowhere => row[s] = taken[w][s]

(* The last save begins when nothing can be heard any more, so every pass  *)
(* from then on writes the cache as it stays.                              *)
LastSaveFollows ==
  /\ main \in {"running", "stopping"} => pass["run"] = "idle"
  /\ main \in {"saved", "exited"} => pass["run"] # "saving"
  /\ main = "exited" => Saving = {}
  /\ pass["run"] # "idle" => taken["run"] = cache
  /\ pass["run"] = "ended" /\ alone["run"] /\ pass["maintain"] = "saving"
       => taken["maintain"] = cache

PositionsInv ==
  /\ TypeOK
  /\ CheckpointHolds /\ CacheLeadsTable /\ QuietShutdownSaves
  /\ SnapshotsFollow /\ UnreadStays /\ AloneWrites /\ LastSaveFollows

(* A station heard is in the table after some later pass, whatever passes  *)
(* failed or were refused before it, unless the server stops or a crash    *)
(* takes the report from the cache.                                        *)
HeardIsSaved ==
  \A s \in Station, t \in Time :
    cache[s].heard = t
      ~> row[s].heard >= t \/ main # "running" \/ cache[s].heard < t

-----------------------------------------------------------------------------
(* What the repository says of itself and the code does not do.            *)

(* "the database behind it is the durable copy, loaded at startup and      *)
(* written back every minute" (docs/architecture.md): a shutdown whose     *)
(* save succeeded leaves the positions in it.                              *)
ShutdownSaves ==
  main = "exited" /\ pass["run"] = "ended" =>
    \A s \in Cached : row[s] = cache[s]
=============================================================================
