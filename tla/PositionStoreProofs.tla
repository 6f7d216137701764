------------------------ MODULE PositionStoreProofs -------------------------
(***************************************************************************)
(* The position store keeps its promises for every set of stations, every  *)
(* clock, any number of crashes, failing statements and failing loads, and  *)
(* every order of the statements of the two tasks that save.               *)
(***************************************************************************)
EXTENDS PositionStore, TLAPS

(* Nothing heard is older than anything heard.                             *)
LEMMA HeardType ==
  ASSUME NEW e \in Entry
  PROVE  e.heard \in Nat /\ (e.heard = 0 => e = Nowhere)
<1>1. CASE e = Nowhere
  BY <1>1 DEF Nowhere
<1>2. CASE e \in [heard : Time, place : Place]
  BY <1>2, PositionStoreConstants DEF Time
<1> QED
  BY <1>1, <1>2 DEF Entry

(* Every entry of the five tables has a time.                              *)
LEMMA TableTypes ==
  ASSUME TypeOK, NEW s \in Station
  PROVE  /\ cache[s] \in Entry /\ row[s] \in Entry /\ checkpoint[s] \in Entry
         /\ unread[s] \in Entry /\ unread[s].heard \in Nat
         /\ cache[s].heard \in Nat /\ row[s].heard \in Nat /\ checkpoint[s].heard \in Nat
         /\ \A w \in Saver : taken[w][s] \in Entry /\ taken[w][s].heard \in Nat
<1>1. /\ cache[s] \in Entry /\ row[s] \in Entry /\ checkpoint[s] \in Entry
      /\ unread[s] \in Entry
      /\ \A w \in Saver : taken[w][s] \in Entry
  BY DEF TypeOK
<1> QED
  BY <1>1, HeardType

(* No entry is older than every entry.                                     *)
LEMMA NowhereType == Nowhere \in Entry /\ Nowhere.heard = 0
BY DEF Nowhere, Entry

(* Only a report that was heard has a time, and what a snapshot holds the  *)
(* cache holds too.                                                        *)
LEMMA TakenIsCached ==
  ASSUME PositionsInv, NEW w \in Saver, NEW s \in Station, taken[w][s] # Nowhere
  PROVE  cache[s] # Nowhere
<1>1. /\ taken[w][s] \in Entry /\ taken[w][s].heard \in Nat
      /\ taken[w][s].heard <= cache[s].heard
  BY TableTypes DEF PositionsInv, SnapshotsFollow
<1>2. taken[w][s].heard # 0
  BY <1>1, HeardType
<1> QED
  BY <1>1, <1>2, NowhereType

(* The cache is behind a row only while that row could not be loaded.      *)
LEMMA CacheLeadsRead ==
  ASSUME PositionsInv, NEW s \in Station, unread[s] = Nowhere
  PROVE  cache[s].heard >= row[s].heard
BY NowhereType, TableTypes DEF PositionsInv, CacheLeadsTable

-----------------------------------------------------------------------------

(* The process starts with an empty cache and table.                       *)
LEMMA InvInit == Init => PositionsInv
<1> SUFFICES ASSUME Init PROVE PositionsInv
  OBVIOUS
<1>1. TypeOK
  BY NowhereType, PositionStoreConstants DEF Init, TypeOK, Saving
<1>2. CheckpointHolds /\ CacheLeadsTable /\ QuietShutdownSaves
  BY NowhereType DEF Init, CheckpointHolds, CacheLeadsTable, QuietShutdownSaves, Saver
<1>3. SnapshotsFollow /\ UnreadStays /\ AloneWrites /\ LastSaveFollows
  BY NowhereType, PositionStoreConstants
  DEF Init, SnapshotsFollow, UnreadStays, AloneWrites, LastSaveFollows, Saving, Saver
<1> QED
  BY <1>1, <1>2, <1>3 DEF PositionsInv

(* Entries stay what they are when the clock is set.                       *)
LEMMA ClockStep == PositionsInv /\ Clock => PositionsInv'
BY DEF Clock, PositionsInv, TypeOK, CheckpointHolds, CacheLeadsTable, QuietShutdownSaves,
       SnapshotsFollow, UnreadStays, AloneWrites, LastSaveFollows, Saving, saverVars,
       historyVars

(* The clock may be set back, but a report never replaces a later one.     *)
LEMMA RecordStep ==
  ASSUME PositionsInv, NEW s \in Station, NEW place \in Place, Record(s, place)
  PROVE  PositionsInv'
<1> USE DEF PositionsInv
<1>1. TypeOK'
  <2>1. [heard |-> now, place |-> place] \in Entry
    BY DEF TypeOK, Entry
  <2> QED
    BY <2>1 DEF Record, TypeOK, saverVars, historyVars, Saving
<1>2. \A t \in Station : /\ cache'[t].heard >= cache[t].heard
                         /\ cache[t] # Nowhere => cache'[t] # Nowhere
  <2> SUFFICES ASSUME NEW t \in Station
               PROVE  /\ cache'[t].heard >= cache[t].heard
                      /\ cache[t] # Nowhere => cache'[t] # Nowhere
    OBVIOUS
  <2>1. now \in Nat /\ now > 0
    BY PositionStoreConstants DEF TypeOK, Time
  <2>2. [heard |-> now, place |-> place] # Nowhere
    BY <2>1, NowhereType
  <2> QED
    BY <2>1, <2>2, TableTypes DEF TypeOK, Record
<1>3. \A t \in Station : cache'[t].heard \in Nat
  BY <1>1, HeardType DEF TypeOK
<1>4. CacheLeadsTable' /\ SnapshotsFollow'
  BY <1>2, <1>3, TableTypes
  DEF Record, CacheLeadsTable, SnapshotsFollow, saverVars, historyVars, Saving
<1>5. CheckpointHolds' /\ UnreadStays'
  BY <1>2 DEF Record, CheckpointHolds, UnreadStays, historyVars
<1>6. LastSaveFollows' /\ QuietShutdownSaves'
  BY DEF Record, LastSaveFollows, QuietShutdownSaves, saverVars
<1> QED
  BY <1>1, <1>4, <1>5, <1>6 DEF Record, AloneWrites, saverVars, Saving

(* A pass begins with a snapshot of the cache.  It is alone if the other   *)
(* task is not saving, and from then on that one is not.                   *)
LEMMA StartStep ==
  ASSUME PositionsInv, NEW w \in Saver, Start(w), pass[w] # "saving",
         main # "exited",
         main' \in {"running", "stopping", "saving", "saved", "exited"},
         \/ w = "maintain" /\ UNCHANGED main
         \/ w = "run" /\ main' = "saving"
  PROVE  PositionsInv'
<1> USE DEF PositionsInv
<1>1. Saving' = Saving \cup {w}
  BY DEF TypeOK, Start, Saving
<1>2. TypeOK'
  <2>1. /\ pass' \in [Saver -> {"idle", "saving", "failed", "ended"}]
        /\ taken' \in [Saver -> [Station -> Entry]]
        /\ todo' \in [Saver -> SUBSET Station]
        /\ alone' \in [Saver -> BOOLEAN]
    BY DEF TypeOK, Start, Cached
  <2>2. \A v \in Saver \ Saving' : at'[v] = NoStation /\ todo'[v] = {}
    BY <1>1 DEF TypeOK, Start
  <2> QED
    BY <2>1, <2>2 DEF TypeOK, Start, historyVars
<1>3. CheckpointHolds' /\ CacheLeadsTable' /\ UnreadStays'
  BY DEF Start, CheckpointHolds, CacheLeadsTable, UnreadStays, historyVars
<1>4. \A s \in Station : cache[s].heard >= checkpoint[s].heard \/ unread[s] # Nowhere
  BY TableTypes, CacheLeadsRead DEF CheckpointHolds
<1>5. SnapshotsFollow'
  <2>1. at[w] = NoStation
    BY DEF TypeOK, Saving
  <2>2. \A v \in Saver, s \in Station :
          s \in todo'[v] \/ s = at'[v] => taken'[v][s] # Nowhere
    BY <2>1, PositionStoreConstants DEF TypeOK, Start, SnapshotsFollow, Cached
  <2>3. /\ \A v \in Saver, s \in Station : taken'[v][s].heard <= cache'[s].heard
        /\ \A v \in Saving', s \in Station :
             taken'[v][s].heard >= checkpoint'[s].heard \/ unread'[s] # Nowhere
    BY <1>1, <1>4, TableTypes DEF TypeOK, Start, SnapshotsFollow, historyVars
  <2> QED
    BY <2>2, <2>3 DEF SnapshotsFollow
<1>6. AloneWrites'
  <2>1. ASSUME NEW v \in Saving', alone'[v]
        PROVE  /\ Saving' = {v}
               /\ \A s \in Station \ (todo'[v] \cup {at'[v]}) :
                    taken'[v][s] # Nowhere => row'[s] = taken'[v][s]
    <3>1. v \in Saver /\ (v = w \/ v \in Saving)
      BY <1>1, <2>1 DEF Saving
    <3>2. CASE v # w
      <4>1. alone'[v] = (alone[v] /\ v \notin Saving)
        BY <3>1, <3>2 DEF Start
      <4> QED
        BY <2>1, <3>1, <3>2, <4>1
    <3>3. CASE v = w
      <4>1. alone'[v] = (Saving \ {w} = {})
        BY <3>1, <3>3 DEF Start
      <4>2. Saving \ {w} = {}
        BY <2>1, <4>1
      <4>3. Saving' = {v}
        BY <1>1, <3>3, <4>2
      <4> QED
        BY <3>3, <4>3 DEF TypeOK, Start, Cached
    <3> QED
      BY <3>2, <3>3
  <2> QED
    BY <2>1 DEF AloneWrites
<1>7. LastSaveFollows'
  BY DEF TypeOK, Start, LastSaveFollows, Saver
<1>8. QuietShutdownSaves'
  BY DEF TypeOK, Start, QuietShutdownSaves, Saver, Saving, historyVars
<1> QED
  BY <1>2, <1>3, <1>5, <1>6, <1>7, <1>8

(* A question to the table changes no row.                                 *)
LEMMA AskStep ==
  ASSUME PositionsInv, NEW w \in Saver, NEW s \in Station, Ask(w, s)
  PROVE  PositionsInv'
<1> USE DEF PositionsInv
<1>1. Saving' = Saving /\ w \in Saving
  BY DEF Ask, Saving
<1>2. TypeOK'
  BY <1>1 DEF TypeOK, Ask, historyVars
<1>3. AloneWrites'
  BY <1>1, PositionStoreConstants DEF TypeOK, Ask, AloneWrites
<1>4. SnapshotsFollow'
  BY <1>1, PositionStoreConstants DEF TypeOK, Ask, SnapshotsFollow, historyVars
<1> QED
  BY <1>1, <1>2, <1>3, <1>4 DEF Ask, CheckpointHolds, CacheLeadsTable, UnreadStays,
                               QuietShutdownSaves, LastSaveFollows, historyVars

(* A statement writes what the snapshot has, which is no later than the    *)
(* cache and no older than the checkpoint, but for a row not loaded.       *)
LEMMA WriteStep ==
  ASSUME PositionsInv, NEW w \in Saver, Write(w)
  PROVE  PositionsInv'
<1> USE DEF PositionsInv
<1>0. /\ at[w] \in Station /\ w \in Saving
      /\ taken[w][at[w]] # Nowhere
  BY DEF TypeOK, Write, Saving, SnapshotsFollow
<1>1. Saving' = Saving
  BY DEF Write, Saving
<1>2. TypeOK'
  BY <1>0, <1>1 DEF TypeOK, Write, historyVars
<1>3. \A s \in Station : row'[s] = IF s = at[w] THEN taken[w][s] ELSE row[s]
  BY <1>0 DEF TypeOK, Write
<1>4. CheckpointHolds'
  BY <1>0, <1>3, TakenIsCached DEF Write, CheckpointHolds, SnapshotsFollow, historyVars
<1>5. CacheLeadsTable'
  BY <1>0, <1>3 DEF Write, CacheLeadsTable, SnapshotsFollow, historyVars
<1>6. UnreadStays'
  BY <1>0, <1>3, TakenIsCached DEF Write, UnreadStays, historyVars
<1>7. SnapshotsFollow'
  BY <1>1, PositionStoreConstants DEF TypeOK, Write, SnapshotsFollow, historyVars
<1>8. AloneWrites'
  <2> SUFFICES ASSUME NEW v \in Saving', alone'[v]
               PROVE  /\ Saving' = {v}
                      /\ \A s \in Station \ (todo'[v] \cup {at'[v]}) :
                           taken'[v][s] # Nowhere => row'[s] = taken'[v][s]
    BY DEF AloneWrites
  <2>1. v = w /\ Saving' = {v}
    BY <1>0, <1>1 DEF AloneWrites, Write
  <2> QED
    BY <1>0, <1>3, <2>1 DEF TypeOK, AloneWrites, Write
<1>9. QuietShutdownSaves'
  <2> SUFFICES ASSUME pass["run"] = "ended", alone["run"], NEW s \in Station
               PROVE  row'[s] = IF cache[s] # Nowhere THEN cache[s] ELSE unread[s]
    BY DEF Write, QuietShutdownSaves, historyVars
  <2>1. w = "maintain" /\ taken[w] = cache
    BY <1>0 DEF Saver, Saving, LastSaveFollows, Write
  <2>2. row[s] = IF cache[s] # Nowhere THEN cache[s] ELSE unread[s]
    BY DEF QuietShutdownSaves
  <2> QED
    BY <1>0, <1>3, <2>1, <2>2
<1> QED
  BY <1>1, <1>2, <1>4, <1>5, <1>6, <1>7, <1>8, <1>9 DEF Write, LastSaveFollows

(* A pass that fails leaves what it has written and takes no checkpoint.   *)
LEMMA GiveUpStep ==
  ASSUME PositionsInv, NEW w \in Saver, GiveUp(w), mishaps' \in 0 .. MaxMishaps,
         pass[w] = "saving"
  PROVE  PositionsInv'
<1> USE DEF PositionsInv
<1>1. Saving' = Saving \ {w}
  BY DEF TypeOK, GiveUp, Saving
<1>2. TypeOK'
  BY <1>1 DEF TypeOK, GiveUp, historyVars
<1>3. AloneWrites'
  BY <1>1 DEF TypeOK, GiveUp, AloneWrites, Saving
<1>4. QuietShutdownSaves' /\ LastSaveFollows'
  BY <1>1 DEF TypeOK, GiveUp, QuietShutdownSaves, LastSaveFollows, Saver, historyVars
<1>5. SnapshotsFollow'
  BY <1>1, PositionStoreConstants DEF TypeOK, GiveUp, SnapshotsFollow, historyVars
<1> QED
  BY <1>2, <1>3, <1>4, <1>5
  DEF GiveUp, CheckpointHolds, CacheLeadsTable, UnreadStays, historyVars

(* A pass that ends alone has written its snapshot: the new checkpoint is  *)
(* in the table, and no other pass is under way that could set it back.    *)
LEMMA FinishStep ==
  ASSUME PositionsInv, NEW w \in Saver, Finish(w)
  PROVE  PositionsInv'
<1> USE DEF PositionsInv
<1> DEFINE settled == {s \in Station : alone[w] /\ taken[w][s] # Nowhere}
<1>0. \A s \in Station :
        /\ checkpoint'[s] = IF s \in settled THEN taken[w][s] ELSE checkpoint[s]
        /\ unread'[s] = IF s \in settled THEN Nowhere ELSE unread[s]
  BY DEF Finish
<1>1. Saving' = Saving \ {w} /\ w \in Saving
  BY DEF TypeOK, Finish, Saving
<1>2. ASSUME NEW s \in settled
      PROVE  /\ s \in Station /\ row[s] = taken[w][s]
             /\ cache[s] # Nowhere /\ cache[s].heard >= row[s].heard
  <2>1. s \notin todo[w] \cup {at[w]}
    BY PositionStoreConstants DEF Finish
  <2>2. row[s] = taken[w][s]
    BY <1>1, <2>1 DEF AloneWrites
  <2> QED
    BY <2>2, TakenIsCached, TableTypes DEF SnapshotsFollow
<1>3. TypeOK'
  <2>1. checkpoint' \in [Station -> Entry] /\ unread' \in [Station -> Entry]
    BY NowhereType DEF TypeOK, Finish
  <2> QED
    BY <1>1, <2>1 DEF TypeOK, Finish
<1> HIDE DEF settled
<1>4. CheckpointHolds'
  BY <1>0, <1>2, TableTypes DEF Finish, CheckpointHolds
<1>5. CacheLeadsTable' /\ UnreadStays'
  BY <1>0, <1>2 DEF Finish, CacheLeadsTable, UnreadStays
<1>6. SnapshotsFollow'
  <2>1. ASSUME NEW v \in Saving', NEW s \in Station
        PROVE  taken[v][s].heard >= checkpoint'[s].heard \/ unread'[s] # Nowhere
    <3>1. v \in Saving /\ v # w /\ ~ alone[w]
      BY <1>1, <2>1 DEF AloneWrites
    <3>2. s \notin settled
      BY <3>1 DEF settled
    <3> QED
      BY <1>0, <3>1, <3>2 DEF SnapshotsFollow
  <2> QED
    BY <2>1 DEF Finish, SnapshotsFollow
<1>7. AloneWrites'
  BY <1>1 DEF TypeOK, Finish, AloneWrites
<1>8. LastSaveFollows'
  <2>1. alone[w] => Saving = {w}
    BY <1>1 DEF AloneWrites
  <2> QED
    BY <1>1, <2>1 DEF TypeOK, Finish, LastSaveFollows, Saving, Saver
<1>9. QuietShutdownSaves'
  <2> SUFFICES ASSUME pass'["run"] = "ended", alone["run"], NEW s \in Station
               PROVE  row[s] = IF cache[s] # Nowhere THEN cache[s] ELSE unread'[s]
    BY DEF Finish, QuietShutdownSaves
  <2>1. CASE w = "maintain"
    <3>1. row[s] = IF cache[s] # Nowhere THEN cache[s] ELSE unread[s]
      BY <2>1 DEF TypeOK, Finish, QuietShutdownSaves, Saver
    <3> QED
      BY <1>0, <1>2, <3>1
  <2>2. CASE w = "run"
    <3>1. taken[w] = cache /\ (s \in settled <=> cache[s] # Nowhere)
      BY <2>2 DEF Finish, LastSaveFollows, settled
    <3>2. CASE s \in settled
      BY <1>2, <3>1, <3>2
    <3>3. CASE s \notin settled
      <4>1. cache[s] = Nowhere /\ unread'[s] = unread[s]
        BY <1>0, <3>1, <3>3
      <4>2. row[s] = unread[s]
        <5>1. CASE unread[s] = Nowhere
          BY <4>1, <5>1, CacheLeadsRead, NowhereType, TableTypes, HeardType
        <5> QED
          BY <4>1, <5>1 DEF UnreadStays
      <4> QED
        BY <4>1, <4>2
    <3> QED
      BY <3>2, <3>3
  <2> QED
    BY <2>1, <2>2 DEF Saver
<1> QED
  BY <1>3, <1>4, <1>5, <1>6, <1>7, <1>8, <1>9

(* run hears of the shutdown, and returns.                                 *)
LEMMA RunStep ==
  ASSUME PositionsInv, Shutdown \/ RunReturns
  PROVE  PositionsInv'
BY DEF Shutdown, RunReturns, PositionsInv, TypeOK, CheckpointHolds, CacheLeadsTable,
       QuietShutdownSaves, SnapshotsFollow, UnreadStays, AloneWrites, LastSaveFollows, Saving,
       saverVars, historyVars

(* However the process ends, its passes end where they are.                *)
LEMMA DieStep ==
  ASSUME PositionsInv, Die, mishaps' \in 0 .. MaxMishaps
  PROVE  PositionsInv'
<1> USE DEF PositionsInv
<1>1. Saving' = {}
  BY DEF Die, Saving
<1>2. TypeOK'
  BY <1>1 DEF TypeOK, Die, historyVars
<1>3. AloneWrites'
  BY <1>1 DEF AloneWrites
<1>4. QuietShutdownSaves' /\ LastSaveFollows'
  BY <1>1 DEF TypeOK, Die, QuietShutdownSaves, LastSaveFollows, Saver, historyVars
<1>5. SnapshotsFollow'
  BY <1>1, PositionStoreConstants DEF TypeOK, Die, SnapshotsFollow, historyVars
<1> QED
  BY <1>2, <1>3, <1>4, <1>5
  DEF Die, CheckpointHolds, CacheLeadsTable, UnreadStays, historyVars

(* A new process serves what the table has, or knows what it could not     *)
(* load; the table is what it must keep.                                   *)
LEMMA RestartStep ==
  ASSUME PositionsInv, Restart
  PROVE  PositionsInv'
<1> USE DEF PositionsInv
<1>1. Saving' = {} /\ row' = row /\ checkpoint' = row
  BY DEF Restart, Saving
<1>2. \A w \in Saver, s \in Station : taken'[w][s] = Nowhere
  BY DEF Restart
<1>3. /\ cache' \in [Station -> Entry] /\ unread' \in [Station -> Entry]
      /\ mishaps' \in 0 .. MaxMishaps
      /\ \A s \in Station : \/ cache'[s] = row[s] /\ unread'[s] = Nowhere
                            \/ cache'[s] = Nowhere /\ unread'[s] = row[s]
  BY NowhereType, PositionStoreConstants DEF TypeOK, Restart, Loaded, Cold
<1>4. TypeOK'
  <2>1. /\ taken' \in [Saver -> [Station -> Entry]]
        /\ pass' \in [Saver -> {"idle", "saving", "failed", "ended"}]
        /\ existed' \in [Saver -> BOOLEAN]
        /\ alone' \in [Saver -> BOOLEAN]
        /\ checkpoint' \in [Station -> Entry]
        /\ main' = "running"
    BY NowhereType DEF TypeOK, Restart
  <2>2. \A w \in Saver : at'[w] = NoStation /\ todo'[w] = {}
    BY DEF TypeOK, Restart, LastSaveFollows
  <2> QED
    BY <1>3, <2>1, <2>2 DEF TypeOK, Restart
<1>5. CheckpointHolds' /\ CacheLeadsTable' /\ UnreadStays'
  BY <1>1, <1>3, TableTypes DEF CheckpointHolds, CacheLeadsTable, UnreadStays
<1>6. SnapshotsFollow'
  <2>1. \A w \in Saver, s \in Station : ~ (s \in todo'[w] \/ s = at'[w])
    <3>1. Saving = {}
      BY DEF Restart, LastSaveFollows
    <3> QED
      BY <3>1, PositionStoreConstants DEF TypeOK, Restart, Saving
  <2>2. \A s \in Station : cache'[s].heard >= 0
    BY <1>3, NowhereType, TableTypes
  <2> QED
    BY <1>1, <1>2, <2>1, <2>2, NowhereType DEF SnapshotsFollow
<1>7. QuietShutdownSaves' /\ LastSaveFollows' /\ AloneWrites'
  BY <1>1 DEF Restart, QuietShutdownSaves, LastSaveFollows, AloneWrites, Saver
<1> QED
  BY <1>4, <1>5, <1>6, <1>7

(* No step of a task, the clock, the database or the operator disturbs it. *)
LEMMA InvStep == PositionsInv /\ [Next]_vars => PositionsInv'
<1> SUFFICES ASSUME PositionsInv, [Next]_vars PROVE PositionsInv'
  OBVIOUS
<1>1. ASSUME NEW w \in Saver, Step(w) PROVE PositionsInv'
  <2>1. CASE InsertRefused(w)
    BY <2>1, GiveUpStep DEF InsertRefused, PositionsInv, TypeOK
  <2> QED
    BY <1>1, <2>1, AskStep, WriteStep, FinishStep DEF Step
<1>2. ASSUME NEW w \in Saver, DatabaseFails(w) PROVE PositionsInv'
  BY <1>2, GiveUpStep, PositionStoreConstants DEF DatabaseFails, PositionsInv, TypeOK
<1>3. ASSUME Tick PROVE PositionsInv'
  BY <1>3, StartStep DEF Tick, PositionsInv, TypeOK, Saver
<1>4. ASSUME LastSave PROVE PositionsInv'
  BY <1>4, StartStep DEF LastSave, PositionsInv, LastSaveFollows, Saver
<1>5. ASSUME Exit \/ Crash PROVE PositionsInv'
  BY <1>5, DieStep, PositionStoreConstants DEF Exit, Crash, PositionsInv, TypeOK
<1>6. ASSUME UNCHANGED vars PROVE PositionsInv'
  BY <1>6 DEF vars, PositionsInv, TypeOK, CheckpointHolds, CacheLeadsTable,
              QuietShutdownSaves, SnapshotsFollow, UnreadStays, AloneWrites, LastSaveFollows,
              Saving, saverVars, historyVars
<1> QED
  BY <1>1, <1>2, <1>3, <1>4, <1>5, <1>6, ClockStep, RecordStep, RunStep, RestartStep DEF Next

(* Snapshots lie between the checkpoint and the cache, a pass that is      *)
(* alone has written what it is through with, the last save writes a cache *)
(* that no longer changes, and what could not be loaded is overwritten     *)
(* only by what was heard since: in every reachable state.                 *)
THEOREM PositionsInvariant == Spec => []PositionsInv
BY InvInit, InvStep, PTL DEF Spec

(* The state is always what the variables' comments say.                   *)
THEOREM TypesHold == Spec => []TypeOK
<1>1. PositionsInv => TypeOK
  BY DEF PositionsInv
<1> QED
  BY <1>1, PositionsInvariant, PTL

(* Once a pass of save_positions has run undisturbed no row is ever older  *)
(* than what it left, whatever overlaps, fails or crashes afterwards, but  *)
(* for a station that is heard again after a start failed to load its row. *)
THEOREM CheckpointsHold == Spec => []CheckpointHolds
<1>1. PositionsInv => CheckpointHolds
  BY DEF PositionsInv
<1> QED
  BY <1>1, PositionsInvariant, PTL

(* A restart never finds a report later than the one that was served: the  *)
(* cache is at least as recent as the table for every station, except for  *)
(* a row that the last start could not load and nothing has replaced.      *)
THEOREM CacheLeads == Spec => []CacheLeadsTable
<1>1. PositionsInv => CacheLeadsTable
  BY DEF PositionsInv
<1> QED
  BY <1>1, PositionsInvariant, PTL

(* After a last save that no pass of maintain overlapped the table has     *)
(* every station of the cache as the cache has it, and of the others the   *)
(* rows that could not be loaded, whatever maintain still writes.          *)
THEOREM QuietShutdowns == Spec => []QuietShutdownSaves
<1>1. PositionsInv => QuietShutdownSaves
  BY DEF PositionsInv
<1> QED
  BY <1>1, PositionsInvariant, PTL
=============================================================================
