--------------------------- MODULE SessionsProofs ---------------------------
(***************************************************************************)
(* Connections and the shutdown are safe for every number of connections   *)
(* and listeners, every cap, every login line and every order of the steps *)
(* of the tasks, and a login is what its line says by the grammar of one.  *)
(***************************************************************************)
EXTENDS Sessions, FiniteSetTheorems, WellFoundedInduction, SequenceTheorems, TLAPS

(* How a login that parses ends.                                           *)
LEMMA VerifyType ==
  ASSUME NEW word, NEW presented PROVE Verify(word, presented) \in Accepted
BY DEF Verify, Accepted

(* A registration says what it said as long as its request and login stay. *)
LEMMA SameRegistration ==
  ASSUME NEW c \in Conn, request'[c] = request[c], login'[c] = login[c]
  PROVE  Registration(c)' = Registration(c)
BY DEF Registration

(* Clients stay as requested while nobody logs in or registers.            *)
LEMMA SameClients ==
  ASSUME ClientsAsRequested, UNCHANGED <<said, request, login, client>>
  PROVE  ClientsAsRequested'
BY SameRegistration DEF ClientsAsRequested

-----------------------------------------------------------------------------
(* Types.                                                                  *)

(* The gauge has room for every connection.                                *)
LEMMA ModulusPositive == GaugeModulus \in Nat \ {0}
BY SessionsConstants, FS_CardinalityType

(* The server starts with its types.                                       *)
LEMMA TypeInit == Init => TypeOK
<1> SUFFICES ASSUME Init PROVE TypeOK
  OBVIOUS
<1>1. ClientsAsRequested
  BY DEF Init, ClientsAsRequested
<1>2. gauge \in 0 .. GaugeModulus - 1 /\ registry \in SUBSET Conn /\ slow \in SUBSET Conn
  BY SessionsConstants, FS_CardinalityType DEF Init
<1>3. /\ lines \in 0 .. MaxLines /\ submitted \in Nat /\ processed \in 0 .. submitted
      /\ saved \in Nat \cup {NotSaved} /\ rejected \in Nat
  BY SessionsConstants DEF Init
<1>4. /\ pc \in [Conn -> Position] /\ age \in [Conn -> 0 .. LoginTimeout]
      /\ noise \in [Conn -> 0 .. MaxNoise]
      /\ totals \in [Conn -> Nat] /\ traffic \in [Conn -> Nat]
  BY SessionsConstants DEF Init, Position
<1> QED
  BY <1>1, <1>2, <1>3, <1>4 DEF Init, TypeOK

(* Steps that only move a connection.                                      *)
LEMMA TypeMove ==
  ASSUME TypeOK, NEW c \in Conn, NEW to \in Position, Go(c, to),
         UNCHANGED <<handshakeVars, clientVars, writerVars, lineVars, runVars>>
  PROVE  TypeOK'
<1>1. ClientsAsRequested'
  BY SameClients DEF TypeOK, handshakeVars, clientVars
<1>2. pc' \in [Conn -> Position]
  BY DEF TypeOK, Go
<1> QED
  BY <1>1, <1>2 DEF TypeOK, handshakeVars, clientVars, writerVars, lineVars, runVars

(* Every step keeps them.                                                  *)
LEMMA TypeStep ==
  ASSUME TypeOK, LoginFirst, [Next]_vars
  PROVE  TypeOK'
<1> USE SessionsConstants
<1>1. ASSUME NEW c \in Conn, Accept(c) PROVE TypeOK'
  BY <1>1, TypeMove DEF Accept, Position, Go, Full
<1>2. ASSUME NEW c \in Conn, CheckCap(c) PROVE TypeOK'
  BY <1>2, TypeMove DEF CheckCap, Position, Go, Full
<1>3. ASSUME NEW c \in Conn, WriteBanner(c) PROVE TypeOK'
  BY <1>3, TypeMove DEF WriteBanner, Position, Go, Full
<1>4. ASSUME NEW c \in Conn, HandshakeFails(c) PROVE TypeOK'
  BY <1>4, TypeMove DEF HandshakeFails, Position, Go, Full
<1>5. ASSUME NEW c \in Conn, EndService(c) PROVE TypeOK'
  BY <1>5, TypeMove DEF EndService, Position, Go, Full
<1>6. ASSUME NEW c \in Conn, Part(c) PROVE TypeOK'
  BY <1>6, TypeMove DEF Part, Position, Go, Full
<1>7. ASSUME NEW l \in Listener, StopAccepting(l) PROVE TypeOK'
  <2>1. ClientsAsRequested'
    BY <1>7, SameClients DEF TypeOK, StopAccepting, handshakeVars, clientVars
  <2> QED
    BY <1>7, <2>1 DEF TypeOK, StopAccepting, handshakeVars, clientVars, writerVars, lineVars
<1>8. ASSUME NEW c \in Conn, Wait(c) \/ Noise(c) PROVE TypeOK'
  <2>1. ClientsAsRequested'
    BY <1>8, SameClients DEF TypeOK, Wait, Noise, handshakeVars, clientVars
  <2>2. age' \in [Conn -> 0 .. LoginTimeout] /\ noise' \in [Conn -> 0 .. MaxNoise]
    BY <1>8 DEF TypeOK, Wait, Noise
  <2> QED
    BY <1>8, <2>1, <2>2 DEF TypeOK, Wait, Noise, handshakeVars, clientVars, writerVars, lineVars, runVars
<1>9. ASSUME NEW c \in Conn, NEW line \in FirstLine, LogIn(c, line) PROVE TypeOK'
  <2>1. PICK asked \in ParseLogin(line.words) :
          /\ request' = [request EXCEPT ![c] = asked]
          /\ login' = [login EXCEPT ![c] = Verify(asked.callsign, asked.passcode)]
    BY <1>9 DEF LogIn
  <2>2. login' \in [Conn -> {"none"} \cup Accepted \cup Refused]
    BY <2>1, VerifyType DEF TypeOK
  <2>3. said' \in [Conn -> FirstLine \cup {NoLine}]
    BY <1>9 DEF TypeOK, LogIn, Say
  <2>4. pc' \in [Conn -> Position]
    BY <1>9 DEF TypeOK, LogIn, Go, Position
  <2>5. ClientsAsRequested'
    <3>0. DOMAIN request' = Conn /\ DOMAIN client' = Conn
      BY <2>1, <1>9 DEF TypeOK, LogIn, clientVars, ClientsAsRequested
    <3> SUFFICES ASSUME NEW d \in Conn
                 PROVE  /\ request'[d] \in {NoRequest} \cup ParseLogin(said'[d].words)
                        /\ client'[d] # NoClient => client'[d] = Registration(d)'
      BY <3>0 DEF ClientsAsRequested
    <3>1. CASE d = c
      BY <3>1, <1>9, <2>1 DEF TypeOK, LoginFirst, LogIn, Say, clientVars, ClientsAsRequested
    <3>2. CASE d # c
      BY <3>2, <1>9, <2>1, SameRegistration
         DEF TypeOK, LoginFirst, LogIn, Say, clientVars, ClientsAsRequested
    <3> QED
      BY <3>1, <3>2
  <2> QED
    BY <1>9, <2>2, <2>3, <2>4, <2>5
       DEF TypeOK, LogIn, handshakeVars, clientVars, writerVars, lineVars, runVars
<1>10. ASSUME NEW c \in Conn, NEW line \in FirstLine, Malformed(c, line) PROVE TypeOK'
  <2>1. ClientsAsRequested'
    <3>0. DOMAIN request' = Conn /\ DOMAIN client' = Conn
      BY <1>10 DEF TypeOK, Malformed, Refuse, clientVars, ClientsAsRequested
    <3> SUFFICES ASSUME NEW d \in Conn
                 PROVE  /\ request'[d] \in {NoRequest} \cup ParseLogin(said'[d].words)
                        /\ client'[d] # NoClient => client'[d] = Registration(d)'
      BY <3>0 DEF ClientsAsRequested
    <3>1. CASE d = c
      BY <3>1, <1>10 DEF TypeOK, LoginFirst, Malformed, Refuse, Say, clientVars, ClientsAsRequested
    <3>2. CASE d # c
      BY <3>2, <1>10, SameRegistration
         DEF TypeOK, LoginFirst, Malformed, Refuse, Say, clientVars, ClientsAsRequested
    <3> QED
      BY <3>1, <3>2
  <2>2. pc' \in [Conn -> Position] /\ login' \in [Conn -> {"none"} \cup Accepted \cup Refused]
    BY <1>10 DEF TypeOK, Malformed, Refuse, Go, Position, Refused
  <2>3. said' \in [Conn -> FirstLine \cup {NoLine}]
    BY <1>10 DEF TypeOK, Malformed, Say
  <2> QED
    BY <1>10, <2>1, <2>2, <2>3
       DEF TypeOK, Malformed, Refuse, clientVars, writerVars, lineVars, runVars
<1>11. ASSUME NEW c \in Conn, LeavesEarly(c) \/ LoginTimesOut(c) PROVE TypeOK'
  <2>0. Refuse(c, "silent") /\ UNCHANGED said
    BY <1>11 DEF LeavesEarly, LoginTimesOut
  <2>1. ClientsAsRequested'
    <3>0. DOMAIN request' = Conn /\ DOMAIN client' = Conn
      BY <2>0 DEF TypeOK, Refuse, clientVars, ClientsAsRequested
    <3> SUFFICES ASSUME NEW d \in Conn
                 PROVE  /\ request'[d] \in {NoRequest} \cup ParseLogin(said'[d].words)
                        /\ client'[d] # NoClient => client'[d] = Registration(d)'
      BY <3>0 DEF ClientsAsRequested
    <3>1. CASE d = c
      BY <3>1, <2>0 DEF TypeOK, LoginFirst, Refuse, clientVars, ClientsAsRequested
    <3>2. CASE d # c
      BY <3>2, <2>0, SameRegistration
         DEF TypeOK, LoginFirst, Refuse, clientVars, ClientsAsRequested
    <3> QED
      BY <3>1, <3>2
  <2>2. pc' \in [Conn -> Position] /\ login' \in [Conn -> {"none"} \cup Accepted \cup Refused]
    BY <2>0 DEF TypeOK, Refuse, Go, Position, Refused
  <2> QED
    BY <2>0, <2>1, <2>2 DEF TypeOK, Refuse, clientVars, writerVars, lineVars, runVars
<1>12. ASSUME NEW c \in Conn, Acknowledge(c) PROVE TypeOK'
  <2>1. ClientsAsRequested'
    BY <1>12, SameClients DEF TypeOK, Acknowledge, clientVars
  <2>2. pc' \in [Conn -> Position] /\ rejected' \in Nat
    BY <1>12 DEF TypeOK, Acknowledge, Go, Position
  <2> QED
    BY <1>12, <2>1, <2>2 DEF TypeOK, Acknowledge, clientVars, writerVars, lineVars, runVars
<1>13. ASSUME NEW c \in Conn, OpenRow(c) PROVE TypeOK'
  <2>1. ClientsAsRequested'
    BY <1>13, SameClients DEF TypeOK, OpenRow, handshakeVars
  <2>2. pc' \in [Conn -> Position] /\ row' \in [Conn -> {"none", "open", "closed"}]
    BY <1>13 DEF TypeOK, OpenRow, Go, Position
  <2> QED
    BY <1>13, <2>1, <2>2 DEF TypeOK, OpenRow, handshakeVars, writerVars, lineVars, runVars
<1>14. ASSUME NEW c \in Conn, Insert(c) PROVE TypeOK'
  <2>1. ClientsAsRequested'
    BY <1>14, SameRegistration DEF TypeOK, Insert, handshakeVars, ClientsAsRequested
  <2>2. pc' \in [Conn -> Position] /\ registry' \in SUBSET Conn
    BY <1>14 DEF TypeOK, Insert, Go, Position
  <2> QED
    BY <1>14, <2>1, <2>2 DEF TypeOK, Insert, handshakeVars, writerVars, lineVars, runVars
<1>15. ASSUME NEW c \in Conn, Count(c) PROVE TypeOK'
  <2>1. ClientsAsRequested'
    BY <1>15, SameClients DEF TypeOK, Count, handshakeVars
  <2>2. pc' \in [Conn -> Position]
    BY <1>15 DEF TypeOK, Count, Go, Position
  <2>3. gauge' \in 0 .. GaugeModulus - 1
    BY <1>15, ModulusPositive DEF TypeOK, Count
  <2>4. writer' \in [Conn -> {"none", "running", "failed", "farewell", "aborted"}]
    BY <1>15 DEF TypeOK, Count
  <2> QED
    BY <1>15, <2>1, <2>2, <2>3, <2>4 DEF TypeOK, Count, handshakeVars, lineVars, runVars
<1>16. ASSUME NEW c \in Conn, Receive(c) PROVE TypeOK'
  <2>1. ClientsAsRequested'
    BY <1>16, SameClients DEF TypeOK, Receive, handshakeVars, clientVars
  <2>2. /\ lines' \in 0 .. MaxLines /\ submitted' \in Nat /\ processed' \in 0 .. submitted'
        /\ traffic' \in [Conn -> Nat]
    BY <1>16 DEF TypeOK, Receive, Bump, Depth
  <2> QED
    BY <1>16, <2>1, <2>2 DEF TypeOK, Receive, handshakeVars, clientVars, writerVars, runVars
<1>17. ASSUME NEW c \in Conn, ClientGoes(c) \/ SeeShutdown(c) PROVE TypeOK'
  <2>1. PICK why \in {"client", "shutdown"} : StopReading(c, why)
    BY <1>17 DEF ClientGoes, SeeShutdown
  <2>2. ClientsAsRequested'
    BY <2>1, SameClients DEF TypeOK, StopReading, handshakeVars, clientVars
  <2>3. pc' \in [Conn -> Position] /\ cause' \in [Conn -> {"none", "client", "shutdown"}]
    BY <2>1 DEF TypeOK, StopReading, Go, Position
  <2> QED
    BY <2>1, <2>2, <2>3 DEF TypeOK, StopReading, handshakeVars, clientVars, lineVars, runVars
<1>18. ASSUME NEW c \in Conn, StopsReading(c) \/ WriterFails(c) \/ SayFarewell(c) PROVE TypeOK'
  <2>1. ClientsAsRequested'
    BY <1>18, SameClients
       DEF TypeOK, StopsReading, WriterFails, SayFarewell, handshakeVars, clientVars
  <2>2. /\ slow' \in SUBSET Conn
        /\ writer' \in [Conn -> {"none", "running", "failed", "farewell", "aborted"}]
    BY <1>18 DEF TypeOK, StopsReading, WriterFails, SayFarewell
  <2> QED
    BY <1>18, <2>1, <2>2
       DEF TypeOK, StopsReading, WriterFails, SayFarewell, handshakeVars, clientVars, lineVars, runVars
<1>19. ASSUME NEW c \in Conn, Abort(c) PROVE TypeOK'
  <2>1. ClientsAsRequested'
    BY <1>19, SameClients DEF TypeOK, Abort, handshakeVars, clientVars
  <2>2. /\ pc' \in [Conn -> Position]
        /\ writer' \in [Conn -> {"none", "running", "failed", "farewell", "aborted"}]
    BY <1>19 DEF TypeOK, Abort, Go, Position
  <2> QED
    BY <1>19, <2>1, <2>2 DEF TypeOK, Abort, handshakeVars, clientVars, lineVars, runVars
<1>20. ASSUME NEW c \in Conn, Unregister(c) \/ Uncount(c) PROVE TypeOK'
  <2>1. ClientsAsRequested'
    BY <1>20, SameClients DEF TypeOK, Unregister, Uncount, handshakeVars
  <2>2. pc' \in [Conn -> Position] /\ registry' \in SUBSET Conn
    BY <1>20 DEF TypeOK, Unregister, Uncount, Go, Position
  <2>3. gauge' \in 0 .. GaugeModulus - 1
    BY <1>20, ModulusPositive DEF TypeOK, Unregister, Uncount
  <2> QED
    BY <1>20, <2>1, <2>2, <2>3
       DEF TypeOK, Unregister, Uncount, handshakeVars, writerVars, lineVars, runVars
<1>21. ASSUME NEW c \in Conn, CloseRow(c) PROVE TypeOK'
  <2>1. ClientsAsRequested'
    BY <1>21, SameClients DEF TypeOK, CloseRow, handshakeVars
  <2>2. /\ pc' \in [Conn -> Position]
        /\ row' \in [Conn -> {"none", "open", "closed"}] /\ totals' \in [Conn -> Nat]
    BY <1>21 DEF TypeOK, CloseRow, Go, Position
  <2> QED
    BY <1>21, <2>1, <2>2 DEF TypeOK, CloseRow, handshakeVars, writerVars, lineVars, runVars
<1>22. ASSUME DispatchTask PROVE TypeOK'
  <2>1. ClientsAsRequested'
    BY <1>22, SameClients
       DEF TypeOK, DispatchTask, Process, DispatchEnds, handshakeVars, clientVars
  <2>2. processed' \in 0 .. submitted /\ traffic' \in [Conn -> Nat]
    BY <1>22 DEF TypeOK, DispatchTask, Process, DispatchEnds, lineVars
  <2> QED
    BY <1>22, <2>1, <2>2
       DEF TypeOK, DispatchTask, Process, DispatchEnds, handshakeVars, clientVars, writerVars,
           lineVars, runVars
<1>23. ASSUME Trigger \/ Run PROVE TypeOK'
  <2>1. ClientsAsRequested'
    BY <1>23, SameClients
       DEF TypeOK, Trigger, Run, JoinAccepts, SaveAndReturn, handshakeVars, clientVars
  <2>2. saved' \in Nat \cup {NotSaved}
    BY <1>23 DEF TypeOK, Trigger, Run, JoinAccepts, SaveAndReturn
  <2> QED
    BY <1>23, <2>1, <2>2
       DEF TypeOK, Trigger, Run, JoinAccepts, SaveAndReturn, handshakeVars, clientVars,
           writerVars, lineVars
<1>24. ASSUME UNCHANGED vars PROVE TypeOK'
  <2>1. ClientsAsRequested'
    BY <1>24, SameClients DEF TypeOK, vars, handshakeVars, clientVars
  <2> QED
    BY <1>24, <2>1 DEF TypeOK, vars, handshakeVars, clientVars, writerVars, lineVars, runVars
<1> QED
  BY <1>1, <1>2, <1>3, <1>4, <1>5, <1>6, <1>7, <1>8, <1>9, <1>10, <1>11, <1>12, <1>13, <1>14,
     <1>15, <1>16, <1>17, <1>18, <1>19, <1>20, <1>21, <1>22, <1>23, <1>24
     DEF Next, Peer, Serve

-----------------------------------------------------------------------------
(* A request comes with the login line, a registration after it.           *)

(* Every step keeps the order of request, registration and row.            *)
LEMMA LoginFirstStep ==
  ASSUME TypeOK, LoginFirst, [Next]_vars
  PROVE  LoginFirst'
<1> DEFINE Early == {"absent", "accepted", "banner", "login"}
           Before == Early \cup {"ack", "opening", "inserting"}
           InOrder(d) == /\ pc[d] \in Early => request[d] = NoRequest
                         /\ client[d] # NoClient => pc[d] \notin Before
<1> SUFFICES ASSUME NEW d \in Conn PROVE InOrder(d)'
  BY DEF LoginFirst
<1> USE DEF LoginFirst, Go, handshakeVars, clientVars
<1>0. pc \in [Conn -> Position] /\ DOMAIN request = Conn /\ DOMAIN client = Conn
  BY DEF TypeOK, ClientsAsRequested
<1>1. ASSUME NEW c \in Conn, NEW to, Go(c, to), UNCHANGED <<request, client>>,
             to \in Early => pc[c] \in Early, to \in Before => pc[c] \in Before
      PROVE  InOrder(d)'
  BY <1>0, <1>1
<1>a. ASSUME NEW c \in Conn, Accept(c) \/ CheckCap(c) \/ WriteBanner(c) \/ HandshakeFails(c)
      PROVE  InOrder(d)'
  BY <1>1, <1>a DEF Accept, CheckCap, WriteBanner, HandshakeFails
<1>b. ASSUME NEW c \in Conn,
             EndService(c) \/ Part(c) \/ Abort(c) \/ ClientGoes(c) \/ SeeShutdown(c)
      PROVE  InOrder(d)'
  BY <1>1, <1>b DEF EndService, Part, Abort, ClientGoes, SeeShutdown, StopReading
<1>2. ASSUME NEW c \in Conn, NEW line \in FirstLine, LogIn(c, line) \/ Malformed(c, line)
      PROVE  InOrder(d)'
  <2>1. CASE LogIn(c, line)
    BY <2>1 DEF TypeOK, LogIn
  <2>2. CASE Malformed(c, line)
    BY <2>2 DEF TypeOK, Malformed, Refuse
  <2> QED
    BY <1>2, <2>1, <2>2
<1>3. ASSUME NEW c \in Conn, LeavesEarly(c) \/ LoginTimesOut(c) \/ Acknowledge(c)
      PROVE  InOrder(d)'
  BY <1>1, <1>3 DEF LeavesEarly, LoginTimesOut, Refuse, Acknowledge
<1>4. ASSUME NEW c \in Conn,
             OpenRow(c) \/ Insert(c) \/ Count(c) \/ Unregister(c) \/ Uncount(c) \/ CloseRow(c)
      PROVE  InOrder(d)'
  BY <1>0, <1>4 DEF OpenRow, Insert, Count, Unregister, Uncount, CloseRow
<1>5. ASSUME UNCHANGED <<pc, request, client>> PROVE InOrder(d)'
  BY <1>5
<1>6. ASSUME NEW c \in Conn,
             Wait(c) \/ Noise(c) \/ Receive(c) \/ StopsReading(c) \/ WriterFails(c)
               \/ SayFarewell(c)
      PROVE  InOrder(d)'
  BY <1>5, <1>6 DEF Wait, Noise, Receive, StopsReading, WriterFails, SayFarewell
<1>7. ASSUME \/ \E l \in Listener : StopAccepting(l)
             \/ DispatchTask \/ Trigger \/ Run \/ UNCHANGED vars
      PROVE  InOrder(d)'
  BY <1>5, <1>7 DEF StopAccepting, DispatchTask, Process, DispatchEnds, Trigger, Run,
                    JoinAccepts, SaveAndReturn, vars
<1> QED
  BY <1>a, <1>b, <1>2, <1>3, <1>4, <1>6, <1>7 DEF Next, Peer, Serve

-----------------------------------------------------------------------------
(* The registry and the gauge.                                             *)

(* A step of a connection changes who is where by that connection alone.   *)
LEMMA PlacesMove ==
  ASSUME TypeOK, NEW c \in Conn, NEW to \in Position, Go(c, to), NEW places
  PROVE  At(places)' = IF to \in places THEN At(places) \cup {c} ELSE At(places) \ {c}
BY DEF TypeOK, Go, At

(* A step inside a set of places, or outside it, leaves who is there.      *)
LEMMA PlacesStay ==
  ASSUME NEW c \in Conn, NEW to, TypeOK, Go(c, to), NEW places,
         to \in places <=> pc[c] \in places
  PROVE  At(places)' = At(places)
BY DEF TypeOK, Go, At

(* How every step moves a connection: into the registry, onto the gauge,   *)
(* off the registry, off the gauge, or past neither.                       *)
LEMMA WhoMoves ==
  ASSUME TypeOK, [Next]_vars
  PROVE  \/ /\ At(Registered)' = At(Registered)
            /\ At(Counted)' = At(Counted)
            /\ UNCHANGED <<registry, gauge>>
         \/ \E c \in Conn : Insert(c) \/ Count(c) \/ Unregister(c) \/ Uncount(c)
<1> DEFINE Still == /\ At(Registered)' = At(Registered)
                    /\ At(Counted)' = At(Counted)
                    /\ UNCHANGED <<registry, gauge>>
<1> USE DEF Registered, Counted, clientVars
<1>1. ASSUME NEW c \in Conn, Accept(c) \/ CheckCap(c) \/ WriteBanner(c) \/ HandshakeFails(c)
      PROVE  Still
  BY <1>1, PlacesStay DEF Accept, CheckCap, WriteBanner, HandshakeFails, Go
<1>2. ASSUME NEW c \in Conn, EndService(c) \/ Part(c) \/ Abort(c) \/ ClientGoes(c) \/ SeeShutdown(c)
      PROVE  Still
  BY <1>2, PlacesStay DEF EndService, Part, Abort, ClientGoes, SeeShutdown, StopReading
<1>3. ASSUME NEW c \in Conn, NEW line \in FirstLine, LogIn(c, line) \/ Malformed(c, line)
      PROVE  Still
  BY <1>3, PlacesStay DEF LogIn, Malformed, Refuse
<1>4. ASSUME NEW c \in Conn,
             LeavesEarly(c) \/ LoginTimesOut(c) \/ Acknowledge(c) \/ OpenRow(c) \/ CloseRow(c)
      PROVE  Still
  BY <1>4, PlacesStay DEF LeavesEarly, LoginTimesOut, Refuse, Acknowledge, OpenRow, CloseRow
<1>5. ASSUME UNCHANGED <<pc, registry, gauge>> PROVE Still
  BY <1>5 DEF At
<1>6. ASSUME NEW c \in Conn,
             Wait(c) \/ Noise(c) \/ Receive(c) \/ StopsReading(c) \/ WriterFails(c)
               \/ SayFarewell(c)
      PROVE  Still
  BY <1>5, <1>6 DEF Wait, Noise, Receive, StopsReading, WriterFails, SayFarewell
<1>7. ASSUME \/ \E l \in Listener : StopAccepting(l)
             \/ DispatchTask \/ Trigger \/ Run \/ UNCHANGED vars
      PROVE  Still
  BY <1>5, <1>7 DEF StopAccepting, DispatchTask, Process, DispatchEnds, Trigger, Run,
                    JoinAccepts, SaveAndReturn, vars
<1> QED
  BY <1>1, <1>2, <1>3, <1>4, <1>6, <1>7 DEF Next, Peer, Serve

(* The registry changes exactly with the steps into and out of its places. *)
LEMMA RegistryStep ==
  ASSUME TypeOK, RegistryFollows, [Next]_vars
  PROVE  RegistryFollows'
<1>1. ASSUME NEW c \in Conn, Insert(c) PROVE RegistryFollows'
  <2>1. At(Registered)' = At(Registered) \cup {c}
    BY <1>1, PlacesMove DEF Insert, Position, Registered
  <2> QED
    BY <1>1, <2>1 DEF RegistryFollows, Insert
<1>2. ASSUME NEW c \in Conn, Count(c) PROVE RegistryFollows'
  <2>1. At(Registered)' = At(Registered)
    BY <1>2, PlacesStay DEF Count, Registered
  <2> QED
    BY <1>2, <2>1 DEF RegistryFollows, Count
<1>3. ASSUME NEW c \in Conn, Unregister(c) PROVE RegistryFollows'
  <2>1. At(Registered)' = At(Registered) \ {c}
    BY <1>3, PlacesMove DEF Unregister, Position, Registered
  <2> QED
    BY <1>3, <2>1 DEF RegistryFollows, Unregister
<1>4. ASSUME NEW c \in Conn, Uncount(c) PROVE RegistryFollows'
  <2>1. At(Registered)' = At(Registered)
    BY <1>4, PlacesStay DEF Uncount, Registered
  <2> QED
    BY <1>4, <2>1 DEF RegistryFollows, Uncount
<1> QED
  BY <1>1, <1>2, <1>3, <1>4, WhoMoves DEF RegistryFollows

(* No more can be counted than there are connections, so nothing wraps.    *)
LEMMA PlacesFinite ==
  ASSUME NEW places
  PROVE  /\ IsFiniteSet(At(places))
         /\ Cardinality(At(places)) \in Nat
         /\ Cardinality(At(places)) <= Cardinality(Conn)
BY SessionsConstants, FS_Subset, FS_CardinalityType DEF At

(* Counting up and down within the width of the gauge.                     *)
LEMMA NoWrap ==
  ASSUME NEW M \in Nat, NEW n \in Nat, n < M
  PROVE  n % M = n /\ (n + M) % M = n
<1>1. n % M = n
  OBVIOUS
<1>2. (n + M) % M = n
  OBVIOUS
<1> QED BY <1>1, <1>2

(* The gauge goes up once and down once for each connection, and so it does*)
(* not wrap.                                                               *)
LEMMA GaugeStep ==
  ASSUME TypeOK, GaugeFollows, [Next]_vars
  PROVE  GaugeFollows'
<1> USE ModulusPositive
<1>0. Cardinality(Conn) \in Nat /\ Cardinality(Conn) < GaugeModulus
  BY SessionsConstants, FS_CardinalityType
<1>1. ASSUME NEW c \in Conn, Insert(c) \/ Unregister(c) PROVE GaugeFollows'
  <2>1. At(Counted)' = At(Counted)
    BY <1>1, PlacesStay DEF Insert, Unregister, Counted
  <2> QED
    BY <1>1, <2>1 DEF GaugeFollows, Insert, Unregister
<1>2. ASSUME NEW c \in Conn, Count(c) PROVE GaugeFollows'
  <2>0. c \notin At(Counted)
    BY <1>2 DEF Count, Counted, At
  <2>1. At(Counted)' = At(Counted) \cup {c}
    BY <1>2, PlacesMove DEF Count, Position, Counted
  <2>2. Cardinality(At(Counted)') = Cardinality(At(Counted)) + 1
    BY <2>0, <2>1, PlacesFinite, FS_AddElement
  <2>3. Cardinality(At(Counted)') <= Cardinality(Conn)
    <3>1. At(Counted)' \subseteq Conn
      BY <2>1 DEF At
    <3> QED
      BY <3>1, SessionsConstants, FS_Subset
  <2>4. gauge \in Nat /\ gauge + 1 < GaugeModulus
    BY <1>0, <2>2, <2>3, PlacesFinite DEF GaugeFollows
  <2>5. gauge' = gauge + 1
    BY <1>2, <2>4, NoWrap DEF Count
  <2> QED
    BY <2>2, <2>5 DEF GaugeFollows
<1>3. ASSUME NEW c \in Conn, Uncount(c) PROVE GaugeFollows'
  <2>0. c \in At(Counted)
    BY <1>3 DEF Uncount, Counted, At
  <2>1. At(Counted)' = At(Counted) \ {c}
    BY <1>3, PlacesMove DEF Uncount, Position, Counted
  <2>2. Cardinality(At(Counted)') = Cardinality(At(Counted)) - 1
    BY <2>0, <2>1, PlacesFinite, FS_RemoveElement
  <2>3. gauge \in Nat /\ gauge > 0 /\ gauge - 1 < GaugeModulus
    <3>1. At(Counted)' \subseteq Conn
      BY <2>1 DEF At
    <3>2. Cardinality(At(Counted)') \in Nat
      BY <3>1, SessionsConstants, FS_Subset, FS_CardinalityType
    <3> QED
      BY <1>0, <2>2, <3>2, PlacesFinite DEF GaugeFollows
  <2>4. gauge' = gauge - 1
    <3>1. (gauge + GaugeModulus - 1) = (gauge - 1) + GaugeModulus
      BY <2>3
    <3> QED
      BY <1>3, <2>3, <3>1, NoWrap DEF Uncount
  <2> QED
    BY <2>2, <2>4 DEF GaugeFollows
<1> QED
  BY <1>1, <1>2, <1>3, WhoMoves DEF GaugeFollows

-----------------------------------------------------------------------------
(* The writers: one runs only while its connection is served, and whoever  *)
(* aborts it while a shutdown ends the connection found it blocked.        *)

(* Every step keeps the writer with its connection.                        *)
LEMMA WriterStep ==
  ASSUME TypeOK, WriterFollows, FarewellSaid, [Next]_vars
  PROVE  WriterFollows' /\ FarewellSaid'
<1> DEFINE Late == {"removing", "uncounting", "closing", "closed"}
           Fine(d) == /\ writer[d] = "running" => pc[d] \in {"serving", "ending", "parting", "aborting"}
                      /\ writer[d] = "aborted" => pc[d] \in Late
                      /\ cause[d] = "shutdown" => triggered
                      /\ cause[d] = "shutdown" /\ writer[d] = "running" /\ pc[d] = "aborting"
                           => d \in slow
                      /\ cause[d] = "shutdown" /\ writer[d] = "aborted" => d \in slow
<1> SUFFICES ASSUME NEW d \in Conn PROVE Fine(d)'
  BY DEF WriterFollows, FarewellSaid
<1>0. /\ pc \in [Conn -> Position]
      /\ writer \in [Conn -> {"none", "running", "failed", "farewell", "aborted"}]
      /\ cause \in [Conn -> {"none", "client", "shutdown"}]
      /\ triggered \in BOOLEAN
      /\ Fine(d)
  BY DEF TypeOK, WriterFollows, FarewellSaid
<1> USE DEF Go, writerVars, runVars
(* A connection that is not served has no running writer.                  *)
<1>1. ASSUME NEW c \in Conn, NEW to, Go(c, to), UNCHANGED <<writer, cause, slow, triggered>>,
             \/ pc[c] \notin Late \cup {"serving", "ending", "parting", "aborting"}
             \/ pc[c] \in Late /\ to \in Late
      PROVE  Fine(d)'
  BY <1>0, <1>1
<1>2. ASSUME NEW c \in Conn, Accept(c) \/ CheckCap(c) \/ WriteBanner(c) \/ HandshakeFails(c)
      PROVE  Fine(d)'
  BY <1>1, <1>2 DEF Accept, CheckCap, WriteBanner, HandshakeFails
<1>3. ASSUME NEW c \in Conn, NEW line \in FirstLine, LogIn(c, line) \/ Malformed(c, line)
      PROVE  Fine(d)'
  BY <1>1, <1>3 DEF LogIn, Malformed, Refuse
<1>4. ASSUME NEW c \in Conn,
             LeavesEarly(c) \/ LoginTimesOut(c) \/ Acknowledge(c) \/ OpenRow(c) \/ Insert(c)
      PROVE  Fine(d)'
  BY <1>1, <1>4 DEF LeavesEarly, LoginTimesOut, Refuse, Acknowledge, OpenRow, Insert
<1>5. ASSUME NEW c \in Conn, Unregister(c) \/ Uncount(c) \/ CloseRow(c) PROVE Fine(d)'
  BY <1>1, <1>5 DEF Unregister, Uncount, CloseRow
<1>6. ASSUME NEW c \in Conn, Count(c) PROVE Fine(d)'
  BY <1>0, <1>6 DEF Count
<1>7. ASSUME NEW c \in Conn, ClientGoes(c) \/ SeeShutdown(c) PROVE Fine(d)'
  BY <1>0, <1>7 DEF ClientGoes, SeeShutdown, StopReading
<1>8. ASSUME NEW c \in Conn, EndService(c) PROVE Fine(d)'
  BY <1>0, <1>8 DEF EndService
<1>9. ASSUME NEW c \in Conn, Part(c) PROVE Fine(d)'
  BY <1>0, <1>9 DEF Part
<1>10. ASSUME NEW c \in Conn, Abort(c) PROVE Fine(d)'
  BY <1>0, <1>10 DEF Abort
<1>11. ASSUME NEW c \in Conn, StopsReading(c) \/ WriterFails(c) \/ SayFarewell(c) PROVE Fine(d)'
  BY <1>0, <1>11 DEF StopsReading, WriterFails, SayFarewell
<1>12. ASSUME Trigger PROVE Fine(d)'
  BY <1>0, <1>12 DEF Trigger
<1>13. ASSUME UNCHANGED <<pc, writer, cause, slow, triggered>> PROVE Fine(d)'
  BY <1>0, <1>13
<1>14. ASSUME NEW c \in Conn, Wait(c) \/ Noise(c) \/ Receive(c) PROVE Fine(d)'
  BY <1>13, <1>14 DEF Wait, Noise, Receive
<1>15. ASSUME \/ \E l \in Listener : StopAccepting(l)
              \/ DispatchTask \/ Run \/ UNCHANGED vars
       PROVE  Fine(d)'
  BY <1>13, <1>15 DEF StopAccepting, DispatchTask, Process, DispatchEnds, Run,
                      JoinAccepts, SaveAndReturn, vars
<1> QED
  BY <1>2, <1>3, <1>4, <1>5, <1>6, <1>7, <1>8, <1>9, <1>10, <1>11, <1>12, <1>14, <1>15
     DEF Next, Peer, Serve

-----------------------------------------------------------------------------
(* The log rows: a broadcast adds to the counters of who is registered,    *)
(* and nobody is when its row is closed.                                   *)

(* Every step keeps the totals of a row that is closed.                    *)
LEMMA RowStep ==
  ASSUME TypeOK, RegistryFollows, RowFollows, [Next]_vars
  PROVE  RowFollows'
<1> DEFINE Final(d) == row[d] = "closed" => pc[d] = "closed" /\ totals[d] = traffic[d]
<1> SUFFICES ASSUME NEW d \in Conn PROVE Final(d)'
  BY DEF RowFollows
<1>0. /\ pc \in [Conn -> Position]
      /\ row \in [Conn -> {"none", "open", "closed"}]
      /\ totals \in [Conn -> Nat] /\ traffic \in [Conn -> Nat]
      /\ Final(d)
  BY DEF TypeOK, RowFollows
<1> USE DEF Go, clientVars, lineVars
<1>1. ASSUME NEW c \in Conn, NEW to, Go(c, to), pc[c] # "closed", UNCHANGED <<row, totals, traffic>>
      PROVE  Final(d)'
  BY <1>0, <1>1
<1>2. ASSUME NEW c \in Conn, Accept(c) \/ CheckCap(c) \/ WriteBanner(c) \/ HandshakeFails(c)
      PROVE  Final(d)'
  BY <1>1, <1>2 DEF Accept, CheckCap, WriteBanner, HandshakeFails
<1>3. ASSUME NEW c \in Conn, NEW line \in FirstLine, LogIn(c, line) \/ Malformed(c, line)
      PROVE  Final(d)'
  BY <1>1, <1>3 DEF LogIn, Malformed, Refuse
<1>4. ASSUME NEW c \in Conn,
             LeavesEarly(c) \/ LoginTimesOut(c) \/ Acknowledge(c) \/ Insert(c) \/ Count(c)
      PROVE  Final(d)'
  BY <1>1, <1>4 DEF LeavesEarly, LoginTimesOut, Refuse, Acknowledge, Insert, Count
<1>5. ASSUME NEW c \in Conn,
             ClientGoes(c) \/ SeeShutdown(c) \/ EndService(c) \/ Part(c) \/ Abort(c)
      PROVE  Final(d)'
  BY <1>1, <1>5 DEF ClientGoes, SeeShutdown, StopReading, EndService, Part, Abort
<1>6. ASSUME NEW c \in Conn, Unregister(c) \/ Uncount(c) PROVE Final(d)'
  BY <1>1, <1>6 DEF Unregister, Uncount
<1>7. ASSUME NEW c \in Conn, OpenRow(c) PROVE Final(d)'
  BY <1>0, <1>7 DEF OpenRow
<1>8. ASSUME NEW c \in Conn, Receive(c) PROVE Final(d)'
  BY <1>0, <1>8 DEF Receive, Bump
<1>9. ASSUME NEW c \in Conn, CloseRow(c) PROVE Final(d)'
  BY <1>0, <1>9 DEF CloseRow
<1>10. ASSUME Process PROVE Final(d)'
  <2>1. PICK S \in SUBSET registry :
          traffic' = [c \in Conn |-> traffic[c] + (IF c \in S THEN 1 ELSE 0)]
    BY <1>10 DEF Process
  <2>2. pc[d] = "closed" => d \notin S
    BY DEF RegistryFollows, Registered, At
  <2> QED
    BY <1>0, <1>10, <2>1, <2>2 DEF Process
<1>11. ASSUME UNCHANGED <<pc, row, totals, traffic>> PROVE Final(d)'
  BY <1>0, <1>11
<1>12. ASSUME NEW c \in Conn,
              Wait(c) \/ Noise(c) \/ StopsReading(c) \/ WriterFails(c) \/ SayFarewell(c)
       PROVE  Final(d)'
  BY <1>11, <1>12 DEF Wait, Noise, StopsReading, WriterFails, SayFarewell
<1>13. ASSUME \/ \E l \in Listener : StopAccepting(l)
              \/ DispatchEnds \/ Trigger \/ Run \/ UNCHANGED vars
       PROVE  Final(d)'
  BY <1>11, <1>13 DEF StopAccepting, DispatchEnds, Trigger, Run, JoinAccepts, SaveAndReturn, vars
<1> QED
  BY <1>2, <1>3, <1>4, <1>5, <1>6, <1>7, <1>8, <1>9, <1>10, <1>12, <1>13
     DEF Next, Peer, Serve, DispatchTask

-----------------------------------------------------------------------------
(* The shutdown: the dispatch task outlives whoever could submit, and run  *)
(* outlives the dispatch task.                                             *)

(* Every step keeps the order of a shutdown.                               *)
LEMMA ShutdownStep ==
  ASSUME TypeOK, ShutdownFollows, [Next]_vars
  PROVE  ShutdownFollows'
<1> DEFINE Gone == {"absent", "closed"}
<1>0. /\ pc \in [Conn -> Position] /\ processed \in Nat
      /\ dispatch \in {"running", "ended"}
      /\ dispatch = "ended" => NoSenders /\ processed = submitted
      /\ main = "done" => dispatch = "ended"
      /\ saved # NotSaved => main = "done" /\ saved = submitted
  BY DEF TypeOK, ShutdownFollows
<1> USE DEF Go, lineVars, runVars, NoSenders
<1>1. ASSUME NEW c \in Conn, NEW to, Go(c, to), UNCHANGED <<submitted, processed, runVars>>,
             pc[c] \notin Gone \/ On[c] \in accepting
      PROVE  ShutdownFollows'
  BY <1>0, <1>1 DEF ShutdownFollows
<1>2. ASSUME NEW c \in Conn, Accept(c) \/ CheckCap(c) \/ WriteBanner(c) \/ HandshakeFails(c)
      PROVE  ShutdownFollows'
  BY <1>1, <1>2 DEF Accept, CheckCap, WriteBanner, HandshakeFails
<1>3. ASSUME NEW c \in Conn, NEW line \in FirstLine, LogIn(c, line) \/ Malformed(c, line)
      PROVE  ShutdownFollows'
  BY <1>1, <1>3 DEF LogIn, Malformed, Refuse
<1>4. ASSUME NEW c \in Conn,
             LeavesEarly(c) \/ LoginTimesOut(c) \/ Acknowledge(c) \/ OpenRow(c) \/ Insert(c)
               \/ Count(c)
      PROVE  ShutdownFollows'
  BY <1>1, <1>4 DEF LeavesEarly, LoginTimesOut, Refuse, Acknowledge, OpenRow, Insert, Count
<1>5. ASSUME NEW c \in Conn,
             ClientGoes(c) \/ SeeShutdown(c) \/ EndService(c) \/ Part(c) \/ Abort(c)
               \/ Unregister(c) \/ Uncount(c) \/ CloseRow(c)
      PROVE  ShutdownFollows'
  BY <1>1, <1>5 DEF ClientGoes, SeeShutdown, StopReading, EndService, Part, Abort, Unregister,
                    Uncount, CloseRow
<1>6. ASSUME NEW c \in Conn, Receive(c) PROVE ShutdownFollows'
  <2>1. dispatch = "running"
    BY <1>0, <1>6 DEF Receive
  <2> QED
    BY <1>0, <1>6, <2>1 DEF Receive, ShutdownFollows
<1>7. ASSUME NEW l \in Listener, StopAccepting(l) PROVE ShutdownFollows'
  BY <1>0, <1>7 DEF StopAccepting, ShutdownFollows
<1>8. ASSUME DispatchTask PROVE ShutdownFollows'
  BY <1>0, <1>8 DEF DispatchTask, Process, DispatchEnds, ShutdownFollows
<1>9. ASSUME Trigger \/ Run PROVE ShutdownFollows'
  BY <1>0, <1>9 DEF Trigger, Run, JoinAccepts, SaveAndReturn, ShutdownFollows
<1>10. ASSUME UNCHANGED <<pc, submitted, processed, runVars>> PROVE ShutdownFollows'
  BY <1>0, <1>10 DEF ShutdownFollows
<1>11. ASSUME NEW c \in Conn,
              Wait(c) \/ Noise(c) \/ StopsReading(c) \/ WriterFails(c) \/ SayFarewell(c)
       PROVE  ShutdownFollows'
  BY <1>10, <1>11 DEF Wait, Noise, StopsReading, WriterFails, SayFarewell
<1>12. ASSUME UNCHANGED vars PROVE ShutdownFollows'
  BY <1>10, <1>12 DEF vars
<1> QED
  BY <1>2, <1>3, <1>4, <1>5, <1>6, <1>7, <1>8, <1>9, <1>11, <1>12 DEF Next, Peer, Serve

-----------------------------------------------------------------------------
(* The inductive invariant, and the properties it implies.                 *)

(* It holds when nobody is connected.                                      *)
LEMMA InvInit == Init => SessionsInv
<1> SUFFICES ASSUME Init PROVE SessionsInv
  OBVIOUS
<1>1. TypeOK
  BY TypeInit
<1>2. At(Registered) = {} /\ At(Counted) = {}
  BY DEF Init, At, Registered, Counted
<1>3. RegistryFollows /\ GaugeFollows
  BY <1>2, FS_EmptySet DEF Init, RegistryFollows, GaugeFollows
<1>4. LoginFirst /\ WriterFollows /\ FarewellSaid /\ RowFollows
  BY DEF Init, LoginFirst, WriterFollows, FarewellSaid, RowFollows
<1>5. ShutdownFollows
  BY DEF Init, ShutdownFollows
<1> QED
  BY <1>1, <1>3, <1>4, <1>5 DEF SessionsInv

(* No step of a connection, a task, a peer or the operator disturbs the    *)
(* invariant.                                                              *)
LEMMA InvStep == SessionsInv /\ [Next]_vars => SessionsInv'
BY TypeStep, LoginFirstStep, RegistryStep, GaugeStep, WriterStep, RowStep, ShutdownStep
   DEF SessionsInv

(* Where a connection is in serve tells whether it is registered, counted, *)
(* has a writer and may have a closed row, and the tasks end one after the *)
(* other: in every reachable state of every instance.                      *)
THEOREM SessionsInvariant == Spec => []SessionsInv
BY InvInit, InvStep, PTL DEF Spec

(* The state is always what the variables' comments say.                   *)
THEOREM TypesHold == Spec => []TypeOK
<1>1. SessionsInv => TypeOK
  BY DEF SessionsInv
<1> QED
  BY <1>1, SessionsInvariant, PTL

(* clients_connected counts who is registered (serve, lib.rs metrics) and  *)
(* never wraps, however connections come and go.                           *)
THEOREM GaugeIsRegistry == Spec => []GaugeTracksRegistry
<1>1. SessionsInv => GaugeTracksRegistry
  <2> SUFFICES ASSUME SessionsInv PROVE GaugeTracksRegistry
    OBVIOUS
  <2>1. gauge <= Cardinality(Conn)
    BY PlacesFinite DEF SessionsInv, GaugeFollows
  <2>2. ASSUME \A c \in Conn : pc[c] \notin {"counting", "uncounting"}
        PROVE  gauge = Cardinality(registry)
    <3>1. At(Registered) = At(Counted)
      BY <2>2 DEF At, Registered, Counted
    <3> QED
      BY <3>1 DEF SessionsInv, RegistryFollows, GaugeFollows
  <2> QED
    BY <2>1, <2>2 DEF GaugeTracksRegistry
<1> QED
  BY <1>1, SessionsInvariant, PTL

(* close_session writes the last value of the counters: no delivery by a   *)
(* broadcast, and no line read, is counted after it.                       *)
THEOREM RowsAreFinal == Spec => []RowIsFinal
<1>1. SessionsInv => RowIsFinal
  BY DEF SessionsInv, RowFollows, RowIsFinal
<1> QED
  BY <1>1, SessionsInvariant, PTL

(* When Server::run returns no connection is registered, counted or has a  *)
(* writer left, although run waits for none of the tasks that serve them.  *)
THEOREM ExitsCleanly == Spec => []ExitIsClean
<1>1. SessionsInv => ExitIsClean
  <2> SUFFICES ASSUME SessionsInv, main = "done" PROVE
                 /\ registry = {} /\ gauge = 0
                 /\ \A c \in Conn : pc[c] \in {"absent", "closed"} /\ writer[c] # "running"
    BY DEF ExitIsClean
  <2>1. \A c \in Conn : pc[c] \in {"absent", "closed"}
    BY DEF SessionsInv, ShutdownFollows, NoSenders
  <2>2. At(Registered) = {} /\ At(Counted) = {}
    BY <2>1 DEF At, Registered, Counted
  <2>3. registry = {} /\ gauge = 0
    BY <2>2, FS_EmptySet DEF SessionsInv, RegistryFollows, GaugeFollows
  <2> QED
    BY <2>1, <2>3 DEF SessionsInv, WriterFollows
<1> QED
  BY <1>1, SessionsInvariant, PTL

(* The positions run saves are those of every line the dispatch queue ever *)
(* accepted: none is queued then and no sender is left to add one.         *)
THEOREM SavesEverything == Spec => []SavedIsComplete
<1>1. SessionsInv => SavedIsComplete
  BY DEF SessionsInv, ShutdownFollows, SavedIsComplete
<1> QED
  BY <1>1, SessionsInvariant, PTL

(* A client the shutdown ends hears so before its writer is aborted, in    *)
(* every order of the reader's, the writer's and the operator's steps.     *)
THEOREM FarewellsSaid == Spec => []FarewellSaid
<1>1. SessionsInv => FarewellSaid
  BY DEF SessionsInv
<1> QED
  BY <1>1, SessionsInvariant, PTL

-----------------------------------------------------------------------------
(* What a login line means.                                                *)

(* Of numbers that are not below the first keyword one is the smallest.    *)
LEMMA SmallestStop ==
  ASSUME NEW S, S \subseteq Nat, S # {}
  PROVE  \E m \in S : \A i \in S : m <= i
<1> DEFINE Less == {pair \in Nat \X Nat : pair[1] < pair[2]}
<1>1. IsWellFoundedOn(Less, Nat)
  BY NatLessThanWellFounded DEF OpToRel
<1>2. PICK m \in S : \A i \in S : <<i, m>> \notin Less
  <2> HIDE DEF Less
  <2> QED BY <1>1, WFMin
<1>3. \A i \in S : ~ (i < m)
  BY <1>2
<1> QED BY <1>3

(* The chain of keywords of a line: the first behind the passcode, and     *)
(* behind each that is no filter the one after what it takes.              *)
Chain(line, K) ==
  /\ K \subseteq 5 .. Len(line)
  /\ \A i \in 5 .. Len(line) :
       i \in K <=> \/ i = 5
                   \/ \E j \in K : /\ Lower(line[j]) # "filter"
                                  /\ i = j + Width(Lower(line[j]))

(* The loop stops at the chain, and at nothing else.                       *)
LEMMA KeywordsAreChain ==
  ASSUME NEW W, NEW line \in Seq(W), NEW K, Chain(line, K)
  PROVE  Keywords(line) = K
<1> DEFINE D == 5 .. Len(line) + 3
           follows(i, j) == /\ Lower(line[j]) # "filter"
                            /\ i = j + Width(Lower(line[j]))
           turn(at, i) == \/ i = 5
                          \/ \E j \in 5 .. i - 1 :
                               /\ at[j] /\ j <= Len(line)
                               /\ Lower(line[j]) # "filter"
                               /\ i = j + Width(Lower(line[j]))
           table(at) == at = [i \in D |-> turn(at, i)]
           at == CHOOSE f : table(f)
           known == [i \in D |-> i = 5 \/ \E j \in K : follows(i, j)]
<1>1. Len(line) \in Nat
  OBVIOUS
<1>2. \A j : Width(Lower(line[j])) \in 1 .. 3
  BY DEF Width
<1> HIDE DEF known, turn, table, at
<1>3. /\ known = [i \in D |-> known[i]]
      /\ \A i \in D : known[i] = (i = 5 \/ \E j \in K : follows(i, j))
  BY Zenon DEF known
<1>4. \A j \in 5 .. Len(line) : known[j] <=> j \in K
  BY <1>1, <1>3 DEF Chain
<1>5. ASSUME NEW i \in D
      PROVE  (i = 5 \/ \E j \in K : follows(i, j)) <=> turn(known, i)
  <2>1. ASSUME NEW j \in K, follows(i, j)
        PROVE  j \in 5 .. i - 1 /\ known[j] /\ j <= Len(line)
    <3>1. j \in 5 .. Len(line)
      BY DEF Chain
    <3>2. j < i /\ i \in Int
      BY <1>1, <1>2, <2>1, <3>1
    <3> QED BY <1>1, <1>4, <3>1, <3>2
  <2>2. ASSUME NEW j \in 5 .. i - 1, known[j], j <= Len(line)
        PROVE  j \in K
    BY <1>1, <1>4, <2>2
  <2> QED BY <2>1, <2>2, Zenon DEF turn
<1>6. \E f : table(f)
  <2>1. \A i \in D : known[i] = turn(known, i)
    <3>1. \A i \in D : turn(known, i) \in BOOLEAN
      BY DEF turn
    <3> QED BY <1>3, <1>5, <3>1
  <2>2. known = [i \in D |-> turn(known, i)]
    BY <1>3, <2>1, Zenon
  <2> QED BY <2>2, Zenon DEF table
<1>7. table(at)
  BY <1>6, Zenon DEF at
<1>8. \A i \in D : at[i] = turn(at, i)
  BY <1>7, Zenon DEF table
<1>9. ASSUME NEW n \in D PROVE at[n] <=> known[n]
  <2> DEFINE fails == {i \in D : ~ (at[i] <=> known[i])}
  <2>1. SUFFICES ASSUME fails # {} PROVE FALSE
    OBVIOUS
  <2>2. fails \subseteq D /\ fails \subseteq Nat
    BY <1>1
  <2> HIDE DEF fails
  <2>3. PICK m \in fails : \A i \in fails : m <= i
    BY <1>1, <2>1, <2>2, SmallestStop
  <2>4. m \in D /\ \A j \in 5 .. m - 1 : at[j] <=> known[j]
    BY <1>1, <2>2, <2>3 DEF fails
  <2>5. turn(at, m) <=> turn(known, m)
    BY <2>4, Zenon DEF turn
  <2>6. turn(known, m) <=> known[m]
    BY <1>3, <1>5, <2>4
  <2> QED BY <1>8, <2>3, <2>4, <2>5, <2>6 DEF fails
<1>10. Keywords(line) = {i \in 5 .. Len(line) : at[i]}
  BY Zenon DEF Keywords, at, table, turn
<1>11. ASSUME NEW i \in 5 .. Len(line) PROVE at[i] <=> i \in K
  <2>1. i \in D
    BY <1>1
  <2> QED BY <1>4, <1>9, <2>1, Zenon
<1>12. K \subseteq 5 .. Len(line)
  BY DEF Chain
<1> QED BY <1>10, <1>11, <1>12, Zenon

(* The groups of a line are the chain of its keywords.                     *)
LEMMA GroupsAreChain ==
  ASSUME NEW W, NEW line \in Seq(W), NEW K \in SUBSET (5 .. Len(line)),
         Groups(line, K)
  PROVE  Chain(line, K)
<1> DEFINE word(i) == Lower(line[i])
           taken(i) == \/ i - 1 \in K /\ word(i - 1) \in {"vers", "udp"}
                       \/ i - 2 \in K /\ word(i - 2) = "vers"
                       \/ \E j \in K : j < i /\ word(j) = "filter"
<1>1. \A i \in 5 .. Len(line) : i \notin K <=> taken(i)
  BY DEF Groups
<1>2. \A i : Width(word(i)) = IF word(i) = "vers" THEN 3 ELSE IF word(i) = "udp" THEN 2 ELSE 1
  BY DEF Width
<1>3. Len(line) \in Nat
  OBVIOUS
<1> SUFFICES ASSUME NEW i \in 5 .. Len(line)
             PROVE  i \in K <=> \/ i = 5
                               \/ \E j \in K : word(j) # "filter" /\ i = j + Width(word(j))
  BY DEF Chain
<1> HIDE DEF word
<1>4. i = 5 => i \in K
  BY <1>1, <1>3
<1>5. ASSUME NEW j \in K, word(j) # "filter", i = j + Width(word(j))
      PROVE  i \in K
  <2>1. j \in 5 .. Len(line) /\ ~ taken(j)
    BY <1>1
  <2>2. \A g \in K : word(g) = "filter" => g >= j
    BY <1>3, <2>1
  <2>3. CASE word(j) = "vers"
    <3>1. i = j + 3
      BY <1>2, <1>5, <2>3
    <3>2. j + 1 \notin K /\ j + 2 \notin K
      BY <1>1, <1>3, <2>1, <2>3, <3>1
    <3>3. ~ taken(i)
      BY <1>3, <1>5, <2>1, <2>2, <3>1, <3>2
    <3> QED BY <1>1, <3>3
  <2>4. CASE word(j) = "udp"
    <3>1. i = j + 2
      BY <1>2, <1>5, <2>4
    <3>2. j + 1 \notin K
      BY <1>1, <1>3, <2>1, <2>4, <3>1
    <3>3. ~ taken(i)
      BY <1>3, <1>5, <2>1, <2>2, <2>4, <3>1, <3>2
    <3> QED BY <1>1, <3>3
  <2>5. CASE word(j) \notin {"vers", "udp"}
    <3>1. i = j + 1
      BY <1>2, <1>5, <2>5
    <3>2. ~ (j - 1 \in K /\ word(j - 1) = "vers")
      BY <2>1
    <3>3. ~ taken(i)
      BY <1>3, <1>5, <2>1, <2>2, <2>5, <3>1, <3>2
    <3> QED BY <1>1, <3>3
  <2> QED BY <2>3, <2>4, <2>5
<1>6. ASSUME i \in K, i # 5
      PROVE  \E j \in K : word(j) # "filter" /\ i = j + Width(word(j))
  <2>1. ~ taken(i) /\ i - 1 \in 5 .. Len(line)
    BY <1>1, <1>3, <1>6
  <2>2. \A j \in K : j < i => word(j) # "filter"
    BY <2>1
  <2>3. CASE i - 1 \in K
    <3>1. word(i - 1) \notin {"vers", "udp", "filter"}
      BY <1>3, <2>1, <2>2, <2>3
    <3>2. i = (i - 1) + Width(word(i - 1))
      BY <1>2, <1>3, <3>1
    <3> QED BY <2>3, <3>1, <3>2
  <2>4. CASE i - 1 \notin K
    <3>1. \/ i - 2 \in K /\ word(i - 2) \in {"vers", "udp"}
          \/ i - 3 \in K /\ word(i - 3) = "vers"
      <4>1. taken(i - 1)
        BY <1>1, <2>1, <2>4
      <4>2. (i - 1) - 1 = i - 2 /\ (i - 1) - 2 = i - 3 /\ \A j \in K : j < i - 1 => j < i
        BY <1>3
      <4> QED BY <2>2, <4>1, <4>2
    <3>2. CASE i - 2 \in K /\ word(i - 2) \in {"vers", "udp"}
      <4>1. word(i - 2) = "udp"
        BY <2>1, <3>2
      <4>2. i = (i - 2) + Width(word(i - 2)) /\ word(i - 2) # "filter"
        BY <1>2, <1>3, <4>1
      <4> QED BY <3>2, <4>2
    <3>3. CASE i - 3 \in K /\ word(i - 3) = "vers"
      <4>1. i = (i - 3) + Width(word(i - 3)) /\ word(i - 3) # "filter"
        BY <1>2, <1>3, <3>3
      <4> QED BY <3>3, <4>1
    <3> QED BY <3>1, <3>2, <3>3
  <2> QED BY <2>3, <2>4
<1> QED BY <1>4, <1>5, <1>6

(* The loop stops where the groups begin.                                  *)
LEMMA KeywordsAreGroups ==
  ASSUME NEW W, NEW line \in Seq(W), NEW K \in SUBSET (5 .. Len(line)),
         Groups(line, K)
  PROVE  Keywords(line) = K
BY GroupsAreChain, KeywordsAreChain

(* At most one number is spelled by a word.                                *)
LEMMA OneNumber ==
  ASSUME NEW word, NEW range, NEW n \in NumberOf(word, range)
  PROVE  NumberOf(word, range) = {n}
BY DEF NumberOf

(* What a word that may be missing is put in sequence with.                *)
LEMMA SequenceOfOne ==
  SetToSeq({}) = <<>> /\ \A x : SetToSeq({x}) = <<x>>
<1>1. SetToSeq({}) = <<>>
  <2>1. Cardinality({}) = 0
    BY FS_EmptySet
  <2>2. \A f : f \in [1 .. Cardinality({}) -> {}] => f = <<>>
    BY <2>1
  <2>3. <<>> \in [1 .. Cardinality({}) -> {}] /\ IsInjective(<<>>)
    BY <2>1 DEF IsInjective
  <2> QED BY <2>2, <2>3 DEF SetToSeq
<1>2. ASSUME NEW x PROVE SetToSeq({x}) = <<x>>
  <2>1. Cardinality({x}) = 1
    BY FS_Singleton
  <2>2. \A f : f \in [1 .. Cardinality({x}) -> {x}] => f = <<x>>
    BY <2>1
  <2>3. <<x>> \in [1 .. Cardinality({x}) -> {x}] /\ IsInjective(<<x>>)
    BY <2>1 DEF IsInjective
  <2> QED BY <2>2, <2>3 DEF SetToSeq
<1> QED BY <1>1, <1>2

(* Two words that follow each other.                                       *)
LEMMA PairJoined == \A a : \A b : <<a>> \o <<b>> = <<a, b>>
<1> SUFFICES ASSUME NEW a, NEW b PROVE <<a>> \o <<b>> = <<a, b>>
  OBVIOUS
<1> DEFINE V == {a, b}
           s == <<a>>
           t == <<b>>
           pair == <<a, b>>
<1>1. /\ s \in Seq(V) /\ Len(s) = 1 /\ s[1] = a
      /\ t \in Seq(V) /\ Len(t) = 1 /\ t[1] = b
      /\ pair \in Seq(V) /\ Len(pair) = 2 /\ pair[1] = a /\ pair[2] = b
  OBVIOUS
<1> HIDE DEF s, t, V, pair
<1>2. /\ s \o t \in Seq(V) /\ Len(s \o t) = Len(s) + Len(t)
      /\ \A i \in 1 .. Len(s) + Len(t) :
           (s \o t)[i] = IF i <= Len(s) THEN s[i] ELSE t[i - Len(s)]
  BY <1>1, ConcatProperties, Zenon
<1>3. Len(s \o t) = 2 /\ (s \o t)[1] = a /\ (s \o t)[2] = b
  <2> DEFINE st == s \o t
  <2> HIDE DEF st
  <2>1. /\ Len(st) = Len(s) + Len(t)
        /\ \A i \in 1 .. Len(s) + Len(t) : st[i] = IF i <= Len(s) THEN s[i] ELSE t[i - Len(s)]
    BY <1>2, Zenon DEF st
  <2>2. Len(st) = 2 /\ st[1] = a /\ st[2] = b
    BY <1>1, <2>1
  <2> QED BY <2>2, Zenon DEF st
<1>4. s \o t = pair
  <2> DEFINE st == s \o t
  <2> HIDE DEF st
  <2>1. st \in Seq(V) /\ Len(st) = 2 /\ st[1] = a /\ st[2] = b
    BY <1>2, <1>3, Zenon DEF st
  <2>2. \A i \in 1 .. Len(st) : st[i] = pair[i]
    BY <1>1, <2>1
  <2>3. st = pair
    BY <1>1, <2>1, <2>2, SeqEqual
  <2> QED BY <2>3, Zenon DEF st
<1> QED BY <1>4 DEF s, t, pair

(* A keyword and its argument are two words of the line.                   *)
LEMMA PairOf ==
  ASSUME NEW W, NEW line \in Seq(W), NEW i \in Int,
         i + 1 \in 1 .. Len(line), i + 2 \in 1 .. Len(line)
  PROVE  SubSeq(line, i + 1, i + 2) = <<line[i + 1], line[i + 2]>>
<1> DEFINE s == SubSeq(line, i + 1, i + 2)
<1>1. s \in Seq(W) /\ Len(s) = 2 /\ s[1] = line[i + 1] /\ s[2] = line[i + 2]
  OBVIOUS
<1> HIDE DEF s
<1>2. s = <<s[1], s[2]>>
  BY <1>1
<1> QED BY <1>1, <1>2 DEF s

(* A line the grammar does not have is not parsed.                         *)
LEMMA BrokenFails ==
  ASSUME NEW W, NEW line \in Seq(W), NEW K \in SUBSET (5 .. Len(line)),
         Groups(line, K), Broken(line, K)
  PROVE  ParseLogin(line) = {}
<1>1. Stops(line, "udp") = GroupsOf(line, K, "udp")
  BY KeywordsAreGroups DEF Stops, GroupsOf
<1>2. ASSUME NEW i \in GroupsOf(line, K, "udp"),
             i = Len(line) \/ NumberOf(line[i + 1], Ports) = {}
      PROVE  PortAt(line, i + 1) = {}
  <2>1. i \in 5 .. Len(line)
    BY DEF GroupsOf
  <2>2. WordAt(line, i + 1) = {} \/ NumberOf(line[i + 1], Ports) = {}
    BY <1>2, <2>1 DEF WordAt
  <2>3. \A word \in WordAt(line, i + 1) : word = line[i + 1]
    BY DEF WordAt
  <2> QED BY <2>2, <2>3, Zenon DEF PortAt
<1>3. CASE \E i \in GroupsOf(line, K, "udp") :
             i = Len(line) \/ NumberOf(line[i + 1], Ports) = {}
  <2>1. \E i \in Stops(line, "udp") : PortAt(line, i + 1) = {}
    BY <1>1, <1>2, <1>3
  <2> QED BY <2>1, Zenon DEF ParseLogin
<1>4. CASE \/ Len(line) < 4 \/ Lower(line[1]) # "user" \/ ~ ParsesAsLogin(line[2])
           \/ Lower(line[3]) # "pass"
  BY <1>4, Zenon DEF ParseLogin
<1>5. CASE NumberOf(line[4], I32) = {}
  BY <1>5, Zenon DEF ParseLogin
<1> QED BY <1>3, <1>4, <1>5, Zenon DEF Broken

(* A parsed line says what is meant.                                       *)
ReadAs(asked, means) ==
  /\ asked.callsign = means.callsign
  /\ (Verify(asked.callsign, asked.passcode) = "valid") = means.verified
  /\ {<<name>> \o SetToSeq(asked.version) : name \in asked.software} = means.software
  /\ asked.filter \cap Chains = means.filter

(* A line it has is parsed, and read as it is spelled.                     *)
LEMMA SpelledParses ==
  ASSUME NEW W, NEW line \in Seq(W), NEW K \in SUBSET (5 .. Len(line)),
         Groups(line, K), ~ Broken(line, K)
  PROVE  /\ ParseLogin(line) # {}
         /\ \A asked \in ParseLogin(line) : \A means :
              Spelled(line, K, means) => ReadAs(asked, means)
<1> DEFINE read(code) ==
             [callsign |-> line[2],
              passcode |-> code,
              software |-> WordBehind(line, "vers", 1),
              version |-> WordBehind(line, "vers", 2),
              udp |-> UNION {NumberOf(word, Ports) : word \in WordBehind(line, "udp", 1)},
              filter |-> {SubSeq(line, i + 1, Len(line)) :
                            i \in Stops(line, "filter") \ {Len(line)}}]
<1>1. \A keyword : Stops(line, keyword) = GroupsOf(line, K, keyword)
  BY KeywordsAreGroups DEF Stops, GroupsOf
<1>2. \A i \in Stops(line, "udp") : PortAt(line, i + 1) # {}
  <2> SUFFICES ASSUME NEW i \in GroupsOf(line, K, "udp") PROVE PortAt(line, i + 1) # {}
    BY <1>1
  <2>1. i \in 5 .. Len(line) /\ i # Len(line) /\ NumberOf(line[i + 1], Ports) # {}
    BY DEF GroupsOf, Broken
  <2>2. line[i + 1] \in WordAt(line, i + 1)
    BY <2>1 DEF WordAt
  <2> QED BY <2>1, <2>2 DEF PortAt
<1>3. ParseLogin(line) = {read(code) : code \in NumberOf(line[4], I32)}
  BY <1>2, Zenon DEF ParseLogin, Broken
<1>4. NumberOf(line[4], I32) # {}
  BY Zenon DEF Broken
<1>5. ParseLogin(line) # {}
  <2> HIDE DEF read
  <2> QED BY <1>3, <1>4
<1>6. ASSUME NEW asked \in ParseLogin(line), NEW means, Spelled(line, K, means)
      PROVE  ReadAs(asked, means)
  <2> DEFINE last == {i \in GroupsOf(line, K, "vers") \ {Len(line)} :
                        \A j \in GroupsOf(line, K, "vers") : j <= i}
  <2>1. PICK code \in NumberOf(line[4], I32) :
          asked = read(code)
    <3> HIDE DEF read
    <3> QED BY <1>3, <1>6
  <2>2. /\ asked.callsign = line[2] /\ asked.passcode = code
        /\ asked.software = WordBehind(line, "vers", 1)
        /\ asked.version = WordBehind(line, "vers", 2)
        /\ asked.filter = {SubSeq(line, i + 1, Len(line)) :
                             i \in Stops(line, "filter") \ {Len(line)}}
    BY <2>1, Zenon
  <2> HIDE DEF read
  <2>3. /\ means.callsign = line[2]
        /\ \E n \in NumberOf(line[4], I32) :
             means.verified = (n # ReceiveOnly /\ n = Generate(Bytes[line[2]]))
        /\ means.software = {SubSeq(line, i + 1, i + (IF i + 1 = Len(line) THEN 1 ELSE 2)) :
                               i \in last}
        /\ means.filter = {SubSeq(line, i + 1, Len(line)) :
                             i \in GroupsOf(line, K, "filter") \ {Len(line)}} \cap Chains
    BY <1>6, Zenon DEF Spelled
  <2> HIDE DEF last
  <2>4. (Verify(asked.callsign, asked.passcode) = "valid") = means.verified
    <3>1. PICK n \in NumberOf(line[4], I32) :
            means.verified = (n # ReceiveOnly /\ n = Generate(Bytes[line[2]]))
      BY <2>3
    <3>2. n = code
      BY <2>1, <3>1, OneNumber
    <3>3. Verify(line[2], code) = "valid" <=> code # ReceiveOnly /\ code = Generate(Bytes[line[2]])
      BY DEF Verify
    <3> QED BY <2>2, <3>1, <3>2, <3>3, Zenon
  <2>5. asked.filter \cap Chains = means.filter
    <3>1. Stops(line, "filter") = GroupsOf(line, K, "filter")
      BY <1>1
    <3> QED BY <2>2, <2>3, <3>1, Zenon
  <2>6. {<<name>> \o SetToSeq(asked.version) : name \in asked.software} = means.software
    <3>1. \A i \in last :
            /\ i \in 5 .. Len(line) /\ i # Len(line)
            /\ i \in GroupsOf(line, K, "vers")
            /\ \A j \in GroupsOf(line, K, "vers") : j <= i
      BY DEF last, GroupsOf
    <3>2. ASSUME NEW n \in {1, 2}
          PROVE  WordBehind(line, "vers", n) = UNION {WordAt(line, i + n) : i \in last}
      <4> DEFINE stop == {i \in Stops(line, "vers") : \A j \in Stops(line, "vers") : j <= i}
      <4>1. stop = last \/ (last = {} /\ stop \subseteq {Len(line)})
        <5>1. stop = {i \in GroupsOf(line, K, "vers") :
                        \A j \in GroupsOf(line, K, "vers") : j <= i}
          BY <1>1
        <5>2. last = stop \ {Len(line)}
          BY <5>1, Zenon DEF last
        <5> HIDE DEF stop
        <5>3. ASSUME NEW i \in stop, NEW j \in stop PROVE i = j
          <6>1. i <= j /\ j <= i
            BY <5>1
          <6>2. i \in 5 .. Len(line) /\ j \in 5 .. Len(line)
            BY <5>1 DEF GroupsOf
          <6> QED BY <6>1, <6>2
        <5> QED BY <5>2, <5>3
      <4>2. WordAt(line, Len(line) + n) = {}
        BY DEF WordAt
      <4>3. WordBehind(line, "vers", n) = UNION {WordAt(line, i + n) : i \in stop}
        BY Zenon DEF WordBehind
      <4> HIDE DEF stop
      <4> QED BY <4>1, <4>2, <4>3
    <3>3. CASE last = {}
      <4>1. asked.software = {} /\ means.software = {}
        BY <2>2, <2>3, <3>2, <3>3
      <4> QED BY <4>1
    <3>4. CASE last # {}
      <4>1. PICK i \in last : TRUE
        BY <3>4
      <4>2. last = {i}
        <5>1. ASSUME NEW j \in last PROVE j = i
          <6>1. j <= i /\ i <= j
            BY <3>1, <4>1, <5>1, Zenon
          <6>2. i \in 5 .. Len(line) /\ j \in 5 .. Len(line)
            BY <3>1
          <6> QED BY <6>1, <6>2
        <5> QED BY <4>1, <5>1
      <4>3. i + 1 \in 1 .. Len(line) /\ i \in Int
        BY <3>1, <4>1
      <4>4. asked.software = WordAt(line, i + 1) /\ asked.version = WordAt(line, i + 2)
        <5>1. /\ WordBehind(line, "vers", 1) = UNION {WordAt(line, g + 1) : g \in {i}}
              /\ WordBehind(line, "vers", 2) = UNION {WordAt(line, g + 2) : g \in {i}}
          BY <3>2, <4>2
        <5>2. \A n : UNION {WordAt(line, g + n) : g \in {i}} = WordAt(line, i + n)
          OBVIOUS
        <5> QED BY <2>2, <5>1, <5>2
      <4>5. asked.software = {line[i + 1]}
        BY <4>3, <4>4 DEF WordAt
      <4>6. asked.version = IF i + 1 = Len(line) THEN {} ELSE {line[i + 2]}
        BY <4>3, <4>4 DEF WordAt
      <4>7. means.software = {SubSeq(line, i + 1, i + (IF i + 1 = Len(line) THEN 1 ELSE 2))}
        BY <2>3, <4>2
      <4>8. <<line[i + 1]>> \o SetToSeq(asked.version)
              = SubSeq(line, i + 1, i + (IF i + 1 = Len(line) THEN 1 ELSE 2))
        <5>1. CASE i + 1 = Len(line)
          BY <4>3, <4>6, <5>1, SequenceOfOne
        <5>2. CASE i + 1 # Len(line)
          <6>1. SetToSeq(asked.version) = <<line[i + 2]>>
            BY <4>6, <5>2, SequenceOfOne
          <6>2. i + 2 \in 1 .. Len(line) /\ i + 1 \in 1 .. Len(line)
            BY <4>3, <5>2
          <6>3. SubSeq(line, i + 1, i + 2) = <<line[i + 1], line[i + 2]>>
            BY <4>3, <6>2, PairOf
          <6>4. <<line[i + 1]>> \o <<line[i + 2]>> = <<line[i + 1], line[i + 2]>>
            BY PairJoined
          <6> QED BY <5>2, <6>1, <6>3, <6>4
        <5> QED BY <5>1, <5>2
      <4> QED BY <4>5, <4>7, <4>8
    <3> QED BY <3>3, <3>4
  <2> QED BY <2>2, <2>3, <2>4, <2>5, <2>6 DEF ReadAs
<1> QED BY <1>5, <1>6

-----------------------------------------------------------------------------
(* From the line to the registration.                                      *)

Before == {"absent", "accepted", "banner", "login"}
Between == {"ack", "opening", "inserting"}

(* Nothing but the parse of the line it sent stands behind what a          *)
(* connection asks for, from its login on, and a refused line has none.    *)
LoginKept ==
  \A c \in Conn :
    /\ pc[c] \in Before => login[c] = "none"
    /\ login[c] = "malformed" =>
         said[c] \in FirstLine /\ ParseLogin(said[c].words) = {}
    /\ pc[c] \in Between \/ client[c] # NoClient =>
         /\ said[c] \in FirstLine
         /\ request[c] \in ParseLogin(said[c].words)
         /\ login[c] = Verify(request[c].callsign, request[c].passcode)

(* Every step keeps it.                                                    *)
LEMMA LoginStep ==
  ASSUME TypeOK, LoginFirst, LoginKept, [Next]_vars
  PROVE  LoginKept'
<1> DEFINE Kept(d) ==
             /\ pc[d] \in Before => login[d] = "none"
             /\ login[d] = "malformed" =>
                  said[d] \in FirstLine /\ ParseLogin(said[d].words) = {}
             /\ pc[d] \in Between \/ client[d] # NoClient =>
                  /\ said[d] \in FirstLine
                  /\ request[d] \in ParseLogin(said[d].words)
                  /\ login[d] = Verify(request[d].callsign, request[d].passcode)
<1> SUFFICES ASSUME NEW d \in Conn PROVE Kept(d)'
  BY DEF LoginKept
<1> USE DEF Go, handshakeVars, clientVars, Before, Between
<1>0. /\ pc \in [Conn -> Position] /\ DOMAIN request = Conn /\ DOMAIN client = Conn
      /\ login \in [Conn -> {"none"} \cup Accepted \cup Refused]
      /\ said \in [Conn -> FirstLine \cup {NoLine}]
      /\ Kept(d)
      /\ client[d] # NoClient => pc[d] \notin Before
  BY DEF TypeOK, ClientsAsRequested, LoginKept, LoginFirst
<1>1. ASSUME NEW c \in Conn, NEW to, Go(c, to), UNCHANGED <<said, login, request, client>>,
             to \in Before => pc[c] \in Before, to \in Between => pc[c] \in Between
      PROVE  Kept(d)'
  <2> HIDE DEF Before, Between
  <2> QED BY <1>0, <1>1
<1>a. ASSUME NEW c \in Conn,
             Accept(c) \/ CheckCap(c) \/ WriteBanner(c) \/ HandshakeFails(c)
               \/ Acknowledge(c) \/ OpenRow(c)
      PROVE  Kept(d)'
  <2> HIDE DEF Kept
  <2> QED BY <1>1, <1>a DEF Accept, CheckCap, WriteBanner, HandshakeFails, Acknowledge, OpenRow
<1>b. ASSUME NEW c \in Conn,
             EndService(c) \/ Part(c) \/ Abort(c) \/ ClientGoes(c) \/ SeeShutdown(c)
               \/ Count(c) \/ Unregister(c) \/ Uncount(c) \/ CloseRow(c)
      PROVE  Kept(d)'
  <2> HIDE DEF Kept
  <2> QED BY <1>1, <1>b DEF EndService, Part, Abort, ClientGoes, SeeShutdown, StopReading,
                            Count, Unregister, Uncount, CloseRow
<1>2. ASSUME NEW c \in Conn, NEW line \in FirstLine, LogIn(c, line) PROVE Kept(d)'
  <2>1. PICK asked \in ParseLogin(line.words) :
          /\ request' = [request EXCEPT ![c] = asked]
          /\ login' = [login EXCEPT ![c] = Verify(asked.callsign, asked.passcode)]
    BY <1>2 DEF LogIn
  <2>2. /\ pc' = [pc EXCEPT ![c] = "ack"] /\ said' = [said EXCEPT ![c] = line]
        /\ client' = client
    BY <1>2 DEF LogIn, Say
  <2>3. Verify(asked.callsign, asked.passcode) # "malformed"
    BY VerifyType DEF Accepted
  <2>4. CASE d = c
    BY <1>0, <2>1, <2>2, <2>3, <2>4
  <2>5. CASE d # c
    BY <1>0, <2>1, <2>2, <2>5
  <2> QED BY <2>4, <2>5
<1>3. ASSUME NEW c \in Conn, NEW line \in FirstLine, Malformed(c, line) PROVE Kept(d)'
  <2>1. /\ pc[c] = "login" /\ pc' = [pc EXCEPT ![c] = "closed"]
        /\ said' = [said EXCEPT ![c] = line] /\ login' = [login EXCEPT ![c] = "malformed"]
        /\ ParseLogin(line.words) = {} /\ client' = client /\ request' = request
    BY <1>3 DEF Malformed, Refuse, Say
  <2>2. CASE d = c
    BY <1>0, <2>1, <2>2
  <2>3. CASE d # c
    BY <1>0, <2>1, <2>3
  <2> QED BY <2>2, <2>3
<1>4. ASSUME NEW c \in Conn, LeavesEarly(c) \/ LoginTimesOut(c) PROVE Kept(d)'
  <2>1. /\ pc[c] = "login" /\ pc' = [pc EXCEPT ![c] = "closed"]
        /\ said' = said /\ login' = [login EXCEPT ![c] = "silent"]
        /\ client' = client /\ request' = request
    BY <1>4 DEF LeavesEarly, LoginTimesOut, Refuse
  <2>2. CASE d = c
    BY <1>0, <2>1, <2>2
  <2>3. CASE d # c
    BY <1>0, <2>1, <2>3
  <2> QED BY <2>2, <2>3
<1>5. ASSUME NEW c \in Conn, Insert(c) PROVE Kept(d)'
  <2>1. /\ pc[c] = "inserting" /\ pc' = [pc EXCEPT ![c] = "counting"]
        /\ UNCHANGED <<said, login, request>>
        /\ client' = [client EXCEPT ![c] = Registration(c)]
    BY <1>5 DEF Insert
  <2>2. CASE d = c
    BY <1>0, <2>1, <2>2
  <2>3. CASE d # c
    BY <1>0, <2>1, <2>3
  <2> QED BY <2>2, <2>3
<1>6. ASSUME UNCHANGED <<pc, said, login, request, client>> PROVE Kept(d)'
  BY <1>0, <1>6
<1>7. ASSUME NEW c \in Conn,
             Wait(c) \/ Noise(c) \/ Receive(c) \/ StopsReading(c) \/ WriterFails(c)
               \/ SayFarewell(c)
      PROVE  Kept(d)'
  <2> HIDE DEF Kept
  <2> QED BY <1>6, <1>7 DEF Wait, Noise, Receive, StopsReading, WriterFails, SayFarewell
<1>8. ASSUME \/ \E l \in Listener : StopAccepting(l)
             \/ DispatchTask \/ Trigger \/ Run \/ UNCHANGED vars
      PROVE  Kept(d)'
  <2> HIDE DEF Kept
  <2> QED BY <1>6, <1>8 DEF StopAccepting, DispatchTask, Process, DispatchEnds, Trigger,
                            Run, JoinAccepts, SaveAndReturn, vars
<1> HIDE DEF Kept
<1> QED
  BY <1>a, <1>b, <1>2, <1>3, <1>4, <1>5, <1>7, <1>8 DEF Next, Peer, Serve

(* A client is registered as its line means, whichever line of the grammar *)
(* it is, in any spelling and on any port, and a line the grammar does not *)
(* have gets no client (read_login, LoginRequest::parse, initial_filter).  *)
THEOREM LoginsAreAsWritten == Spec => []LoginAsWritten
<1>1. Init => LoginKept
  BY DEF Init, LoginKept, Before, Between
<1>2. SessionsInv /\ LoginKept /\ [Next]_vars => LoginKept'
  BY LoginStep DEF SessionsInv
<1>3. SessionsInv /\ LoginKept => LoginAsWritten
  <2> SUFFICES ASSUME SessionsInv, LoginKept, NEW c \in Conn
               PROVE  /\ login[c] = "malformed" => said[c].means = {}
                      /\ client[c] # NoClient =>
                           \E means \in said[c].means :
                             /\ client[c].callsign = means.callsign
                             /\ client[c].verified = means.verified
                             /\ client[c].software = means.software
                             /\ client[c].filter = FilterMeant(On[c], means)
                             /\ \A l \in Listener :
                                  InitialFilter(l, request[c].filter) = FilterMeant(l, means)
    BY Zenon DEF LoginAsWritten
  <2> DEFINE line == said[c].words
  <2>1. ASSUME said[c] \in FirstLine
        PROVE  /\ line \in Seq(STRING)
               /\ \E K \in SUBSET (5 .. Len(line)) :
                    /\ Groups(line, K)
                    /\ IF Broken(line, K) THEN said[c].means = {}
                       ELSE \E means \in said[c].means :
                              said[c].means = {means} /\ Spelled(line, K, means)
    BY <2>1, LinesMean, Zenon
  <2> HIDE DEF line
  <2>2. login[c] = "malformed" => said[c].means = {}
    <3> SUFFICES ASSUME login[c] = "malformed" PROVE said[c].means = {}
      OBVIOUS
    <3>1. said[c] \in FirstLine /\ ParseLogin(line) = {}
      BY Zenon DEF LoginKept, line
    <3>2. PICK K \in SUBSET (5 .. Len(line)) :
            /\ Groups(line, K)
            /\ IF Broken(line, K) THEN said[c].means = {}
               ELSE \E means \in said[c].means :
                      said[c].means = {means} /\ Spelled(line, K, means)
      BY <2>1, <3>1, Zenon
    <3>3. Broken(line, K)
      BY <2>1, <3>1, <3>2, SpelledParses, Zenon
    <3> QED BY <3>2, <3>3, Zenon
  <2>3. ASSUME client[c] # NoClient
        PROVE  \E means \in said[c].means :
                 /\ client[c].callsign = means.callsign
                 /\ client[c].verified = means.verified
                 /\ client[c].software = means.software
                 /\ client[c].filter = FilterMeant(On[c], means)
                 /\ \A l \in Listener :
                      InitialFilter(l, request[c].filter) = FilterMeant(l, means)
    <3>1. /\ said[c] \in FirstLine /\ request[c] \in ParseLogin(line)
          /\ login[c] = Verify(request[c].callsign, request[c].passcode)
      BY <2>3, Zenon DEF LoginKept, line
    <3>2. PICK K \in SUBSET (5 .. Len(line)) :
            /\ Groups(line, K)
            /\ IF Broken(line, K) THEN said[c].means = {}
               ELSE \E means \in said[c].means :
                      said[c].means = {means} /\ Spelled(line, K, means)
      BY <2>1, <3>1, Zenon
    <3>3. ~ Broken(line, K)
      BY <2>1, <3>1, <3>2, BrokenFails, Zenon
    <3>4. PICK means \in said[c].means : Spelled(line, K, means)
      BY <3>2, <3>3, Zenon
    <3>5. ReadAs(request[c], means)
      BY <2>1, <3>1, <3>2, <3>3, <3>4, SpelledParses, Zenon
    <3>6. client[c] = Registration(c)
      BY <2>3 DEF SessionsInv, TypeOK, ClientsAsRequested
    <3>7. /\ client[c].callsign = request[c].callsign
          /\ client[c].verified = (login[c] = "valid")
          /\ client[c].software = {<<name>> \o SetToSeq(request[c].version) :
                                     name \in request[c].software}
          /\ client[c].filter = InitialFilter(On[c], request[c].filter)
      <4> DEFINE software == {<<name>> \o SetToSeq(request[c].version) :
                                name \in request[c].software}
                 filter == InitialFilter(On[c], request[c].filter)
      <4>1. client[c] = [callsign |-> request[c].callsign, verified |-> login[c] = "valid",
                         software |-> software, filter |-> filter,
                         locked |-> FilterLocked(On[c])]
        BY <3>6, Zenon DEF Registration
      <4> HIDE DEF software, filter
      <4>2. /\ client[c].callsign = request[c].callsign
            /\ client[c].verified = (login[c] = "valid")
            /\ client[c].software = software /\ client[c].filter = filter
        BY <4>1
      <4> QED BY <4>2, Zenon DEF software, filter
    <3>8. \A l : InitialFilter(l, request[c].filter) = FilterMeant(l, means)
      BY <3>5, Zenon DEF ReadAs, InitialFilter, FilterMeant
    <3> QED BY <3>1, <3>4, <3>5, <3>7, <3>8, Zenon DEF ReadAs
  <2> QED BY <2>2, <2>3
<1> QED BY <1>1, <1>2, <1>3, SessionsInvariant, PTL DEF Spec

=============================================================================
