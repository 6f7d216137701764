------------------------------- MODULE Startup -------------------------------
(***************************************************************************)
(* From an aprsc.conf to sockets: convert-config writes aprsr.toml, the    *)
(* operator may edit it, check-config and run load it, and run makes the   *)
(* run directory, opens the database and binds the listeners               *)
(* (aprsr/src/commands.rs, aprsr-server/src/listener.rs).                  *)
(*                                                                         *)
(* What happens once the server serves is in the other modules; what it    *)
(* loads from the database is in PositionStore.                            *)
(***************************************************************************)
EXTENDS Aprsc

CONSTANTS
  Edits,         \* bound: what the operator may write in the file
  NewNames,      \* bound: how the operator may rename a listener
  Environments,  \* bound: the APRSR_ variables a command may run with
  Ephemeral,     \* bound: the ports the system picks from for port 0
  Needs          \* url -> the directories it needs

ASSUME PortsReal == Ephemeral \subseteq U16 \ {0}

ASSUME ArraysListed ==
  \A e \in Environments : "listen" \in DOMAIN e => e.listen \in Seq(Range(e.listen))

VARIABLES
  file,          \* aprsr.toml
  edited,        \* history: whether the operator changed it (bound: once)
  environment,   \* the APRSR_ variables of the command that runs, or ran last
  running,       \* the Config it loaded
  dirs,          \* the directories that exist
  at,            \* how many listeners bind_all is done with
  bound,         \* what it has bound: [name, address]
  phase          \* where the command is, or the error it ended with

startVars == <<file, edited, environment, running, dirs, at, bound, phase>>
vars == <<convertVars, startVars>>

NoDocument == [settings |-> <<>>, listen |-> <<>>, uplink |-> <<>>]

(* The environment without a variable.                                     *)
NoVariables == [settings |-> <<>>]

NoConfig == [listeners |-> <<>>]

ConfigErrors ==
  {"Read", "PlaceholderServerId", "InvalidServerId", "NoListeners",
   "DuplicateListenerName", "InvalidListenerFilter"}

(* Why a start fails that the configuration alone does not tell.           *)
StartErrors == {"RunDir", "Database", "Bind", "NoTcpListeners"}

Idle == {"written", "loaded"} \cup ConfigErrors \cup StartErrors

Init ==
  /\ ConvertInit
  /\ file = NoDocument
  /\ edited = FALSE
  /\ environment = NoVariables
  /\ running = NoConfig
  /\ dirs = {}
  /\ at = 0
  /\ bound = <<>>
  /\ phase = "converting"

Converting ==
  /\ phase = "converting"
  /\ Convert
  /\ UNCHANGED startVars

(* The rest of convert_config: the warning of the placeholder, the file.   *)
WriteFile ==
  /\ phase = "converting"
  /\ outcome = "converted"
  /\ warnings' = warnings \cup
       {[line |-> 0, about |-> id] : id \in {id \in {config.id} :
                                        Folded(id) = Folded(PlaceholderId)}}
  /\ \/ /\ Rendered(config) = {}
        /\ phase' = "Serialise"
        /\ UNCHANGED file
     \/ /\ \E document \in Rendered(config) : file' = document
        /\ phase' = "written"
  /\ UNCHANGED <<text, config, outcome, edited, environment, running, dirs, at, bound>>

(* The operator sets keys of the file, or renames a listener.              *)
Edit ==
  /\ phase \in Idle
  /\ ~ edited
  /\ edited' = TRUE
  /\ \/ \E edit \in Edits : file' = [file EXCEPT !.settings = Over(edit, @)]
     \/ \E i \in DOMAIN file.listen, name \in NewNames :
          file' = [file EXCEPT !.listen[i] = Over([name |-> name], @)]
  /\ phase' = "written"
  /\ UNCHANGED <<convertVars, environment, running, dirs, at, bound>>

Verdict(loaded) == IF loaded = {} THEN "Read"
                   ELSE Complaint(CHOOSE c \in loaded : TRUE)

(* Config::load.  check-config ends here.                                  *)
Load ==
  /\ phase \in Idle
  /\ \E overrides \in Environments :
       LET loaded == Extracted(Merged(file, overrides)) IN
       /\ environment' = overrides
       /\ \/ /\ Verdict(loaded) # "none"
             /\ phase' = Verdict(loaded)
             /\ running' = NoConfig
          \/ /\ Verdict(loaded) = "none"
             /\ phase' = "loaded"
             /\ running' \in loaded
  /\ at' = 0
  /\ bound' = <<>>
  /\ UNCHANGED <<convertVars, file, edited, dirs>>

(* run: create_dir_all, unless run_dir is empty.                           *)
MakeRunDir ==
  /\ phase = "loaded"
  /\ \/ phase' = "opening" /\ dirs' = dirs \cup ({running.run_dir} \ {NoText})
     \/ phase' = "RunDir" /\ running.run_dir # NoText /\ UNCHANGED dirs
  /\ UNCHANGED <<convertVars, file, edited, environment, running, at, bound>>

(* run: Store::connect.                                                    *)
OpenStore ==
  /\ phase = "opening"
  /\ \/ phase' = "binding" /\ Needs[running.url] \subseteq dirs
     \/ phase' = "Database"
  /\ UNCHANGED <<convertVars, file, edited, environment, running, dirs, at, bound>>

Upcoming == running.listeners[at + 1]

Binding == phase = "binding" /\ at < Len(running.listeners)

(* TcpListener::bind: the address itself, or for port 0 one at a port that *)
(* the system picks (what local_addr then tells), and none a second time.  *)
(* Why the system refuses others, for a wildcard in the way say, is left   *)
(* open.                                                                   *)
Assigned(bind) ==
  {<<bind[1], port>> : port \in IF bind[2] = 0 THEN Ephemeral ELSE {bind[2]}}

Taken(address) == \E i \in DOMAIN bound : bound[i].address = address

(* bind_all ends with an error: the sockets bound so far are closed.       *)
Abandon(error) == phase' = error /\ bound' = <<>> /\ UNCHANGED at

(* One turn of the loop of bind_all.                                       *)
BindListener ==
  /\ Binding
  /\ \/ /\ Upcoming.filter \ Chains # {}
        /\ Abandon("InvalidListenerFilter")
     \/ /\ Upcoming.filter \subseteq Chains
        /\ Upcoming.protocol = "udp"
        /\ at' = at + 1
        /\ UNCHANGED <<bound, phase>>
     \/ /\ Upcoming.filter \subseteq Chains
        /\ Upcoming.protocol = "tcp"
        /\ \/ /\ \E local \in Assigned(Upcoming.bind) :
                   /\ ~ Taken(local)
                   /\ bound' = Append(bound, [name |-> Upcoming.name, address |-> local])
              /\ at' = at + 1
              /\ UNCHANGED phase
           \/ Abandon("Bind")
  /\ UNCHANGED <<convertVars, file, edited, environment, running, dirs>>

(* The end of bind_all, and of Server::bind.                               *)
Serve ==
  /\ phase = "binding"
  /\ at = Len(running.listeners)
  /\ phase' = IF bound = <<>> THEN "NoTcpListeners" ELSE "serving"
  /\ UNCHANGED <<convertVars, file, edited, environment, running, dirs, at, bound>>

Next ==
  \/ Converting \/ WriteFile \/ Edit \/ Load
  \/ MakeRunDir \/ OpenStore \/ BindListener \/ Serve

Spec == Init /\ [][Next]_vars

-----------------------------------------------------------------------------

(* What was written is read back: a converted file that nobody edited and  *)
(* no variable overrides is never unreadable, is refused for its           *)
(* placeholder only after a warning, and loads as the configuration that   *)
(* was converted, intervals and omitted options included (to_toml against  *)
(* load, Display against parse).                                           *)
LoadsAsConverted ==
  ~ edited /\ environment = NoVariables =>
    /\ phase # "Read"
    /\ phase = "PlaceholderServerId" =>
         [line |-> 0, about |-> config.id] \in warnings
    /\ running \in {NoConfig, config}

(* The listeners that are meant: those of the environment, if it has any   *)
(* of its own, and otherwise those that were converted.                    *)
Meant ==
  IF "listen" \in DOMAIN environment
    THEN [i \in DOMAIN environment.listen |-> Over(environment.listen[i], ListenerDefault)]
    ELSE config.listeners

(* How many of the first i of them are on TCP.                             *)
TcpUpTo(i) == Cardinality({j \in 1 .. i : Meant[j].protocol = "tcp"})

(* A server that serves has an identity of its own, whether the text, the  *)
(* operator or the environment gave it; it listens at the addresses of the *)
(* TCP listeners that were meant, in their order and at no other, with a   *)
(* real port for each port 0, and under names that differ by more than     *)
(* case, whoever gave them; no two of its sockets are the same; and each   *)
(* client of a port with a filter is held to one that parses.              *)
ServesAsWritten ==
  phase = "serving" =>
    /\ Folded(running.id) # Folded(PlaceholderId)
    /\ ParsesAsLogin(Word(running.id))
    /\ Len(bound) = TcpUpTo(Len(Meant))
    /\ \A i \in DOMAIN Meant :
         Meant[i].protocol = "tcp" =>
           LET local == bound[TcpUpTo(i)].address IN
           /\ local[1] = Meant[i].bind[1]
           /\ IF Meant[i].bind[2] = 0 THEN local[2] # 0 ELSE local[2] = Meant[i].bind[2]
    /\ \A i, j \in DOMAIN bound :
         i # j => /\ Folded(bound[i].name) # Folded(bound[j].name)
                  /\ bound[i].address # bound[j].address
    /\ \A i \in DOMAIN running.listeners : running.listeners[i].filter \subseteq Chains
=============================================================================
