----------------------------- MODULE ServerStart -----------------------------
(***************************************************************************)
(* How a profile gets its one server, and loses it: the command that finds  *)
(* none and starts one (src/src/server/start.ts), the lock that keeps two   *)
(* commands from starting two, the socket a server binds before it logs in  *)
(* (#listen of src/src/server/server.ts), the mark a refused login leaves   *)
(* (src/src/commands/serve.ts), and the ways a server ends.                 *)
(*                                                                          *)
(* The socket is a file and a listener: the file of a server that crashed   *)
(* stays, and removing the file of one that runs leaves it where nobody     *)
(* finds it.  What the server does once it is up is MaxServer's.            *)
(***************************************************************************)
EXTENDS Integers, FiniteSets

CONSTANTS
  Callers,       \* commands that need the profile's server
  MaxServers     \* bound on the servers started

ASSUME StartAssumption == MaxServers \in Nat

Servers == 1 .. MaxServers
NoServer == 0

VARIABLES
  socket,     \* whose file is at the socket's path
  lock,       \* whose start made <profile>.sock.starting
  mark,       \* is there a fresh <profile>.sock.refused?
  phase,      \* each server
  hand,       \* servers started by hand
  calls,      \* each caller
  deaf,       \* servers that were told to stop before they had a listener, and will not stop again
  raced       \* history: one of the exceptions of OneServer has happened

startVars == << socket, lock, mark, phase, hand, calls, deaf, raced >>

StartInit ==
  /\ socket = NoServer /\ lock = NoServer /\ mark = FALSE
  /\ phase = [s \in Servers |-> "none"]
  /\ hand = {}
  /\ calls = [c \in Callers |-> "idle"]
  /\ deaf = {}
  /\ raced = FALSE

\* A server that is deaf goes on listening when its login was refused.
Listening(s) == phase[s] \in {"logs in", "up"} \/ (s \in deaf /\ phase[s] = "marks")
Answers == socket # NoServer /\ Listening(socket)
Starting(s) == phase[s] \in {"started", "probed", "logs in", "drops", "leaves", "fails"}
Unborn == { s \in Servers : phase[s] = "none" }
NextServer == CHOOSE s \in Unborn : \A t \in Unborn : s <= t

Call(c, place) == calls' = [calls EXCEPT ![c] = place]
Phase(s, place) == phase' = [phase EXCEPT ![s] = place]

----------------------------------------------------------------------------
\* stop, on a server that listens: it closes, and a login under way goes on; or it is deaf, and says it does.
AfterStop(s) ==
  IF s \in deaf THEN phase[s] ELSE IF phase[s] = "logs in" THEN "drops" ELSE "stops"

\* ensureServer: one that answers is used, unless a command of another version started it; and
\* `max server start` (detached), which starts one by hand beside one that was not, to replace it.
Ensure(c) ==
  /\ calls[c] = "idle"
  /\ \/ Answers /\ socket \notin hand /\ Call(c, "replaces")
     \/ ~(Answers /\ socket \in hand) /\ Call(c, "starts")
  /\ UNCHANGED << socket, lock, mark, phase, hand, deaf, raced >>

\* stopServer: it closes its sockets before it closes its listener; or it went, or refused, or did not
\* answer in time, and is used as it is.
Replace(c) ==
  /\ calls[c] = "replaces"
  /\ \/ /\ Answers /\ socket \notin hand
        /\ Phase(socket, AfterStop(socket))
        /\ Call(c, "starts")
     \/ Call(c, "idle") /\ UNCHANGED phase
  /\ UNCHANGED << socket, lock, mark, hand, deaf, raced >>

\* `max serve` asks for no lock, and removes whosever it finds.
Overlaps == \E s \in hand : Starting(s)

Spawn(s) ==
  /\ Phase(s, "started") /\ lock' = s
  /\ hand' \in {hand, hand \cup {s}}

\* Mutant of LockIsFree: it is there, and that is all the same.
LockIsFreeAnyway == TRUE

\* startInBackground: the lock file is made, or it is there.  The command then waits for an answer, or
\* until fifteen seconds have passed, and starts nothing more: it is idle.
LockIsFree == lock = NoServer

StartInBackground(c) ==
  /\ calls[c] = "starts" /\ Unborn # {}
  /\ \/ mark /\ Call(c, "idle") /\ UNCHANGED << lock, phase, hand, raced >>
     \/ /\ ~mark /\ LockIsFree
        /\ Spawn(NextServer) /\ raced' = (raced \/ Overlaps)
        /\ Call(c, "idle")
     \/ /\ ~mark /\ ~LockIsFree
        /\ Call(c, "idle") \/ Call(c, "steals")          \* it is fresh, or too old
        /\ UNCHANGED << lock, phase, hand, raced >>
  /\ UNCHANGED << socket, mark, deaf >>

\* The lock was too old: it is removed, whosever it is by now, and made again.  It may be that of a
\* start slower than its 30 s, or the one just made by another command that found the same one old.
StealStart(c) ==
  /\ calls[c] = "steals" /\ Unborn # {}
  /\ raced' = (raced \/ Overlaps \/ (lock # NoServer /\ Starting(lock)))
  /\ Spawn(NextServer)
  /\ Call(c, "idle")
  /\ UNCHANGED << socket, mark, deaf >>

\* `max serve` typed: no lock.
ServeByHand ==
  /\ Unborn # {}
  /\ Phase(NextServer, "started") /\ hand' = hand \cup {NextServer}
  /\ raced' = (raced \/ \E s \in Servers : Starting(s))
  /\ UNCHANGED << socket, lock, mark, calls, deaf >>

----------------------------------------------------------------------------
\* #listen: somebody answers, and stays; or gives way to one started by hand, or only says so; or
\* nobody does.
Probe(s) ==
  /\ phase[s] = "started"
  /\ \/ ~Answers /\ Phase(s, "probed") /\ UNCHANGED << lock, deaf, raced >>
     \/ /\ Answers /\ s \in hand /\ socket \notin hand
        /\ phase' = [phase EXCEPT ![s] = "probed", ![socket] = AfterStop(socket)]
        /\ raced' = (raced \/ socket \in deaf)
        /\ UNCHANGED << lock, deaf >>
     \/ /\ Answers /\ (s \notin hand \/ socket \in hand)
        /\ Phase(s, "gone") /\ lock' = NoServer          \* and the `finally` takes any lock
        /\ deaf' = deaf \ {s} /\ UNCHANGED raced
  /\ UNCHANGED << socket, mark, hand, calls >>

\* What is left at the path is removed, and the socket bound.
Bind(s) ==
  /\ phase[s] = "probed"
  /\ Phase(s, "logs in") /\ socket' = s
  /\ raced' = (raced \/ \E t \in Servers : phase[t] \in {"stops", "drops", "fails"})
  /\ UNCHANGED << lock, mark, hand, calls, deaf >>

\* start: the login, and the lock goes whatever comes of it.
LogsInDone(s) ==
  /\ phase[s] = "logs in"
  /\ Phase(s, "up") /\ lock' = NoServer
  /\ UNCHANGED << socket, mark, hand, calls, deaf, raced >>

\* A failed login: the server stops, the lock goes after that, and the mark of a refusal comes after
\* it.  One that is deaf keeps its listener.
Refused(s) ==
  /\ phase[s] = "logs in"
  /\ \/ s \notin deaf /\ Phase(s, "fails") /\ UNCHANGED lock
     \/ s \in deaf /\ Phase(s, "marks") /\ lock' = NoServer
  /\ UNCHANGED << socket, mark, hand, calls, deaf, raced >>

RefusedEnds(s) ==
  /\ phase[s] = "fails"
  /\ Phase(s, "marks") /\ socket' = NoServer /\ lock' = NoServer
  /\ UNCHANGED << mark, hand, calls, deaf, raced >>

Marks(s) ==
  /\ phase[s] = "marks"
  /\ mark' \in {mark, TRUE}                 \* a refusal, or MAX did not answer
  /\ Phase(s, IF s \in deaf THEN "up" ELSE "gone")
  /\ UNCHANGED << socket, lock, hand, calls, deaf, raced >>

\* The refusal is ten minutes old, or `max session start` has removed its mark.
MarkGoes ==
  /\ mark
  /\ mark' = FALSE
  /\ UNCHANGED << socket, lock, phase, hand, calls, deaf, raced >>

\* stop: idle, asked by a command or the owner, a login refused later, or a signal, whose handlers are
\* there before the socket is: a stop finds no listener to close then, and will not come again.
Stop(s) ==
  /\ \/ Listening(s) /\ s \notin deaf /\ Phase(s, AfterStop(s)) /\ UNCHANGED deaf
     \/ phase[s] \in {"started", "probed"} /\ deaf' = deaf \cup {s} /\ UNCHANGED phase
  /\ UNCHANGED << socket, lock, mark, hand, calls, raced >>

\* The listener is closed, and the file removed by its path.
StopEnds(s) ==
  /\ \/ phase[s] = "stops" /\ Phase(s, "gone")
     \/ phase[s] = "drops" /\ Phase(s, "leaves")
  /\ socket' = NoServer
  /\ UNCHANGED << lock, mark, hand, calls, deaf, raced >>

\* The login that a stop left under way ends, well or not, and start with it.
LoginEnds(s) ==
  /\ \/ phase[s] = "drops" /\ Phase(s, "stops")
     \/ phase[s] = "leaves" /\ Phase(s, "gone")
  /\ lock' = NoServer
  /\ mark' \in {mark, TRUE}
  /\ UNCHANGED << socket, hand, calls, deaf, raced >>

Crashes(s) ==
  /\ phase[s] \notin {"none", "gone"}
  /\ Phase(s, "gone") /\ deaf' = deaf \ {s}
  /\ UNCHANGED << socket, lock, mark, hand, calls, raced >>

StartNext ==
  \/ \E c \in Callers : Ensure(c) \/ Replace(c) \/ StartInBackground(c) \/ StealStart(c)
  \/ \E s \in Servers :
       \/ Probe(s) \/ Bind(s) \/ LogsInDone(s) \/ Refused(s) \/ RefusedEnds(s) \/ Marks(s)
       \/ Stop(s) \/ StopEnds(s) \/ LoginEnds(s) \/ Crashes(s)
  \/ ServeByHand \/ MarkGoes

StartSpec == StartInit /\ [][StartNext]_startVars

----------------------------------------------------------------------------
\* Every variable has its type.
StartTypeOK ==
  /\ {socket, lock} \subseteq Servers \cup {NoServer}
  /\ mark \in BOOLEAN
  /\ phase \in [Servers -> {"none", "started", "probed", "logs in", "up", "drops", "leaves", "fails", "marks",
                           "stops", "gone"}]
  /\ hand \subseteq Servers
  /\ calls \in [Callers -> {"idle", "replaces", "starts", "steals"}]
  /\ deaf \subseteq Servers
  /\ raced \in BOOLEAN

\* A profile has one server, and whoever looks for it finds it: no two log in beside each other, over
\* any crashes, refusals, replacements, signals, left-over sockets and locks, and commands that start
\* one at once ("whoever binds it is the profile's one server", src/src/server/server.ts:138; "so two
\* commands do not start two", 557) - unless one of five things happened, each of which lets the code
\* run two: a start took longer than the 30 s grace of its lock; two commands both found the lock of a
\* start that crashed too old, and the second removed the one the first had just made (start.ts:50);
\* a stop took longer than the next start; the owner typed `max serve` while another server was
\* starting; or a server by hand replaced one that a signal had made deaf, which says that it stops.
OneServer ==
  ~raced => \A s \in Servers : Listening(s) => socket = s /\ \A t \in Servers : Listening(t) => s = t
=============================================================================
