------------------------------ MODULE LocalSocket ------------------------------
(***************************************************************************)
(* The requests of one process over the local socket of `max serve`         *)
(* (src/src/server/server-connection.ts, src/src/server/server.ts): many at *)
(* a time over one ServerConnection, as `max mcp` makes them.  The server   *)
(* answers each when it is done; an answer comes as one line, which the     *)
(* socket may split (src/src/server/lines.ts).                              *)
(*                                                                          *)
(* A line is two pieces, the second with its end.  What a request asks, and *)
(* the connection of a command's own, are left out.                         *)
(***************************************************************************)
EXTENDS Integers, Sequences, FiniteSets

CONSTANTS
  Asks,        \* requests, each made once
  MaxSockets, MaxDrops   \* bounds

VARIABLES
  ask,         \* of each request: where it is, its socket and id, and whose answer it got
  lastId,      \* #id
  shared,      \* #socket, or 0
  link,        \* of each socket: unmade, open, dropped by the server, or closed
  inbound,     \* what is under way to the client over each
  buffered,    \* what lineReader keeps of it
  serving,     \* requests the server works on
  serverUp,
  drops,
  over         \* has close() been called?

socketVars == << ask, lastId, shared, link, inbound, buffered, serving, serverUp, drops, over >>

ASSUME SocketAssumption == MaxSockets \in Nat \ {0} /\ MaxDrops \in Nat

Sockets == 1 .. MaxSockets
NotAsked == [at |-> "idle", over |-> 0, id |-> 0, got |-> {}]

SocketInit ==
  /\ ask = [a \in Asks |-> NotAsked]
  /\ lastId = 0
  /\ shared = 0
  /\ link = [s \in Sockets |-> "unmade"]
  /\ inbound = [s \in Sockets |-> << >>]
  /\ buffered = [s \in Sockets |-> << >>]
  /\ serving = {}
  /\ serverUp = TRUE
  /\ drops = 0
  /\ over = FALSE

Waiting == { a \in Asks : ask[a].at = "waiting" }

----------------------------------------------------------------------------
\* The id of the next request; it is unique to the connection, whichever socket it goes over.
IdByPending == Cardinality(Waiting) + 1   \* a mutant: the number of those that wait
NextId == lastId + 1

\* The request goes out: to the server, if it is still at the other end.
Writes(a, s) ==
  /\ lastId' = NextId
  /\ ask' = [ask EXCEPT ![a] = [at |-> "waiting", over |-> s, id |-> NextId, got |-> {}]]
  /\ serving' = IF link[s] = "dropped" THEN serving ELSE serving \cup {[over |-> s, id |-> NextId, of |-> a]}

AskShared(a) ==
  /\ ask[a].at = "idle" /\ ~over
  /\ shared # 0
  /\ Writes(a, shared)
  /\ UNCHANGED << shared, link, inbound, buffered, serverUp, drops, over >>

\* #connected: without a socket each request makes one, for none waits for another's.
Connect(a) ==
  /\ ask[a].at = "idle" /\ ~over
  /\ shared = 0
  /\ \E s \in Sockets :
       /\ link[s] = "unmade" /\ \A t \in 1 .. (s - 1) : link[t] # "unmade"
       /\ link' = [link EXCEPT ![s] = "connecting"]
       /\ ask' = [ask EXCEPT ![a] = [NotAsked EXCEPT !.at = "connecting", !.over = s]]
  /\ UNCHANGED << lastId, shared, inbound, buffered, serving, serverUp, drops, over >>

Connected(a) ==
  LET s == ask[a].over IN
  /\ ask[a].at = "connecting" /\ serverUp
  /\ link' = [link EXCEPT ![s] = "open"]
  /\ shared' = s
  /\ Writes(a, s)
  /\ UNCHANGED << inbound, buffered, serverUp, drops, over >>

\* ECONNREFUSED or ENOENT: nobody listens.
NotConnected(a) ==
  /\ ask[a].at = "connecting" /\ ~serverUp
  /\ link' = [link EXCEPT ![ask[a].over] = "closed"]
  /\ ask' = [ask EXCEPT ![a].at = "failed"]
  /\ UNCHANGED << lastId, shared, inbound, buffered, serving, serverUp, drops, over >>

----------------------------------------------------------------------------
\* The server: every line is a request of its own, answered when it is done.
Pieces(r) == << [of |-> r.of, id |-> r.id, end |-> FALSE], [of |-> r.of, id |-> r.id, end |-> TRUE] >>

Answers(r) ==
  /\ r \in serving
  /\ serving' = serving \ {r}
  /\ inbound' = [inbound EXCEPT ![r.over] = @ \o Pieces(r)]
  /\ UNCHANGED << ask, lastId, shared, link, buffered, serverUp, drops, over >>

\* A line that is too long, or a request that throws: the server destroys that socket.
Destroys(s) ==
  /\ link[s] = "open"
  /\ drops < MaxDrops /\ drops' = drops + 1
  /\ link' = [link EXCEPT ![s] = "dropped"]
  /\ serving' = { r \in serving : r.over # s }
  /\ UNCHANGED << ask, lastId, shared, inbound, buffered, serverUp, over >>

ServerStops ==
  /\ serverUp /\ serverUp' = FALSE
  /\ drops < MaxDrops /\ drops' = drops + 1
  /\ link' = [s \in Sockets |-> IF link[s] = "open" THEN "dropped" ELSE link[s]]
  /\ serving' = {}
  /\ UNCHANGED << ask, lastId, shared, inbound, buffered, over >>

ServerStarts ==
  /\ ~serverUp /\ serverUp' = TRUE
  /\ UNCHANGED << ask, lastId, shared, link, inbound, buffered, serving, drops, over >>

----------------------------------------------------------------------------
\* lineReader: every line that `data` finishes, the rest kept for the next.
Ends(text) == { i \in DOMAIN text : text[i].end }
LineOf(text, i) == SubSeq(text, 1 + (CHOOSE j \in {0} \cup Ends(text) : j < i /\ \A k \in Ends(text) : k < i => k <= j), i)
Rest(text) == SubSeq(text, 1 + (CHOOSE j \in {0} \cup Ends(text) : \A k \in Ends(text) : k <= j), Len(text))

\* The answers of those lines; a line that is not one whole answer has none.
AnswersIn(text) == { text[i] : i \in { i \in Ends(text) : LineOf(text, i) = Pieces(text[i]) } }

Data(s, k) ==
  LET text == buffered[s] \o SubSeq(inbound[s], 1, k)
      answers(a) == { r \in AnswersIn(text) : r.id = ask[a].id }
  IN
  /\ link[s] \in {"open", "dropped"}
  /\ k \in DOMAIN inbound[s]
  /\ inbound' = [inbound EXCEPT ![s] = SubSeq(@, k + 1, Len(@))]
  /\ buffered' = [buffered EXCEPT ![s] = Rest(text)]
  /\ ask' = [a \in Asks |-> IF a \in Waiting /\ answers(a) # {}
                            THEN [ask[a] EXCEPT !.at = "answered", !.got = { r.of : r \in answers(a) }]
                            ELSE ask[a]]
  /\ UNCHANGED << lastId, shared, link, serving, serverUp, drops, over >>

\* Everyone who waits is told, whichever socket it asked over.
RejectAll == ask' = [a \in Asks |-> IF a \in Waiting THEN [ask[a] EXCEPT !.at = "failed"] ELSE ask[a]]

Empty(s) ==
  /\ inbound' = [inbound EXCEPT ![s] = << >>]
  /\ buffered' = [buffered EXCEPT ![s] = << >>]

Closes(s) ==
  /\ link[s] = "dropped"
  /\ RejectAll
  /\ shared' = 0
  /\ link' = [link EXCEPT ![s] = "closed"]
  /\ Empty(s)
  /\ UNCHANGED << lastId, serving, serverUp, drops, over >>

\* Its answer may still come, and then finds nobody.
TimesOut(a) ==
  /\ ask[a].at = "waiting"
  /\ ask' = [ask EXCEPT ![a].at = "failed"]
  /\ UNCHANGED << lastId, shared, link, inbound, buffered, serving, serverUp, drops, over >>

CloseAll ==
  /\ ~over /\ over' = TRUE
  /\ RejectAll
  /\ shared' = 0
  /\ IF shared = 0 THEN UNCHANGED << link, inbound, buffered, serving >>
     ELSE /\ link' = [link EXCEPT ![shared] = "closed"]
          /\ serving' = { r \in serving : r.over # shared }
          /\ Empty(shared)
  /\ UNCHANGED << lastId, serverUp, drops >>

SocketNext ==
  \/ \E a \in Asks : AskShared(a) \/ Connect(a) \/ Connected(a) \/ NotConnected(a) \/ TimesOut(a)
  \/ \E r \in serving : Answers(r)
  \/ \E s \in Sockets : Destroys(s) \/ Closes(s) \/ \E k \in DOMAIN inbound[s] : Data(s, k)
  \/ ServerStops \/ ServerStarts \/ CloseAll

SocketSpec == SocketInit /\ [][SocketNext]_socketVars

----------------------------------------------------------------------------
PieceSet == [of : Asks, id : 1 .. Cardinality(Asks), end : BOOLEAN]

SocketTypeOK ==
  /\ ask \in [Asks -> [at : {"idle", "connecting", "waiting", "answered", "failed"},
                       over : 0 .. MaxSockets, id : 0 .. Cardinality(Asks), got : SUBSET Asks]]
  /\ lastId \in 0 .. Cardinality(Asks)
  /\ shared \in 0 .. MaxSockets
  /\ link \in [Sockets -> {"unmade", "connecting", "open", "dropped", "closed"}]
  /\ \A s \in Sockets : inbound[s] \in Seq(PieceSet) /\ buffered[s] \in Seq(PieceSet)
  /\ serving \subseteq [over : Sockets, id : 1 .. Cardinality(Asks), of : Asks]
  /\ serverUp \in BOOLEAN /\ over \in BOOLEAN
  /\ drops \in 0 .. MaxDrops

(***************************************************************************)
(* Answers come in any order, in pieces, late, and over sockets that were   *)
(* made beside each other or after one that was dropped.  Each request gets *)
(* its own or an error; and while it waits its answer is still to come, on  *)
(* a socket whose end the client will hear: none waits for what was already *)
(* there (src/src/server/server-connection.ts:185).                         *)
(***************************************************************************)
OwnLine ==
  \A a \in Asks :
    /\ ask[a].at = "answered" => ask[a].got = {a}
    /\ ask[a].at = "waiting" =>
         LET s == ask[a].over IN
         \/ link[s] = "dropped"
         \/ link[s] = "open" /\ \/ \E r \in serving : r.of = a
                                \/ \E i \in DOMAIN inbound[s] : inbound[s][i].of = a /\ inbound[s][i].end
=============================================================================
