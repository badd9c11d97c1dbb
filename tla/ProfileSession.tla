--------------------------- MODULE ProfileSession ---------------------------
(***************************************************************************)
(* Whose session a profile holds (src/src/session/, MaxClient.connect, the  *)
(* commands of `max session`, and how a command reaches the login of        *)
(* `max serve`, src/src/server/server-connection.ts).                       *)
(*                                                                          *)
(* A token is its account and whether MAX offers a fresh one for it.        *)
(* Nobody locks: every login reads the state before it and writes it after. *)
(* The server of the profile logs in by the same connect as a command; that *)
(* there is one is the matter of the starting lock and the socket.          *)
(***************************************************************************)
EXTENDS Integers, FiniteSets

CONSTANTS
  Workers,       \* processes of the profile that are not its server
  Accounts,
  MaxErrands     \* bound on what is run

NobodyYet == "nobody"
NoToken == [of |-> NobodyYet, aged |-> FALSE]
DeadToken == [of |-> NobodyYet, aged |-> TRUE]     \* one MAX does not take: mistyped, or ended
Tokens == [of : Accounts, aged : BOOLEAN] \cup {DeadToken}
Server == "server"
All == Workers \cup {Server}

ASSUME SessionAssumption == MaxErrands \in Nat /\ NobodyYet \notin Accounts /\ Server \notin Workers

VARIABLES
  kept,      \* the token in the keyring
  state,     \* the state file: whose it is, and the pause after a refused login
  at,        \* where each process is
  errand,    \* what it does and knows
  refused,   \* <profile>.sock.refused
  proven,    \* tokens MAX has taken or given
  crossed,   \* has an account come or gone while a process still had the one before?
  errands

sessionStateVars == << kept, state, at, errand, refused, proven, crossed, errands >>

Away ==
  [ kind |-> "none", sent |-> NoToken, env |-> FALSE, read |-> [viewer |-> NobodyYet, paused |-> FALSE],
    before |-> NoToken, own |-> FALSE, login |-> NobodyYet ]

\* A new profile, or one that has logged in before and may have a server.
SessionInit ==
  /\ \/ kept = NoToken /\ proven = {} /\ state = [viewer |-> NobodyYet, paused |-> FALSE]
     \/ \E token \in Tokens \ {DeadToken} :
          kept = token /\ proven = {token} /\ state = [viewer |-> token.of, paused |-> FALSE]
  /\ \/ at = [p \in All |-> "away"] /\ errand = [p \in All |-> Away]
     \/ /\ kept # NoToken
        /\ at = [p \in All |-> IF p = Server THEN "up" ELSE "away"]
        /\ errand = [p \in All |-> IF p = Server THEN [Away EXCEPT !.kind = "by hand", !.login = kept.of]
                                   ELSE Away]
  /\ refused = FALSE
  /\ crossed = FALSE
  /\ errands = 0

\* A process that has read the profile and may yet write it, or acts for an account.
Busy(p) == at[p] \notin (IF p = Server THEN {"away", "up"} ELSE {"away"})
Alone == \A p \in All : ~Busy(p)

Goes(p, place, what) ==
  /\ at' = [at EXCEPT ![p] = place]
  /\ errand' = [errand EXCEPT ![p] = what]

Up(p) == Goes(p, "up", [Away EXCEPT !.kind = errand[p].kind, !.login = errand[p].login])
GoesAway(p) == Goes(p, "away", Away)

----------------------------------------------------------------------------
\* connect up to its first request: the token, and the state it will write back.
Begins(p, kind, token, env, own) ==
  /\ token # NoToken /\ ~state.paused
  /\ Goes(p, "opens",
          [Away EXCEPT !.kind = kind, !.sent = token, !.env = env, !.read = state,
                       !.before = kept, !.own = own])
  /\ crossed' = (crossed \/ (state.viewer = NobodyYet /\ ~Alone))

\* A command, with the profile's token or one from MAX_TOKEN.
Command(p) ==
  /\ at[p] = "away" /\ errands < MaxErrands
  /\ errands' = errands + 1
  /\ \/ Begins(p, "command", kept, FALSE, FALSE)
     \/ \E token \in Tokens : Begins(p, "command", token, TRUE, FALSE)
  /\ UNCHANGED << kept, state, refused, proven >>

\* `session start` stops the server, however it was started, gets a token and connects by itself.
\* A server that does not answer in time stays.
SessionStart(p) ==
  /\ at[p] = "away" /\ errands < MaxErrands
  /\ errands' = errands + 1
  /\ \E token \in Tokens, stopped \in BOOLEAN :
       /\ ~state.paused
       /\ LET stops == stopped /\ at[Server] # "away" IN
          /\ at' = [at EXCEPT ![p] = "opens", ![Server] = IF stops THEN "away" ELSE @]
          /\ errand' = [errand EXCEPT ![p] = [Away EXCEPT !.kind = "start", !.sent = token, !.read = state,
                                                        !.before = kept, !.own = TRUE],
                                      ![Server] = IF stops THEN Away ELSE @]
  /\ crossed' = (crossed \/ (state.viewer = NobodyYet /\ ~Alone))
  /\ UNCHANGED << kept, state, refused, proven >>

\* A server, begun by a command or by hand.
ServerBegins(byHand) ==
  /\ at[Server] = "away" /\ errands < MaxErrands
  /\ byHand \/ ~refused
  /\ errands' = errands + 1
  /\ Begins(Server, IF byHand THEN "by hand" ELSE "background", kept, FALSE, TRUE)
  /\ UNCHANGED << kept, state, refused, proven >>

\* The connection was lost, or its last attempt to connect again came to nothing.
ServerReconnects ==
  /\ at[Server] \in {"opens", "up"} /\ errands < MaxErrands
  /\ errands' = errands + 1
  /\ IF kept = NoToken \/ state.paused
     THEN GoesAway(Server) /\ UNCHANGED crossed
     ELSE Begins(Server, errand[Server].kind, kept, FALSE, TRUE)
  /\ UNCHANGED << kept, state, refused, proven >>

ServerStops ==
  /\ at[Server] \in {"opens", "up"}
  /\ GoesAway(Server)
  /\ UNCHANGED << kept, state, refused, proven, crossed, errands >>

----------------------------------------------------------------------------
SameAccount == state.viewer \in {NobodyYet, errand[Server].login}

\* What readToken answers the process: MAX_TOKEN outranks the keyring.
ReadToken(p) == IF errand[p].env THEN errand[p].sent ELSE kept

\* The server's login, for a command of the same token and account.
OverServer(p) ==
  /\ at[p] = "opens" /\ ~errand[p].own
  /\ at[Server] = "up"
  /\ errand[p].sent = ReadToken(p) /\ SameAccount
  /\ Goes(p, "answered", [errand[p] EXCEPT !.login = errand[Server].login])
  /\ UNCHANGED << kept, state, refused, proven, crossed, errands >>

\* No server, or not this profile's: a connection of the command's own.
FallBack(p) ==
  /\ at[p] = "opens" /\ ~errand[p].own
  /\ at[Server] = "up" => ~(errand[p].sent = ReadToken(p) /\ SameAccount)
  /\ Goes(p, "opens", [errand[p] EXCEPT !.own = TRUE])
  /\ UNCHANGED << kept, state, refused, proven, crossed, errands >>

\* LOGIN, answered by MAX.
LoginAnswered(p) ==
  /\ at[p] = "opens" /\ errand[p].own
  /\ errand[p].sent # DeadToken
  /\ Goes(p, "answered", [errand[p] EXCEPT !.login = errand[p].sent.of])
  /\ proven' = proven \cup {errand[p].sent}
  /\ UNCHANGED << kept, state, refused, crossed, errands >>

\* LOGIN is refused: too many attempts (the state before it is written, with a pause), a token MAX
\* does not take, or no answer.  A server leaves its mark when it was MAX that refused.
LoginFails(p) ==
  /\ at[p] = "opens" /\ errand[p].own
  /\ \E why \in {"limit", "token", "network"} :
       /\ why = "token" => errand[p].sent = DeadToken
       /\ state' = IF why = "limit" THEN [errand[p].read EXCEPT !.paused = TRUE] ELSE state
       /\ refused' = (refused \/ (why # "network" /\ p = Server))
  /\ GoesAway(p)
  /\ UNCHANGED << kept, proven, crossed, errands >>

\* Mutant of Identity: the account is looked at after the state is written.
IdentityLater(p) == TRUE

\* A profile is a person: a login of another account than the one it was set up with is refused.
Identity(p) == errand[p].read.viewer \in {NobodyYet, errand[p].login}

Stranger(p) ==
  /\ at[p] = "answered" /\ ~Identity(p)
  /\ GoesAway(p)
  /\ UNCHANGED << kept, state, refused, proven, crossed, errands >>

\* #keepRotatedToken: of an own login, and never of MAX_TOKEN's.  The keyring may refuse it.
Rotated(p) == [errand[p].sent EXCEPT !.aged = FALSE]
MayRotate(p) == errand[p].own /\ ~errand[p].env /\ errand[p].sent.aged

\* The login is counted in the state read before it, which ends a pause; then the fresh token is kept.
Counted(p) ==
  /\ at[p] = "answered" /\ Identity(p)
  /\ state' = [viewer |-> errand[p].login, paused |-> FALSE]
  /\ \/ UNCHANGED << kept, proven >>
     \/ /\ MayRotate(p)
        /\ kept' = Rotated(p)
        /\ proven' = proven \cup {Rotated(p)}
  /\ IF errand[p].kind = "start" THEN Goes(p, "adopts", errand[p]) ELSE Up(p)
  /\ UNCHANGED << refused, crossed, errands >>

\* adoptToken after the login and the rest of the chats: unless the login has left a better one.
Adopt(p) ==
  /\ at[p] = "adopts"
  /\ kept' = IF kept = errand[p].before THEN errand[p].sent ELSE kept
  /\ refused' = FALSE
  /\ Up(p)
  /\ UNCHANGED << state, proven, crossed, errands >>

Ends(p) ==
  /\ at[p] \in {"opens", "adopts", "up"}
  /\ GoesAway(p)
  /\ UNCHANGED << kept, state, refused, proven, crossed, errands >>

----------------------------------------------------------------------------
\* `session end` stops a server, if it was not started by hand, and forgets the token and the state.
SessionEnd(p) ==
  /\ at[p] = "away" /\ errands < MaxErrands
  /\ errands' = errands + 1
  /\ \E stopped \in BOOLEAN :
       LET stops == stopped /\ errand[Server].kind = "background" IN
       /\ at' = [at EXCEPT ![p] = "forgets", ![Server] = IF stops THEN "away" ELSE @]
       /\ errand' = [errand EXCEPT ![Server] = IF stops THEN Away ELSE @]
  /\ UNCHANGED << kept, state, refused, proven, crossed >>

Forget(p) ==
  /\ at[p] = "forgets"
  /\ kept' = NoToken
  /\ state' = [viewer |-> NobodyYet, paused |-> FALSE]
  /\ GoesAway(p)
  /\ crossed' = (crossed \/ \E q \in All \ {p} : Busy(q))
  /\ UNCHANGED << refused, proven, errands >>

TimePasses ==
  /\ \/ state.paused /\ state' = [state EXCEPT !.paused = FALSE] /\ UNCHANGED refused
     \/ refused /\ refused' = FALSE /\ UNCHANGED state
  /\ UNCHANGED << kept, at, errand, proven, crossed, errands >>

----------------------------------------------------------------------------
SessionNext ==
  \/ \E p \in Workers :
       \/ Command(p) \/ SessionStart(p) \/ SessionEnd(p) \/ Forget(p)
       \/ OverServer(p) \/ FallBack(p) \/ Adopt(p) \/ Ends(p)
  \/ \E p \in All : LoginAnswered(p) \/ LoginFails(p) \/ Stranger(p) \/ Counted(p)
  \/ \E byHand \in BOOLEAN : ServerBegins(byHand)
  \/ ServerReconnects \/ ServerStops \/ TimePasses

SessionSpec == SessionInit /\ [][SessionNext]_sessionStateVars

----------------------------------------------------------------------------
\* Every variable has its type.
SessionTypeOK ==
  /\ kept \in (Tokens \ {DeadToken}) \cup {NoToken}
  /\ state \in [viewer : Accounts \cup {NobodyYet}, paused : BOOLEAN]
  /\ at \in [All -> {"away", "opens", "answered", "adopts", "up", "forgets"}]
  /\ \A p \in All :
       /\ errand[p].kind \in {"none", "command", "start", "by hand", "background"}
       /\ errand[p].sent \in Tokens \cup {NoToken} /\ errand[p].before \in Tokens \cup {NoToken}
       /\ errand[p].login \in Accounts \cup {NobodyYet}
  /\ proven \subseteq Tokens
  /\ {refused, crossed} \subseteq BOOLEAN
  /\ errands \in 0 .. MaxErrands

\* The token a profile keeps is one MAX has taken or given, whatever login was refused, lost or of
\* another account meanwhile ("nothing is written until there is something worth writing",
\* src/src/session/adopt.ts:18).  And where no account is forgotten or set up beside another process,
\* it is of the profile's account, and whoever acts for the profile, over a server or by itself, acts
\* for that account (src/src/server/server-connection.ts:81, src/src/client.ts:1680).
SessionIsOurs ==
  /\ kept # NoToken => kept \in proven
  /\ ~crossed =>
       /\ kept # NoToken => kept.of = state.viewer
       /\ \A p \in Workers : at[p] = "up" => errand[p].login = state.viewer
=============================================================================
