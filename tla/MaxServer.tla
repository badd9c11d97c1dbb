----------------------------- MODULE MaxServer -----------------------------
(***************************************************************************)
(* The life of one `max serve` (class MaxServer, src/src/server/server.ts):*)
(* its logins at the start, after a drop and after a push it could not     *)
(* follow; the timers that start them; its stop; and the commands that     *)
(* wait for a connection.  It begins with the socket bound.                *)
(*                                                                         *)
(* Every call of #connect gets the next id.  Its phases:                   *)
(*   "login"  opening, INIT and LOGIN;                                     *)
(*   "rest"   logged in, reading the chats LOGIN left out;                 *)
(*   "made"   its client became the server's;                              *)
(*   "over"   it failed.                                                   *)
(* Timers and drops come in any order: the backoff and the minute between  *)
(* two background logins are not modelled, only which timer is set.        *)
(***************************************************************************)
EXTENDS Integers, FiniteSets

CONSTANTS
  Commands,     \* clients of the socket that ask for the login
  MaxFailures,  \* bound on dropped connections and failed attempts
  MaxStale,     \* bound on pushes the server cannot follow
  MayRefuse,    \* whether MAX may refuse a login
  MayStop,      \* whether the owner, or nobody using it, may stop the server
  Resumable     \* whether a login carries what the next one needs to resume it

ASSUME ServerAssumption ==
  /\ MaxFailures \in Nat
  /\ MaxStale \in Nat
  /\ {MayRefuse, MayStop, Resumable} \subseteq BOOLEAN

VARIABLES
  longList,     \* whether the account has more chats than LOGIN answers with
  connects,     \* how many times #connect was called
  phase,
  by,           \* what each call was made by
  resumed,      \* whether it resumes an earlier login
  alive,        \* the calls whose connection to MAX is open
  client,       \* #client
  resume,       \* whether #resume is set
  set,          \* how many retry timers were set
  timers,       \* those that have not fired
  retry,        \* the one #retry names
  refresh,      \* #refresh: "none", a "timer", or a "login" of its own
  up,           \* whether #up has settled
  asked,        \* what became of each command's request
  stopped, done,
  failures, stales,
  refused,      \* whether a login has been refused
  overlap       \* whether the connection was lost with a background login due or under way

serverVars == << longList, connects, phase, by, resumed, alive, client, resume, set, timers, retry, refresh,
           up, asked, stopped, done, failures, stales, refused, overlap >>

None == 0

Ids == 1 .. MaxFailures + MaxStale + 1

\* One call of #connect starts.  (Ids is a bound that the bounds on failures and stale pushes
\* keep every behaviour within.)
Connect(who) ==
  /\ connects + 1 \in Ids
  /\ connects' = connects + 1
  /\ phase' = [phase EXCEPT ![connects + 1] = "login"]
  /\ by' = [by EXCEPT ![connects + 1] = who]
  /\ resumed' = [resumed EXCEPT ![connects + 1] = resume \/ (client # None /\ Resumable)]
  /\ alive' = alive \cup {connects + 1}

\* The server begins when its socket is bound and its first login starts.
ServerInit ==
  /\ longList \in BOOLEAN
  /\ connects = 1
  /\ phase = [i \in Ids |-> IF i = 1 THEN "login" ELSE "none"]
  /\ by = [i \in Ids |-> "start"]
  /\ resumed = [i \in Ids |-> FALSE]
  /\ alive = {1}
  /\ client = None
  /\ resume = FALSE
  /\ set = 0 /\ timers = {} /\ retry = 0
  /\ refresh = "none"
  /\ up = FALSE
  /\ asked = [c \in Commands |-> "idle"]
  /\ stopped = FALSE /\ done = FALSE
  /\ failures = 0 /\ stales = 0 /\ refused = FALSE /\ overlap = FALSE

\* stop(), up to its first await: the timers it has names for, and every socket, which
\* cuts off the commands that wait.
StopBegins ==
  IF stopped
  THEN UNCHANGED <<stopped, timers, up, asked>>
  ELSE /\ stopped' = TRUE
       /\ timers' = timers \ {retry}
       /\ up' = TRUE
       /\ asked' = [c \in Commands |-> IF asked[c] = "waits" THEN "cut" ELSE asked[c]]

\* The #refresh that is left when stop() has cleared its timer, or its login has ended.
RefreshLeft(i) ==
  IF by[i] = "refresh" \/ (refresh = "timer" /\ stopped') THEN "none" ELSE refresh

Stop ==
  /\ MayStop
  /\ ~ stopped
  /\ StopBegins
  /\ refresh' = IF refresh = "timer" THEN "none" ELSE refresh
  /\ UNCHANGED << longList, overlap, connects, phase, by, resumed, alive, client, resume, set, retry,
                  done, failures, stales, refused >>

\* stop(), once the listener has closed.
StopEnds ==
  /\ stopped /\ ~ done
  /\ done' = TRUE
  /\ alive' = alive \ {client}
  /\ client' = None
  /\ UNCHANGED << longList, overlap, connects, phase, by, resumed, resume, set, timers, retry, refresh,
                  up, asked, stopped, failures, stales, refused >>

\* The client is made the server's, alive or not: whoever waits is answered, and the client it
\* replaces is closed.
Made(i, survivors) ==
  /\ phase' = [phase EXCEPT ![i] = "made"]
  /\ client' = i
  /\ alive' = survivors \ {client}
  /\ asked' = [c \in Commands |->
                 IF asked[c] = "waits" THEN "answered" ELSE asked[c]]
  /\ up' = TRUE
  /\ refresh' = IF by[i] = "refresh" THEN "none" ELSE refresh

LoginAnswered(i) ==
  /\ phase[i] = "login"
  /\ \/ /\ longList /\ ~ resumed[i]
        /\ phase' = [phase EXCEPT ![i] = "rest"]
        /\ UNCHANGED <<alive, client, asked, up, refresh>>
     \/ /\ ~ longList \/ resumed[i]
        /\ Made(i, alive)
  /\ UNCHANGED << longList, overlap, connects, by, resumed, resume, set, timers, retry,
                  stopped, done, failures, stales, refused >>

\* A list that was refused, or did not come in time, is a shorter list.
RestAnswered(i) ==
  /\ phase[i] = "rest"
  /\ Made(i, alive)
  /\ UNCHANGED << longList, overlap, connects, by, resumed, resume, set, timers, retry,
                  stopped, done, failures, stales, refused >>

\* So is a list the connection was lost under, and nobody hears of the loss.
RestLost(i) ==
  /\ failures < MaxFailures
  /\ phase[i] = "rest"
  /\ failures' = failures + 1
  /\ Made(i, alive \ {i})
  /\ UNCHANGED << longList, overlap, connects, by, resumed, resume, set, timers, retry,
                  stopped, done, stales, refused >>

\* Mutant of ReconnectLater: stop() cannot name the timer it sets.
ReconnectUnnamed ==
  /\ set' = set + 1
  /\ timers' = timers \cup {set + 1}
  /\ UNCHANGED retry

ReconnectLater ==
  /\ set' = set + 1
  /\ timers' = timers \cup {set + 1}
  /\ retry' = set + 1

\* Mutant of LoginFails: a retry that fails is the last one.
LoginFailsOnce(i) ==
  /\ failures < MaxFailures
  /\ phase[i] = "login"
  /\ failures' = failures + 1
  /\ phase' = [phase EXCEPT ![i] = "over"]
  /\ alive' = alive \ {i}
  /\ \/ by[i] = "start" /\ StopBegins
     \/ by[i] # "start" /\ UNCHANGED <<stopped, up, asked, timers>>
  /\ refresh' = RefreshLeft(i)
  /\ UNCHANGED <<longList, overlap, connects, by, resumed, client, resume, set, retry, done, stales, refused>>

\* No connection, or no answer: the start gives up, a retry tries later, a refresh is let go.
LoginFails(i) ==
  /\ failures < MaxFailures
  /\ phase[i] = "login"
  /\ failures' = failures + 1
  /\ phase' = [phase EXCEPT ![i] = "over"]
  /\ alive' = alive \ {i}
  /\ \/ by[i] = "start" /\ StopBegins /\ UNCHANGED <<set, retry>>
     \/ by[i] = "retry" /\ ReconnectLater /\ UNCHANGED <<stopped, up, asked>>
     \/ by[i] = "refresh" /\ UNCHANGED <<stopped, up, asked, set, timers, retry>>
  /\ refresh' = RefreshLeft(i)
  /\ UNCHANGED <<longList, overlap, connects, by, resumed, client, resume, done, stales, refused>>

\* MAX answered the login and said no, or nobody asked it: no token, another account, a pause
\* after an earlier refusal (refusedLogin).
LoginRefused(i) ==
  /\ MayRefuse
  /\ phase[i] = "login"
  /\ phase' = [phase EXCEPT ![i] = "over"]
  /\ alive' = alive \ {i}
  /\ refused' = TRUE
  /\ StopBegins
  /\ refresh' = RefreshLeft(i)
  /\ UNCHANGED << longList, overlap, connects, by, resumed, client, resume, set, retry, done,
                  failures, stales >>

\* Mutant of Lost: a server that has lost its connection while a login of its own runs leaves
\* the rest to that login.
LostDuringRefresh ==
  /\ failures < MaxFailures
  /\ client \in alive
  /\ failures' = failures + 1
  /\ alive' = alive \ {client}
  /\ client' = None
  /\ overlap' = (overlap \/ refresh # "none")
  /\ resume' = Resumable
  /\ up' = FALSE
  /\ IF stopped \/ refresh = "login" THEN UNCHANGED <<set, timers, retry>> ELSE ReconnectLater
  /\ UNCHANGED << longList, connects, phase, by, resumed, refresh, asked, stopped, done,
                  stales, refused >>

\* Mutant of Lost: #up is not made anew.
LostStillUp ==
  /\ failures < MaxFailures
  /\ client \in alive
  /\ failures' = failures + 1
  /\ alive' = alive \ {client}
  /\ client' = None
  /\ overlap' = (overlap \/ refresh # "none")
  /\ resume' = Resumable
  /\ IF stopped THEN UNCHANGED <<set, timers, retry>> ELSE ReconnectLater
  /\ UNCHANGED << longList, connects, phase, by, resumed, refresh, up, asked, stopped, done,
                  stales, refused >>

\* MAX closes the server's connection: #lost.
Lost ==
  /\ failures < MaxFailures
  /\ client \in alive
  /\ failures' = failures + 1
  /\ alive' = alive \ {client}
  /\ client' = None
  /\ overlap' = (overlap \/ refresh # "none")
  /\ resume' = Resumable
  /\ up' = FALSE
  /\ IF stopped THEN UNCHANGED <<set, timers, retry>> ELSE ReconnectLater
  /\ UNCHANGED << longList, connects, phase, by, resumed, refresh, asked, stopped, done,
                  stales, refused >>

RetryFires(t) ==
  /\ t \in timers
  /\ timers' = timers \ {t}
  /\ Connect("retry")
  /\ UNCHANGED << longList, overlap, client, resume, set, retry, refresh, up, asked, stopped, done,
                  failures, stales, refused >>

\* Mutant of GoneStale: a push that comes while the background login runs asks for another.
GoneStaleAgain ==
  /\ stales < MaxStale
  /\ client \in alive
  /\ stales' = stales + 1
  /\ refresh' = IF ~ stopped THEN "timer" ELSE refresh
  /\ UNCHANGED << longList, overlap, connects, phase, by, resumed, alive, client, resume, set, timers, retry,
                  up, asked, stopped, done, failures, refused >>

\* A push that cannot be followed, or a deletion sent through the server: #goneStale.
GoneStale ==
  /\ stales < MaxStale
  /\ client \in alive
  /\ stales' = stales + 1
  /\ refresh' = IF refresh = "none" /\ ~ stopped THEN "timer" ELSE refresh
  /\ UNCHANGED << longList, overlap, connects, phase, by, resumed, alive, client, resume, set, timers, retry,
                  up, asked, stopped, done, failures, refused >>

RefreshFires ==
  /\ refresh = "timer"
  /\ refresh' = "login"
  /\ Connect("refresh")
  /\ UNCHANGED << longList, overlap, client, resume, set, timers, retry, up, asked, stopped, done,
                  failures, stales, refused >>

\* A command asks for the login, or has a request passed on: answered, or it waits.
Ask(c) ==
  /\ ~ stopped
  /\ asked[c] = "idle"
  /\ asked' = [asked EXCEPT ![c] =
                 CASE ~ up -> "waits"
                   [] up /\ client # None -> "answered"
                   [] up /\ client = None -> "unavailable"]
  /\ UNCHANGED << longList, overlap, connects, phase, by, resumed, alive, client, resume, set, timers, retry,
                  refresh, up, stopped, done, failures, stales, refused >>

LoginSettles(i) == LoginAnswered(i) \/ LoginFails(i) \/ LoginRefused(i)

RestSettles(i) == RestAnswered(i) \/ RestLost(i)

ServerNext ==
  \/ \E i \in Ids : LoginSettles(i) \/ RestSettles(i)
  \/ \E t \in timers : RetryFires(t)
  \/ \E c \in Commands : Ask(c)
  \/ Lost \/ GoneStale \/ RefreshFires \/ Stop \/ StopEnds

ServerSpec == ServerInit /\ [][ServerNext]_serverVars

\* Every request has a timeout and every timer fires; nobody has to ask, drop or stop.
ServerFairSpec ==
  /\ ServerSpec
  /\ \A i \in Ids : WF_serverVars(LoginSettles(i)) /\ WF_serverVars(RestSettles(i)) /\ WF_serverVars(RetryFires(i))
  /\ WF_serverVars(RefreshFires)
  /\ WF_serverVars(StopEnds)

-----------------------------------------------------------------------------

ServerTypeOK ==
  /\ connects \in Ids
  /\ phase \in [Ids -> {"none", "login", "rest", "made", "over"}]
  /\ by \in [Ids -> {"start", "retry", "refresh"}]
  /\ resumed \in [Ids -> BOOLEAN]
  /\ alive \subseteq 1 .. connects
  /\ client \in 0 .. connects
  /\ timers \subseteq 1 .. set /\ retry = set
  /\ refresh \in {"none", "timer", "login"}
  /\ asked \in [Commands -> {"idle", "waits", "answered", "unavailable", "cut"}]
  /\ {longList, resume, up, stopped, done, refused, overlap} \subseteq BOOLEAN
  /\ failures \in 0 .. MaxFailures /\ stales \in 0 .. MaxStale

\* A running server without a connection has one on the way: its first login, a retry, or the
\* timer of one.  Whatever fails, drops or overlaps, it is never without both - except for an
\* account of many chats, whose connection may be lost unheard (#lost, #reconnectLater).
WayBack ==
  \/ stopped \/ longList
  \/ client \in alive \/ timers # {}
  \/ \E i \in Ids : phase[i] \in {"login", "rest"} /\ by[i] \in {"start", "retry"}

\* A command that comes while the server logs in, or logs in again, waits for it: it does not
\* wait once there is a client, and is never told "not connected" by a server that runs
\* (#request, the comment on login).
WaitsForLogin ==
  \A c \in Commands :
    /\ client # None => asked[c] # "waits"
    /\ asked[c] # "unavailable"

\* Each login is one MAX counts.  The server begins none while another is under way, and none after MAX
\* has refused one (refusedLogin: a login repeated after the limit error kept an account locked); one
\* beside a connection it holds only in the background, for a push it could not follow (#goneStale),
\* and any other only when it holds none (#lost, #reconnectLater).  Until the connection is lost
\* with such a background login due or under way: then the retry runs beside it, stop() knows
\* one timer of two, and what is left of them may log in after a refusal.
NoNeedlessLogin ==
  [][ connects' > connects /\ ~ overlap =>
        /\ ~ refused
        /\ \A i \in Ids : phase[i] \notin {"login", "rest"}
        /\ by'[connects'] = "refresh" <=> client \in alive ]_serverVars

Serving == stopped \/ client \in alive

\* The server connects again: it is not left for good without a connection, however often it
\* fails, where LOGIN answers every chat (#lost, #reconnectLater, #goneStale).
ConnectsAgain == ~ longList /\ ~ Serving ~> Serving

\* "If MAX dropped the connection, the server connects again" (docs/usage.md), of every account.
AlwaysConnectsAgain == ~ Serving ~> Serving
=============================================================================
