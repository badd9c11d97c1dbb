------------------------------- MODULE McpHost -------------------------------
(***************************************************************************)
(* `max mcp` (src/src/mcp/): the calls of an agent, which take turns over   *)
(* one client that is held between them, and the owner's confirmation of    *)
(* each write.  With `--timeout` a call is given up while its body goes on  *)
(* (src/src/deadline.ts); such a body is called stray here.                 *)
(*                                                                          *)
(* One call may name a chat: what it resolves to may change at any moment.  *)
(* A write's other arguments and its tool are its wording, but for the time *)
(* it is to be sent at, which is read against the clock (sendTime of        *)
(* src/src/config.ts; that it is within a year is left out).  A form, with  *)
(* the nonce the server made for it, is its number.                         *)
(***************************************************************************)
EXTENDS Integers, Sequences, FiniteSets

CONSTANTS
  Calls,
  Rooms,       \* the chats a name may stand for
  Wordings,    \* tool, text and options of a write
  Whens,       \* what its `at` may say: nothing, a time, or a delay
  ValidFor,    \* VALID_MS, in minutes
  MaxClients, MaxClock   \* bounds on the logins and the minutes

VARIABLES
  bounded,     \* was the server started with --timeout?
  asked,       \* what each call is, once it came
  queue,       \* calls behind #queue
  turn,        \* the call #queue is at, or nobody
  rescue,      \* what its end waits for: nothing, the deadline's closing, or the release of the catch
  body,        \* where the body of each call is
  client,      \* the client each body uses
  held, aged,  \* #held, and whether it is older than maxAgeMs
  idle,        \* is the idle timer set?
  opened,      \* clients made so far
  alive,       \* those nobody has begun to close
  shutting,    \* no, closed, or done
  named,       \* the chat the name stands for now
  clock,       \* the minute it is
  forms,       \* what each form showed, and what was sealed
  issued,      \* nonces of forms not used yet
  acts         \* writes MAX was asked to do

mcpVars == << bounded, asked, queue, turn, rescue, body, client, held, aged, idle, opened, alive,
              shutting, named, clock, forms, issued, acts >>
sessionVars == << queue, turn, rescue, held, aged, idle, opened, alive, shutting >>
confirmVars == << named, clock, forms, issued, acts >>

Nobody == "nobody"

ASSUME McpAssumption ==
  /\ MaxClients \in Nat \ {0} /\ MaxClock \in Nat /\ ValidFor \in Nat
  /\ Nobody \notin Calls \cup Wordings
  /\ Whens \subseteq [by : {"none", "at", "in"}, n : Nat]

AtOnce == [by |-> "none", n |-> 0]
NotAsked == [kind |-> "none", wording |-> Nobody, when |-> AtOnce, answer |-> "missing", form |-> 0, due |-> 0]

McpInit ==
  /\ bounded \in BOOLEAN
  /\ asked = [c \in Calls |-> NotAsked]
  /\ queue = << >> /\ turn = Nobody /\ rescue = "none"
  /\ body = [c \in Calls |-> "none"] /\ client = [c \in Calls |-> 0]
  /\ held = 0 /\ aged = FALSE /\ idle = FALSE
  /\ opened = 0 /\ alive = {}
  /\ shutting = "no"
  /\ named \in Rooms /\ clock = 0 /\ forms = << >> /\ issued = {} /\ acts = << >>

----------------------------------------------------------------------------
\* The agent's calls.  A write comes without an answer, or again with what the form was answered
\* and the state the form came with: this server's own, or one that is no form's.
Demands ==
  [kind : {"read", "transcribe"}, wording : {Nobody}, when : {AtOnce}, answer : {"missing"}, form : {0}, due : {0}]
    \cup [kind : {"write"}, wording : Wordings, when : Whens, answer : {"missing", "decline"}, form : {0}, due : {0}]
Acceptances ==
  [kind : {"write"}, wording : Wordings, when : Whens, answer : {"accept"}, form : DOMAIN forms, due : {0}]

Use(c) ==
  /\ asked[c] = NotAsked /\ body[c] = "none" /\ shutting = "no"
  /\ \E ask \in Demands \cup Acceptances : asked' = [asked EXCEPT ![c] = ask]
  /\ queue' = Append(queue, c)
  /\ UNCHANGED << bounded, turn, rescue, body, client, held, aged, idle, opened, alive, shutting, confirmVars >>

----------------------------------------------------------------------------
\* #release: the fields are emptied and the client stops at once; whoever awaits it goes on later.
Release ==
  /\ held' = 0 /\ aged' = FALSE /\ idle' = FALSE
  /\ alive' = alive \ {held}

\* The body is over, and what it was asked is of no account any more.
BodyEnds(c) ==
  /\ body' = [body EXCEPT ![c] = "ended"]
  /\ asked' = [asked EXCEPT ![c] = NotAsked]
  /\ client' = [client EXCEPT ![c] = 0]

TurnCame(c) == idle' = FALSE

\* #call up to #hold: the client held, unless it has aged or there is none.
Turn(c) ==
  /\ turn = Nobody /\ queue # << >> /\ c = Head(queue)
  /\ queue' = Tail(queue)
  /\ \/ /\ shutting = "closed"
        /\ BodyEnds(c)
        /\ UNCHANGED << turn, held, aged, idle, alive >>
     \/ /\ shutting = "no"
        /\ turn' = c
        /\ UNCHANGED asked
        /\ \/ /\ held # 0 /\ aged
              /\ Release
              /\ body' = [body EXCEPT ![c] = "aging"] /\ client' = [client EXCEPT ![c] = held]
           \/ /\ held # 0 /\ ~aged
              /\ TurnCame(c)
              /\ body' = [body EXCEPT ![c] = "runs"] /\ client' = [client EXCEPT ![c] = held]
              /\ UNCHANGED << held, aged, alive >>
           \/ /\ held = 0
              /\ TurnCame(c)
              /\ body' = [body EXCEPT ![c] = "opening"]
              /\ UNCHANGED << client, held, aged, alive >>
  /\ UNCHANGED << bounded, rescue, opened, shutting, confirmVars >>

\* #hold again, once the client that aged is closed.
Aged(c) ==
  /\ body[c] = "aging"
  /\ body' = [body EXCEPT ![c] = IF held = 0 THEN "opening" ELSE "runs"]
  /\ client' = [client EXCEPT ![c] = held]
  /\ UNCHANGED << bounded, asked, sessionVars, confirmVars >>

\* openProfileCache is awaited, then the client is opened.
CacheOpened(c) ==
  /\ body[c] = "opening" /\ opened < MaxClients
  /\ opened' = opened + 1
  /\ held' = opened + 1 /\ aged' = FALSE
  /\ alive' = alive \cup {opened + 1}
  /\ body' = [body EXCEPT ![c] = "runs"] /\ client' = [client EXCEPT ![c] = opened + 1]
  /\ UNCHANGED << bounded, asked, queue, turn, rescue, idle, shutting, confirmVars >>

\* The body ends with an answer, or an error that says nothing of the connection.
Answered(c) ==
  /\ BodyEnds(c)
  /\ \/ turn # c /\ UNCHANGED << turn, rescue, idle >>
     \/ turn = c /\ rescue = "release" /\ UNCHANGED << turn, rescue, idle >>
     \/ /\ turn = c /\ rescue # "release"
        /\ turn' = Nobody /\ rescue' = "none"
        /\ idle' = (held # 0)
  /\ UNCHANGED << bounded, queue, held, aged, opened, alive, shutting >>

\* Any other error: the turn's client is released with it.
Fails(c) ==
  /\ body[c] \in {"runs", "acting", "aside"}
  /\ BodyEnds(c)
  /\ \/ turn = c /\ rescue # "release" /\ rescue' = "release" /\ Release
     \/ (turn # c \/ rescue = "release") /\ UNCHANGED << rescue, held, aged, idle, alive >>
  /\ UNCHANGED << bounded, queue, turn, opened, shutting, confirmVars >>

\* The catch of #call has released, and its finally sets the timer if a stray body holds a client.
Caught ==
  /\ turn # Nobody /\ rescue = "release"
  /\ turn' = Nobody /\ rescue' = "none"
  /\ idle' = (held # 0)
  /\ UNCHANGED << bounded, asked, queue, body, client, held, aged, opened, alive, shutting, confirmVars >>

\* withDeadline: every client the process has opened is closed, and then the call is given up.
Deadline ==
  /\ bounded /\ turn # Nobody /\ rescue = "none"
  /\ rescue' = "deadline"
  /\ alive' = {}
  /\ UNCHANGED << bounded, asked, queue, turn, body, client, held, aged, idle, opened, shutting, confirmVars >>

GivenUp ==
  /\ rescue = "deadline"
  /\ rescue' = "release"
  /\ Release
  /\ UNCHANGED << bounded, asked, queue, turn, body, client, opened, shutting, confirmVars >>

IdleFires ==
  /\ idle
  /\ Release
  /\ UNCHANGED << bounded, asked, queue, turn, rescue, body, client, opened, shutting, confirmVars >>

ClientAges ==
  /\ held # 0 /\ ~aged
  /\ aged' = TRUE
  /\ UNCHANGED << bounded, asked, queue, turn, rescue, body, client, held, idle, opened, alive, shutting, confirmVars >>

\* close: no call starts any more, and the last one to end is waited for.
Close ==
  /\ shutting = "no"
  /\ shutting' = "closed"
  /\ UNCHANGED << bounded, asked, queue, turn, rescue, body, client, held, aged, idle, opened, alive, confirmVars >>

Stopped ==
  /\ shutting = "closed" /\ queue = << >> /\ turn = Nobody
  /\ shutting' = "done"
  /\ Release
  /\ UNCHANGED << bounded, asked, queue, turn, rescue, body, client, opened, confirmVars >>

----------------------------------------------------------------------------
\* The tools that read, and the resources.
Read(c) ==
  /\ body[c] = "runs" /\ asked[c].kind = "read" /\ client[c] \in alive
  /\ Answered(c)
  /\ UNCHANGED confirmVars

\* A transcription lets go of the session's client once it has the file, whoever holds it by then.
Transcribe(c) ==
  /\ body[c] = "runs" /\ asked[c].kind = "transcribe" /\ client[c] \in alive
  /\ body' = [body EXCEPT ![c] = "aside"]
  /\ Release
  /\ UNCHANGED << bounded, asked, queue, turn, rescue, client, opened, shutting, confirmVars >>

Transcribed(c) ==
  /\ body[c] = "aside"
  /\ Answered(c)
  /\ UNCHANGED confirmVars

\* What a write is, with its chat resolved: what the seal of its form binds.  Its time is sealed as it
\* was written; a form shows what that came to, and the write reckons it again.
Sealed(c, room) == [wording |-> asked[c].wording, when |-> asked[c].when, room |-> room]
SendTime(when) == IF when.by = "in" THEN clock + when.n ELSE when.n
TooSoon(when) == when.by # "none" /\ SendTime(when) < clock + 1

\* The forms that have not expired.
Current == { f \in issued : clock <= forms[f].made + ValidFor }

\* Mutant of Spend: the nonce is kept until MAX has answered.
SpendLater(f) == issued' = Current

Spend(f) == issued' = Current \ {f}

Fits(c) == asked[c].form \in Current /\ forms[asked[c].form].seal = Sealed(c, named)

\* confirmer, once the chat is resolved: ask, refuse, or go on to the write.
Confirm(c) ==
  /\ body[c] = "runs" /\ asked[c].kind = "write" /\ client[c] \in alive
  /\ LET ask == asked[c] IN
     \/ /\ ~TooSoon(ask.when) /\ ask.answer = "missing"
        /\ forms' = Append(forms, [seal |-> Sealed(c, named), due |-> SendTime(ask.when), made |-> clock])
        /\ issued' = Current \cup {Len(forms) + 1}
        /\ Answered(c)
     \/ /\ TooSoon(ask.when) \/ ask.answer = "decline" \/ (ask.answer = "accept" /\ ~Fits(c))
        /\ issued' = Current
        /\ Answered(c)
        /\ UNCHANGED forms
     \/ /\ ~TooSoon(ask.when) /\ ask.answer = "accept" /\ Fits(c)
        /\ Spend(ask.form)
        /\ asked' = [asked EXCEPT ![c].due = SendTime(ask.when)]
        /\ body' = [body EXCEPT ![c] = "acting"]
        /\ UNCHANGED << bounded, client, sessionVars, forms >>
  /\ UNCHANGED << named, clock, acts >>

\* Mutant of Target: the write looks the name up again.
TargetByName(c) == named

\* The write is given what was sealed: the chat the form showed.
Target(c) == forms[asked[c].form].seal.room

Act(c) ==
  /\ body[c] = "acting" /\ client[c] \in alive
  /\ acts' = Append(acts, [form |-> asked[c].form, what |-> Sealed(c, Target(c)), due |-> asked[c].due])
  /\ Answered(c)
  /\ UNCHANGED << named, clock, forms, issued >>

Rename ==
  /\ named' \in Rooms \ {named}
  /\ UNCHANGED << bounded, asked, body, client, sessionVars, clock, forms, issued, acts >>

Tick ==
  /\ clock < MaxClock
  /\ clock' = clock + 1
  /\ UNCHANGED << bounded, asked, body, client, sessionVars, named, forms, issued, acts >>

----------------------------------------------------------------------------
McpNext ==
  \/ \E c \in Calls :
       \/ Use(c) \/ Turn(c) \/ Aged(c) \/ CacheOpened(c) \/ Fails(c)
       \/ Read(c) \/ Transcribe(c) \/ Transcribed(c) \/ Confirm(c) \/ Act(c)
  \/ Caught \/ Deadline \/ GivenUp \/ IdleFires \/ ClientAges \/ Close \/ Stopped \/ Rename \/ Tick

McpSpec == McpInit /\ [][McpNext]_mcpVars

----------------------------------------------------------------------------
Seals == [wording : Wordings, when : Whens, room : Rooms]

\* Every variable has its type.
McpTypeOK ==
  /\ bounded \in BOOLEAN /\ aged \in BOOLEAN /\ idle \in BOOLEAN
  /\ clock \in 0 .. MaxClock
  /\ \A c \in Calls : asked[c].due \in Nat
                     /\ [asked[c] EXCEPT !.due = 0] \in {NotAsked} \cup Demands \cup Acceptances
  /\ queue \in Seq(Calls) /\ turn \in Calls \cup {Nobody}
  /\ rescue \in {"none", "deadline", "release"}
  /\ body \in [Calls -> {"none", "aging", "opening", "runs", "aside", "acting", "ended"}]
  /\ opened \in 0 .. MaxClients /\ held \in 0 .. opened /\ client \in [Calls -> 0 .. opened]
  /\ alive \subseteq 1 .. opened
  /\ shutting \in {"no", "closed", "done"}
  /\ named \in Rooms
  /\ forms \in Seq([seal : Seals, due : Nat, made : 0 .. MaxClock])
  /\ issued \subseteq DOMAIN forms
  /\ acts \in Seq([form : DOMAIN forms, what : Seals, due : Nat])

Uses(c) == body[c] \in {"runs", "acting"}

\* What a form showed is what is done: to the minute, but that a delay is reckoned again when the owner
\* agrees, and what it says of a time is then later by up to the minutes a form is good for.
AsShown(act, form) ==
  /\ act.what = form.seal
  /\ form.due <= act.due
  /\ act.due <= form.due + (IF form.seal.when.by = "in" THEN ValidFor ELSE 0)

\* Each write MAX is asked for is the one a form showed, with the chat the name stood for then, and at
\* the time it showed or, of a delay, up to five minutes later; and no form is good for two: not with a
\* repeated call, a chat renamed since, a clock that goes on, or a body that outlives its turn ("The
\* answer is bound to what the form showed", src/src/mcp/confirm.ts:48).
\* And without a deadline, no idle timer, age, failure or shutdown takes the client from under a call, and
\* no client is left open that the session does not hold: a process told to stop ends.
ConfirmedOnClientHeld ==
  /\ \A i \in DOMAIN acts :
       /\ AsShown(acts[i], forms[acts[i].form])
       /\ \A j \in DOMAIN acts : acts[j].form = acts[i].form => i = j
  /\ ~bounded => /\ alive \subseteq {held}
                 /\ \A c \in Calls : Uses(c) => client[c] \in alive
                 /\ shutting = "done" => alive = {}
=============================================================================
