------------------------------- MODULE SignIn -------------------------------
(***************************************************************************)
(* `max session start` (src/src/commands/session.ts), with a token pasted   *)
(* or by a QR code that the person's phone approves (src/src/session/       *)
(* login.ts): a connection of its own for the code, a page to show it on, a *)
(* password if the account has one, and a second connection on which the    *)
(* token is tried before it is kept (src/src/session/adopt.ts).             *)
(*                                                                          *)
(* `--timeout` may end the command at any wait (src/src/deadline.ts): it    *)
(* closes what the command holds then, and the body goes on to its own end. *)
(* The login in a browser is BrowserLogin's, what two commands make of one  *)
(* profile ProfileSession's; Ctrl-C ends the process and all it holds.      *)
(***************************************************************************)
EXTENDS Naturals

CONSTANT PasswordAttempts    \* PASSWORD_ATTEMPTS

ASSUME SignInAssumption == PasswordAttempts \in Nat \ {0}

VARIABLES
  start,       \* where the body of the command is
  told,        \* what the person was told first
  first,       \* the connection that asks for the code
  second,      \* the connection that tries the token
  page,        \* the page with the code
  server,      \* `max serve`: on the old session, none, on the new one
  code,        \* MAX's code, and whether its time is over by our clock
  phone,       \* has the phone approved it?
  passwords,   \* how many were tried, whether one is asked for on this account, and whether one was right
  token,       \* what the body has in its hands
  keyring,     \* what the profile keeps
  budget       \* --timeout

signVars == << start, told, first, second, page, server, code, phone, passwords, token, keyring, budget >>

SignInInit ==
  /\ start = "begins" /\ told = "nothing"
  /\ first = "none" /\ second = "none" /\ page = "none"
  /\ server = "old" /\ keyring = "old"
  /\ code = "none" /\ phone = "away"
  /\ \E needed \in BOOLEAN : passwords = [needed |-> needed, tried |-> 0, right |-> FALSE]
  /\ token = "none"
  /\ budget \in {"ahead", "none"}

Tells(what) == told' = IF told = "nothing" THEN what ELSE told

----------------------------------------------------------------------------
\* Paused, nobody at the terminal, MAX_TOKEN in the way, no token given: before anything is stopped or asked.
TurnedDown ==
  /\ start = "begins"
  /\ start' = "ended" /\ Tells("error")
  /\ UNCHANGED << first, second, page, server, code, phone, passwords, token, keyring, budget >>

SignInBegins ==
  /\ start = "begins"
  /\ start' = "stops the server"
  /\ token' \in {"none", "pasted"}
  /\ UNCHANGED << told, first, second, page, server, code, phone, passwords, keyring, budget >>

\* stopServer, which may get no answer in two seconds; then the connection of the method.
StopsServer ==
  /\ start = "stops the server"
  /\ server' \in {"none", server}
  /\ IF token = "pasted" THEN start' = "opens its own" /\ second' = "opening" /\ UNCHANGED first
                         ELSE start' = "opens" /\ first' = "opening" /\ UNCHANGED second
  /\ UNCHANGED << told, page, code, phone, passwords, token, keyring, budget >>

\* #beforeLogin.
Opens ==
  /\ start = "opens"
  /\ first' = "open" /\ start' = "inits"
  /\ UNCHANGED << told, second, page, server, code, phone, passwords, token, keyring, budget >>

Inits ==
  /\ start = "inits" /\ first = "open"
  /\ start' = "asks for a code"
  /\ UNCHANGED << told, first, second, page, server, code, phone, passwords, token, keyring, budget >>

QrRequested ==
  /\ start = "asks for a code" /\ first = "open"
  /\ code' = "live" /\ start' = "shows"
  /\ UNCHANGED << told, first, second, page, server, phone, passwords, token, keyring, budget >>

\* show: drawn in the terminal at once, or on a page, which the deadline knows once it listens.
Drawn ==
  /\ start = "shows"
  /\ start' = "waits"
  /\ UNCHANGED << told, first, second, page, server, code, phone, passwords, token, keyring, budget >>

ServesPage ==
  /\ start = "shows"
  /\ start' = "listens"
  /\ UNCHANGED << told, first, second, page, server, code, phone, passwords, token, keyring, budget >>

PageUp ==
  /\ start = "listens"
  /\ page' = "up" /\ start' = "opens a browser"
  /\ UNCHANGED << told, first, second, server, code, phone, passwords, token, keyring, budget >>

BrowserOpens ==
  /\ start = "opens a browser"
  /\ start' = "waits"
  /\ UNCHANGED << told, first, second, page, server, code, phone, passwords, token, keyring, budget >>

\* The turn of tokenByQr: one question, and one more after an interval, while the code lives.
AsksStatus ==
  /\ start = "waits" /\ code = "live"
  /\ start' = "checks"
  /\ UNCHANGED << told, first, second, page, server, code, phone, passwords, token, keyring, budget >>

StatusAnswered ==
  /\ start = "checks" /\ first = "open"
  /\ start' = IF phone = "approved" THEN "exchanges" ELSE "sleeps"
  /\ UNCHANGED << told, first, second, page, server, code, phone, passwords, token, keyring, budget >>

Sleeps ==
  /\ start = "sleeps"
  /\ start' = "waits"
  /\ UNCHANGED << told, first, second, page, server, code, phone, passwords, token, keyring, budget >>

\* LOGIN_BY_QR: a token, or the challenge of an account with a password.
Exchanged ==
  /\ start = "exchanges" /\ first = "open" /\ phone = "approved"
  /\ IF passwords.needed THEN start' = "prompts" /\ UNCHANGED token
                         ELSE start' = "cleans up" /\ token' = "issued"
  /\ UNCHANGED << told, first, second, page, server, code, phone, passwords, keyring, budget >>

\* tokenFrom: a person types, rightly or not.
Types ==
  /\ start = "prompts"
  /\ start' \in {"tries right", "tries wrong"}
  /\ passwords' = [passwords EXCEPT !.tried = @ + 1]
  /\ UNCHANGED << told, first, second, page, server, code, phone, token, keyring, budget >>

PasswordRight ==
  /\ start = "tries right" /\ first = "open"
  /\ passwords' = [passwords EXCEPT !.right = TRUE]
  /\ token' = "issued" /\ start' = "cleans up"
  /\ UNCHANGED << told, first, second, page, server, code, phone, keyring, budget >>

PasswordWrong ==
  /\ start = "tries wrong" /\ first = "open" /\ passwords.tried < PasswordAttempts
  /\ start' = "prompts"
  /\ UNCHANGED << told, first, second, page, server, code, phone, passwords, token, keyring, budget >>

\* What throws: MAX refuses or does not answer, no browser opens, Ctrl-C at the prompt, the code's time, the last password.
Throws ==
  /\ \/ start \in {"opens", "inits", "asks for a code", "opens a browser", "listens", "checks", "exchanges", "prompts",
                   "tries right"}
     \/ start = "waits" /\ code = "expired"
     \/ start = "tries wrong" /\ (first # "open" \/ passwords.tried = PasswordAttempts)
  /\ start' = "cleans up"
  /\ UNCHANGED << told, first, second, page, server, code, phone, passwords, token, keyring, budget >>

\* The finally of obtain; then what was thrown, or the connection of the command itself.
Shut(what) == IF what = "none" THEN "none" ELSE "closed"
CleansHalf ==    \* a mutant: the page is left to the deadline
  /\ first' = Shut(first) /\ UNCHANGED page
CleansAll ==
  /\ first' = Shut(first) /\ page' = Shut(page)

CleansUp ==
  /\ start = "cleans up"
  /\ CleansAll
  /\ IF token = "none" THEN start' = "ended" /\ Tells("error") /\ UNCHANGED second
                       ELSE start' = "opens its own" /\ second' = "opening" /\ UNCHANGED told
  /\ UNCHANGED << server, code, phone, passwords, token, keyring, budget >>

----------------------------------------------------------------------------
\* adoptToken: the login first, the keyring after, and the close in the command's finally.
OpensOwn ==
  /\ start = "opens its own"
  /\ second' = "open" /\ start' = "logs in"
  /\ UNCHANGED << told, first, page, server, code, phone, passwords, token, keyring, budget >>

LoggedIn ==
  /\ start = "logs in" /\ second = "open"
  /\ keyring' = "new" /\ Tells("done")
  /\ second' = "closed" /\ start' = "shares"
  /\ UNCHANGED << first, page, server, code, phone, passwords, token, budget >>

LoginThrows ==
  /\ start \in {"opens its own", "logs in"}
  /\ second' = "closed" /\ start' = "ended" /\ Tells("error")
  /\ UNCHANGED << first, page, server, code, phone, passwords, token, keyring, budget >>

\* shareServer: another one, on the session that is now kept, or none where none may be shared.
Shares ==
  /\ start = "shares"
  /\ server' \in {server, "new"}
  /\ start' = "ended"
  /\ UNCHANGED << told, first, second, page, code, phone, passwords, token, keyring, budget >>

----------------------------------------------------------------------------
\* withDeadline: everything held now is closed; an open() under way is never settled after that.
Opening == (start = "opens" /\ first = "opening") \/ (start = "opens its own" /\ second = "opening")

TimeIsOver ==
  /\ budget = "ahead" /\ start \notin {"begins", "ended", "stuck"}
  /\ budget' = "over" /\ Tells("timeout")
  /\ first' = Shut(first) /\ second' = Shut(second) /\ page' = Shut(page)
  /\ start' = IF Opening THEN "stuck" ELSE start
  /\ UNCHANGED << server, code, phone, passwords, token, keyring >>

Approves ==
  /\ phone = "away" /\ code = "live"
  /\ phone' = "approved"
  /\ UNCHANGED << start, told, first, second, page, server, code, passwords, token, keyring, budget >>

CodeExpires ==
  /\ code = "live"
  /\ code' = "expired"
  /\ UNCHANGED << start, told, first, second, page, server, phone, passwords, token, keyring, budget >>

SignInNext ==
  \/ TurnedDown \/ SignInBegins \/ StopsServer \/ Opens \/ Inits \/ QrRequested
  \/ Drawn \/ ServesPage \/ PageUp \/ BrowserOpens
  \/ AsksStatus \/ StatusAnswered \/ Sleeps \/ Exchanged \/ Types \/ PasswordRight \/ PasswordWrong
  \/ Throws \/ CleansUp \/ OpensOwn \/ LoggedIn \/ LoginThrows \/ Shares
  \/ TimeIsOver \/ Approves \/ CodeExpires

SignInSpec == SignInInit /\ [][SignInNext]_signVars

----------------------------------------------------------------------------
Connections == {"none", "opening", "open", "closed"}

SignInTypeOK ==
  /\ start \in {"begins", "stops the server", "opens", "inits", "asks for a code", "shows", "listens",
                "opens a browser", "waits", "checks", "sleeps", "exchanges", "prompts", "tries right", "tries wrong",
                "cleans up", "opens its own", "logs in", "shares", "ended", "stuck"}
  /\ told \in {"nothing", "error", "done", "timeout"}
  /\ {first, second} \subseteq Connections /\ page \in {"none", "up", "closed"}
  /\ server \in {"old", "none", "new"} /\ keyring \in {"old", "new"}
  /\ code \in {"none", "live", "expired"} /\ phone \in {"away", "approved"}
  /\ passwords \in [needed : BOOLEAN, tried : 0 .. PasswordAttempts, right : BOOLEAN]
  /\ token \in {"none", "pasted", "issued"}
  /\ budget \in {"ahead", "over", "none"}

(***************************************************************************)
(* A login that ends, in whichever way and at whichever moment, leaves      *)
(* nothing that keeps the process or the page with the code: no connection  *)
(* and no page outlive the body, nor a body that the deadline has stranded  *)
(* (src/src/commands/session.ts:175, src/src/deadline.ts).  The connection  *)
(* that asked for the code is gone before the token is tried on another.    *)
(* A session is kept only if the person proved who they are and MAX took    *)
(* the token; who is told of an error still has the old one.                *)
(***************************************************************************)
LoginLeavesNothing ==
  /\ start \in {"ended", "stuck"} => page # "up" /\ {first, second} \cap {"opening", "open"} = {}
  /\ second \in {"opening", "open"} => first \in {"none", "closed"}
  /\ keyring = "new" => token = "pasted" \/ (phone = "approved" /\ (passwords.needed => passwords.right))
  /\ told = "done" => keyring = "new"
  /\ told = "error" => keyring = "old"
  /\ server = "new" => keyring = "new"
=============================================================================
