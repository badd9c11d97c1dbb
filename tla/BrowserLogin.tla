---------------------------- MODULE BrowserLogin ----------------------------
(***************************************************************************)
(* A login in a browser of its own (src/src/session/browser.ts): a profile  *)
(* is made for it in a temporary directory, web.max.ru logs itself in, the  *)
(* token is read over the DevTools pipe, and the profile, which then holds  *)
(* a live session, goes with the browser.                                   *)
(*                                                                          *)
(* What ends it: the token, a closed window, five minutes, the deadline of  *)
(* the command, Ctrl-C.  A process without a handler for a signal ends      *)
(* there and then, and leaves everything as it is.                          *)
(***************************************************************************)
EXTENDS Integers, FiniteSets

CONSTANTS
  MaxPolls,       \* bound on the polls for the token
  MaxSignals     \* bound on Ctrl-C

ASSUME BrowserAssumption == MaxPolls \in Nat /\ MaxSignals \in Nat

VARIABLES
  command,    \* where tokenFromChromium is
  profile,    \* its directory: none, made, left in half, removed
  browser,    \* the process, which writes its profile until it has exited
  loggedIn,   \* is there a session in the profile?
  pipe,       \* DevTools requests that wait: of the poll, and of the shutdown
  closing,    \* #closing: not asked for, or how far #shutdown is
  handled,    \* are the handlers of signals installed?
  signalled,  \* has a signal asked for the close?
  tracked,    \* does the deadline know the browser?
  deadline,   \* of the command: ahead, fired, or none any more
  late,       \* did a signal come after the handlers were taken away?
  polls, signals

browserVars == << command, profile, browser, loggedIn, pipe, closing, handled, signalled, tracked, deadline, late,
                  polls, signals >>

BrowserInit ==
  /\ command = "begins" /\ profile = "none" /\ browser = "none" /\ loggedIn = FALSE
  /\ pipe = {} /\ closing = "no"
  /\ handled = FALSE /\ signalled = FALSE /\ tracked = FALSE
  /\ deadline \in {"ahead", "none"} /\ late = FALSE
  /\ polls = 0 /\ signals = 0

Alive == command # "gone"

----------------------------------------------------------------------------
\* findChromium, the profile, the browser, its pipe, the deadline and the handlers, in one breath.  A
\* browser that cannot be run is one that has exited.  Without a browser to run there is no profile.
Starts ==
  /\ command = "begins"
  /\ \/ command' = "ended" /\ UNCHANGED << profile, browser, handled, tracked >>
     \/ /\ command' = "polls" /\ profile' = "made"
        /\ browser' \in {"runs", "exited"}
        /\ handled' = TRUE /\ tracked' = TRUE
  /\ UNCHANGED << loggedIn, pipe, closing, signalled, deadline, late, polls, signals >>

\* #storedToken: its requests over the pipe, which is rejected at once where the browser is gone.
Asks ==
  /\ command = "polls" /\ polls < MaxPolls
  /\ polls' = polls + 1
  /\ command' = "asks"
  /\ pipe' = pipe \cup {"poll"}
  /\ UNCHANGED << profile, browser, loggedIn, closing, handled, signalled, tracked, deadline, late, signals >>

\* The answer: the token, or none yet; or no answer within five seconds, or ever.
PollAnswered ==
  /\ "poll" \in pipe
  /\ pipe' = pipe \ {"poll"}
  /\ command' = IF command # "asks" THEN command
                ELSE IF browser = "runs" /\ loggedIn THEN "has ended" ELSE "polls"
  /\ UNCHANGED << profile, browser, loggedIn, closing, handled, signalled, tracked, deadline, late, polls, signals >>

PollLost ==
  /\ "poll" \in pipe
  /\ pipe' = pipe \ {"poll"}
  /\ command' = IF command = "asks" THEN "polls" ELSE command
  /\ UNCHANGED << profile, browser, loggedIn, closing, handled, signalled, tracked, deadline, late, polls, signals >>

\* The browser is gone, or nobody logged in within five minutes.
GivesUp ==
  /\ command = "polls"
  /\ browser = "exited" \/ polls = MaxPolls
  /\ command' = "has ended"
  /\ UNCHANGED << profile, browser, loggedIn, pipe, closing, handled, signalled, tracked, deadline, late, polls, signals >>

\* Mutant of CloseBrowser: once somebody closes, nobody else waits for it.
CloseBrowserAlone == closing' = IF closing = "no" THEN "asks the browser" ELSE "removed"

\* close(): one shutdown, whoever asks for it.
CloseBrowser == closing' = IF closing = "no" THEN "asks the browser" ELSE closing

\* The finally of tokenFromChromium: the handlers go, then the browser.
Finally ==
  /\ command = "has ended"
  /\ command' = "closes"
  /\ handled' = FALSE
  /\ CloseBrowser
  /\ UNCHANGED << profile, browser, loggedIn, pipe, signalled, tracked, deadline, late, polls, signals >>

\* #shutdown, a step for each time it waits: Browser.close is answered, lost, or rejected; the browser
\* exits within its grace, or is killed and given two seconds more; the profile is removed.
ShutdownAsked ==
  /\ closing = "asks the browser" /\ Alive
  /\ closing' = "waits"
  /\ browser' \in (IF browser = "runs" THEN {"runs", "exits"} ELSE {browser})
  /\ UNCHANGED << command, profile, loggedIn, pipe, handled, signalled, tracked, deadline, late, polls, signals >>

\* It has exited, or its grace is over, and two seconds after it was killed.
GraceOver == browser \in {"exited", "hangs"}

ShutdownKills ==
  /\ closing = "waits" /\ browser \in {"runs", "exits"} /\ Alive
  /\ browser' \in {"exited", "hangs"}
  /\ UNCHANGED << command, profile, loggedIn, pipe, closing, handled, signalled, tracked, deadline, late, polls, signals >>

ShutdownRemoves ==
  /\ closing = "waits" /\ GraceOver /\ Alive
  /\ closing' = "removed"
  /\ profile' = IF browser = "exited" THEN "removed" ELSE "in half"
  /\ UNCHANGED << command, browser, loggedIn, pipe, handled, signalled, tracked, deadline, late, polls, signals >>

\* What awaits the shutdown goes on: the command, the deadline, and the handler, which ends the process.
ShutDown ==
  /\ closing = "removed"
  /\ \/ command = "closes" /\ command' = "ended" /\ UNCHANGED << deadline, browser >>
     \/ deadline = "closes" /\ deadline' = "fired" /\ UNCHANGED << command, browser >>
     \/ signalled /\ Alive /\ command' = "gone" /\ UNCHANGED << deadline, browser >>
  /\ UNCHANGED << profile, loggedIn, pipe, closing, handled, signalled, tracked, late, polls, signals >>

----------------------------------------------------------------------------
\* withDeadline: it closes what it knows, then the command answers with it; the rest still ends.
TimeIsUp ==
  /\ deadline = "ahead" /\ command \notin {"ended", "gone"}
  /\ \/ tracked /\ deadline' = "closes" /\ CloseBrowser
     \/ ~tracked /\ deadline' = "fired" /\ UNCHANGED closing
  /\ UNCHANGED << command, profile, browser, loggedIn, pipe, handled, signalled, tracked, late, polls, signals >>

\* A second Ctrl-C finds the same close under way.
Signal ==
  /\ signals < MaxSignals /\ command \notin {"begins", "ended", "gone"}
  /\ signals' = signals + 1
  /\ \/ handled /\ signalled' = TRUE /\ CloseBrowser /\ UNCHANGED << command, late >>
     \/ ~handled /\ late' = TRUE /\ command' = "gone" /\ UNCHANGED << closing, signalled >>
  /\ UNCHANGED << profile, browser, loggedIn, pipe, handled, tracked, deadline, polls >>

\* The person: logs in, or closes the window.
LogsIn ==
  /\ browser = "runs" /\ ~loggedIn
  /\ loggedIn' = TRUE
  /\ UNCHANGED << command, profile, browser, pipe, closing, handled, signalled, tracked, deadline, late, polls, signals >>

Exits ==
  /\ browser \in {"runs", "exits", "hangs"}
  /\ browser' = "exited"
  /\ UNCHANGED << command, profile, loggedIn, pipe, closing, handled, signalled, tracked, deadline, late, polls, signals >>

BrowserNext ==
  \/ Starts \/ Asks \/ PollAnswered \/ PollLost \/ GivesUp \/ Finally
  \/ ShutdownAsked \/ ShutdownKills \/ ShutdownRemoves \/ ShutDown
  \/ TimeIsUp \/ Signal \/ LogsIn \/ Exits

BrowserSpec == BrowserInit /\ [][BrowserNext]_browserVars

----------------------------------------------------------------------------
\* Every variable has its type.
BrowserTypeOK ==
  /\ command \in {"begins", "polls", "asks", "has ended", "closes", "ended", "gone"}
  /\ profile \in {"none", "made", "in half", "removed"}
  /\ browser \in {"none", "runs", "exits", "hangs", "exited"}
  /\ pipe \subseteq {"poll"}
  /\ closing \in {"no", "asks the browser", "waits", "removed"}
  /\ deadline \in {"ahead", "closes", "fired", "none"}
  /\ {loggedIn, handled, signalled, tracked, late} \subseteq BOOLEAN
  /\ polls \in 0 .. MaxPolls /\ signals \in 0 .. MaxSignals

\* "The profile holds a live session, so it is deleted on every way out: success, a closed window,
\* `--timeout`, Ctrl-C" (src/src/session/browser.ts:149), and whole: never under a browser that still
\* writes it, unless that one outlives its kill.  The way out the code forgets is a signal that comes
\* after the handlers were taken away, while the browser is being closed (browser.ts:186).
ProfileGone ==
  /\ command \in {"ended", "gone"} /\ ~late => profile \in {"none", "removed", "in half"}
  /\ profile = "in half" => browser \in {"hangs", "exited"}
  /\ profile = "removed" => browser = "exited"
=============================================================================
