---------------------------- MODULE SessionProofs ----------------------------
(***************************************************************************)
(* How a session comes to a profile, and the login in a browser or by a     *)
(* code that it comes from; and the login `max serve` hands on: what SignIn,  *)
(* BrowserLogin, ServerStart, ProfileSession and LiveLogin promise, for      *)
(* every value of their constants.                                          *)
(***************************************************************************)
EXTENDS SignIn, BrowserLogin, ServerStart, ProfileSession, LiveLogin, FiniteSetTheorems, WellFoundedInduction, TLAPS

----------------------------------------------------------------------------
\* SignIn: what is open, known and kept at each place of the body.
PagePlaces == {"opens a browser", "waits", "checks", "sleeps", "exchanges", "prompts", "tries right", "tries wrong",
               "cleans up"}
CodePlaces == PagePlaces \cup {"opens", "inits", "asks for a code", "shows", "listens"}
OwnPlaces == {"opens its own", "logs in"}
ApprovedPlaces == {"exchanges", "prompts", "tries right", "tries wrong"}

PasswordsTyped == passwords \in [needed : BOOLEAN, tried : 0 .. PasswordAttempts, right : BOOLEAN]

Places ==
  {"begins", "stops the server", "opens", "inits", "asks for a code", "shows", "listens", "opens a browser", "waits",
   "checks", "sleeps", "exchanges", "prompts", "tries right", "tries wrong", "cleans up", "opens its own", "logs in",
   "shares", "ended", "stuck"}

TokensTyped ==
  /\ told \in {"nothing", "error", "done", "timeout"}
  /\ page \in {"none", "up", "closed"}
  /\ server \in {"old", "none", "new"}
  /\ code \in {"none", "live", "expired"} /\ phone \in {"away", "approved"}
  /\ token \in {"none", "pasted", "issued"}
  /\ budget \in {"ahead", "over", "none"}

\* The connection for the code and the page belong to the first half of the body, the other connection
\* to the second: a step that leaves a half has let go of what is its own.
HeldWhereUsed ==
  /\ first \in Connections /\ second \in Connections
  /\ first \in {"opening", "open"} => start \in CodePlaces
  /\ second \in {"opening", "open"} => start \in OwnPlaces
  /\ page = "up" => start \in PagePlaces

TokenInHand ==
  /\ start \in ApprovedPlaces => phone = "approved"
  /\ token = "issued" => phone = "approved"
  /\ start \in OwnPlaces \cup {"shares"} => token # "none"

\* The keyring changes in the last step that can throw, so who is told of an error has the old session.
KeptAtTheEnd ==
  /\ keyring \in {"old", "new"}
  /\ keyring = "new" => start \in {"shares", "ended"} /\ token # "none"
  /\ start = "shares" => keyring = "new"
  /\ told = "error" => start = "ended" /\ keyring = "old"
  /\ told = "done" => keyring = "new"
  /\ server = "new" => keyring = "new"

\* A token that MAX has issued came after the password, on an account that has one.
PasswordGiven == token = "issued" /\ passwords.needed => passwords.right

\* A prompt comes while there are attempts left.
AttemptsLeft ==
  /\ start \in Places \ {"prompts", "tries right", "tries wrong", "cleans up", "opens its own", "logs in", "shares",
                         "ended", "stuck"} => passwords.tried = 0
  /\ start = "prompts" => passwords.tried < PasswordAttempts

SignInInv ==
  /\ start \in Places /\ TokensTyped /\ PasswordsTyped
  /\ HeldWhereUsed /\ TokenInHand /\ KeptAtTheEnd /\ PasswordGiven /\ AttemptsLeft

LEMMA SignInInvInit == SignInInit => SignInInv
  BY SignInAssumption
  DEF SignInInit, SignInInv, TokensTyped, PasswordsTyped, PasswordGiven, AttemptsLeft, HeldWhereUsed, TokenInHand,
      KeptAtTheEnd, Connections, Places, OwnPlaces, PagePlaces, CodePlaces, ApprovedPlaces

LEMMA SignInTypeParts == SignInInv => SignInTypeOK
  <1> SUFFICES ASSUME SignInInv PROVE SignInTypeOK
    OBVIOUS
  <1>1. start \in {"begins", "stops the server", "opens", "inits", "asks for a code", "shows", "listens",
                   "opens a browser", "waits", "checks", "sleeps", "exchanges", "prompts", "tries right",
                   "tries wrong", "cleans up", "opens its own", "logs in", "shares", "ended", "stuck"}
    BY Zenon DEF SignInInv, Places
  <1>2. {first, second} \subseteq Connections /\ keyring \in {"old", "new"}
    BY DEF SignInInv, HeldWhereUsed, KeptAtTheEnd
  <1> QED
    BY <1>1, <1>2 DEF SignInInv, SignInTypeOK, TokensTyped, PasswordsTyped

LEMMA StartTypedStep ==
  ASSUME start \in Places, [SignInNext]_signVars
  PROVE  start' \in Places
  BY DEF Places, signVars, SignInNext, TurnedDown, SignInBegins, StopsServer, Opens, Inits, QrRequested, Drawn, ServesPage, PageUp, BrowserOpens, AsksStatus,
     StatusAnswered, Sleeps, Exchanged, Types, PasswordRight, PasswordWrong, Throws, CleansUp, CleansAll, OpensOwn, LoggedIn,
     LoginThrows, Shares, TimeIsOver, Opening, Approves, CodeExpires, Tells, Shut

LEMMA TokensTypedStep ==
  ASSUME TokensTyped, [SignInNext]_signVars
  PROVE  TokensTyped'
  BY DEF TokensTyped, signVars, SignInNext, TurnedDown, SignInBegins, StopsServer, Opens, Inits, QrRequested, Drawn, ServesPage, PageUp, BrowserOpens, AsksStatus,
     StatusAnswered, Sleeps, Exchanged, Types, PasswordRight, PasswordWrong, Throws, CleansUp, CleansAll, OpensOwn, LoggedIn,
     LoginThrows, Shares, TimeIsOver, Opening, Approves, CodeExpires, Tells, Shut

LEMMA PlacesStep ==
  ASSUME HeldWhereUsed, TokenInHand, KeptAtTheEnd, [SignInNext]_signVars
  PROVE  (HeldWhereUsed /\ TokenInHand /\ KeptAtTheEnd)'
  <1> USE DEF HeldWhereUsed, TokenInHand, KeptAtTheEnd, Connections,
              OwnPlaces, PagePlaces, CodePlaces, ApprovedPlaces
  <1>1. ASSUME TurnedDown PROVE (HeldWhereUsed /\ TokenInHand /\ KeptAtTheEnd)'
    BY <1>1 DEF TurnedDown, Tells
  <1>2. ASSUME SignInBegins PROVE (HeldWhereUsed /\ TokenInHand /\ KeptAtTheEnd)'
    BY <1>2 DEF SignInBegins
  <1>3. ASSUME StopsServer PROVE (HeldWhereUsed /\ TokenInHand /\ KeptAtTheEnd)'
    BY <1>3 DEF StopsServer
  <1>4. ASSUME Opens PROVE (HeldWhereUsed /\ TokenInHand /\ KeptAtTheEnd)'
    BY <1>4 DEF Opens
  <1>5. ASSUME Inits PROVE (HeldWhereUsed /\ TokenInHand /\ KeptAtTheEnd)'
    BY <1>5 DEF Inits
  <1>6. ASSUME QrRequested PROVE (HeldWhereUsed /\ TokenInHand /\ KeptAtTheEnd)'
    BY <1>6 DEF QrRequested
  <1>7. ASSUME Drawn PROVE (HeldWhereUsed /\ TokenInHand /\ KeptAtTheEnd)'
    BY <1>7 DEF Drawn
  <1>8. ASSUME ServesPage PROVE (HeldWhereUsed /\ TokenInHand /\ KeptAtTheEnd)'
    BY <1>8 DEF ServesPage
  <1>9. ASSUME PageUp PROVE (HeldWhereUsed /\ TokenInHand /\ KeptAtTheEnd)'
    BY <1>9 DEF PageUp
  <1>10. ASSUME BrowserOpens PROVE (HeldWhereUsed /\ TokenInHand /\ KeptAtTheEnd)'
    BY <1>10 DEF BrowserOpens
  <1>11. ASSUME AsksStatus PROVE (HeldWhereUsed /\ TokenInHand /\ KeptAtTheEnd)'
    BY <1>11 DEF AsksStatus
  <1>12. ASSUME StatusAnswered PROVE (HeldWhereUsed /\ TokenInHand /\ KeptAtTheEnd)'
    BY <1>12 DEF StatusAnswered
  <1>13. ASSUME Sleeps PROVE (HeldWhereUsed /\ TokenInHand /\ KeptAtTheEnd)'
    BY <1>13 DEF Sleeps
  <1>14. ASSUME Exchanged PROVE (HeldWhereUsed /\ TokenInHand /\ KeptAtTheEnd)'
    BY <1>14 DEF Exchanged
  <1>15. ASSUME Types PROVE (HeldWhereUsed /\ TokenInHand /\ KeptAtTheEnd)'
    BY <1>15 DEF Types
  <1>16. ASSUME PasswordRight PROVE (HeldWhereUsed /\ TokenInHand /\ KeptAtTheEnd)'
    BY <1>16 DEF PasswordRight
  <1>17. ASSUME PasswordWrong PROVE (HeldWhereUsed /\ TokenInHand /\ KeptAtTheEnd)'
    BY <1>17 DEF PasswordWrong
  <1>18. ASSUME Throws PROVE (HeldWhereUsed /\ TokenInHand /\ KeptAtTheEnd)'
    BY <1>18 DEF Throws
  <1>19. ASSUME CleansUp PROVE (HeldWhereUsed /\ TokenInHand /\ KeptAtTheEnd)'
    BY <1>19 DEF CleansUp, CleansAll, Shut, Tells
  <1>20. ASSUME OpensOwn PROVE (HeldWhereUsed /\ TokenInHand /\ KeptAtTheEnd)'
    BY <1>20 DEF OpensOwn
  <1>21. ASSUME LoggedIn PROVE (HeldWhereUsed /\ TokenInHand /\ KeptAtTheEnd)'
    BY <1>21 DEF LoggedIn, Tells
  <1>22. ASSUME LoginThrows PROVE (HeldWhereUsed /\ TokenInHand /\ KeptAtTheEnd)'
    BY <1>22 DEF LoginThrows, Tells
  <1>23. ASSUME Shares PROVE (HeldWhereUsed /\ TokenInHand /\ KeptAtTheEnd)'
    BY <1>23 DEF Shares
  <1>24. ASSUME TimeIsOver PROVE (HeldWhereUsed /\ TokenInHand /\ KeptAtTheEnd)'
    BY <1>24 DEF TimeIsOver, Tells, Shut, Opening
  <1>25. ASSUME Approves PROVE (HeldWhereUsed /\ TokenInHand /\ KeptAtTheEnd)'
    BY <1>25 DEF Approves
  <1>26. ASSUME CodeExpires PROVE (HeldWhereUsed /\ TokenInHand /\ KeptAtTheEnd)'
    BY <1>26 DEF CodeExpires
  <1>27. CASE UNCHANGED signVars
    BY <1>27 DEF signVars
  <1> QED
    BY <1>1, <1>2, <1>3, <1>4, <1>5, <1>6, <1>7, <1>8, <1>9, <1>10, <1>11, <1>12, <1>13, <1>14, <1>15, <1>16, <1>17, <1>18, <1>19, <1>20, <1>21, <1>22, <1>23, <1>24, <1>25, <1>26, <1>27 DEF SignInNext

\* The steps that touch the passwords, or put a token in the body's hands.
LEMMA PasswordsChange ==
  ASSUME [SignInNext]_signVars, start \in Places
  PROVE  \/ /\ UNCHANGED passwords
            /\ token' = "issued" => token = "issued"
            /\ start' = "prompts" => start = "prompts"
            /\ start' \in Places \ {"prompts", "tries right", "tries wrong", "cleans up", "opens its own", "logs in",
                                    "shares", "ended", "stuck"}
               => start \in Places \ {"prompts", "tries right", "tries wrong", "cleans up", "opens its own", "logs in",
                                    "shares", "ended", "stuck"}
         \/ Types \/ PasswordRight \/ PasswordWrong \/ Exchanged
  BY DEF Places, signVars, SignInNext, TurnedDown, SignInBegins, StopsServer, Opens, Inits, QrRequested, Drawn, ServesPage, PageUp, BrowserOpens, AsksStatus,
     StatusAnswered, Sleeps, Throws, CleansUp, CleansAll, OpensOwn, LoggedIn,
     LoginThrows, Shares, TimeIsOver, Opening, Approves, CodeExpires, Tells, Shut

LEMMA PasswordsStep ==
  ASSUME start \in Places, PasswordsTyped, PasswordGiven, AttemptsLeft, [SignInNext]_signVars
  PROVE  (PasswordsTyped /\ PasswordGiven /\ AttemptsLeft)'
  <1> USE SignInAssumption DEF PasswordsTyped, PasswordGiven, AttemptsLeft
  <1>1. CASE Types
    <2>1. passwords.tried < PasswordAttempts
      BY <1>1 DEF Types
    <2>2. passwords' = [passwords EXCEPT !.tried = @ + 1] /\ token' = token
          /\ start' \in {"tries right", "tries wrong"}
      BY <1>1 DEF Types
    <2>3. passwords.tried + 1 \in 0 .. PasswordAttempts
      <3>1. passwords.tried \in 0 .. PasswordAttempts
        OBVIOUS
      <3> HIDE DEF PasswordsTyped, PasswordGiven, AttemptsLeft
      <3> QED
        BY <2>1, <3>1
    <2>4. PasswordsTyped' /\ PasswordGiven'
      BY <2>2, <2>3
    <2>5. AttemptsLeft'
      BY <2>2
    <2> QED
      BY <2>4, <2>5
  <1>2. CASE PasswordRight
    <2>1. passwords' = [passwords EXCEPT !.right = TRUE] /\ start' = "cleans up"
      BY <1>2 DEF PasswordRight
    <2> QED
      BY <2>1
  <1>3. CASE PasswordWrong
    <2>1. UNCHANGED << token, passwords >> /\ start' = "prompts" /\ passwords.tried < PasswordAttempts
      BY <1>3 DEF PasswordWrong
    <2> QED
      BY <2>1
  <1>4. CASE Exchanged
    <2>1. passwords.tried = 0
      BY <1>4 DEF Exchanged, Places
    <2>2. passwords' = passwords /\ start' \in {"prompts", "cleans up"}
      BY <1>4 DEF Exchanged
    <2>3. token' = token \/ ~passwords.needed
      BY <1>4 DEF Exchanged
    <2>4. PasswordsTyped' /\ PasswordGiven'
      BY <2>2, <2>3
    <2>5. AttemptsLeft'
      <3> HIDE DEF PasswordsTyped, PasswordGiven, AttemptsLeft
      <3>1. passwords'.tried = 0
        BY <2>1, <2>2
      <3>2. 0 < PasswordAttempts
        BY SignInAssumption
      <3> USE DEF AttemptsLeft
      <3> QED
        BY <2>2, <3>1, <3>2
    <2> QED
      BY <2>4, <2>5
  <1> QED
    BY <1>1, <1>2, <1>3, <1>4, PasswordsChange

LEMMA SignInInvStep ==
  ASSUME SignInInv, [SignInNext]_signVars
  PROVE  SignInInv'
  <1>1. start' \in Places /\ TokensTyped'
    BY StartTypedStep, TokensTypedStep DEF SignInInv
  <1>2. (HeldWhereUsed /\ TokenInHand /\ KeptAtTheEnd)'
    BY PlacesStep DEF SignInInv
  <1>3. (PasswordsTyped /\ PasswordGiven /\ AttemptsLeft)'
    BY PasswordsStep DEF SignInInv
  <1> QED
    BY <1>1, <1>2, <1>3 DEF SignInInv

LEMMA SignInInvHolds == SignInSpec => []SignInInv
  BY SignInInvInit, SignInInvStep, PTL DEF SignInSpec

\* Each variable of a login has its type, whoever ends it and when.
THEOREM SignInTypeCorrect == SignInSpec => []SignInTypeOK
  BY SignInInvHolds, SignInTypeParts, PTL

\* `max session start` leaves nothing behind however it ends, keeps a session only of the person who proved
\* who they are, and tells nobody of an error after it has kept one (session.ts:175, adopt.ts:18).
THEOREM LoginEndsClean == SignInSpec => []LoginLeavesNothing
  <1>1. SignInInv => LoginLeavesNothing
    <2> SUFFICES ASSUME SignInInv PROVE LoginLeavesNothing
      OBVIOUS
    <2>1. start \in {"ended", "stuck"} => page # "up" /\ {first, second} \cap {"opening", "open"} = {}
      BY DEF SignInInv, HeldWhereUsed, CodePlaces, PagePlaces, OwnPlaces
    <2>2. second \in {"opening", "open"} => first \in {"none", "closed"}
      BY DEF SignInInv, HeldWhereUsed, CodePlaces, PagePlaces, OwnPlaces, Connections
    <2>3. keyring = "new" => token = "pasted" \/ (phone = "approved" /\ (passwords.needed => passwords.right))
      BY DEF SignInInv, TokenInHand, KeptAtTheEnd, TokensTyped, PasswordGiven
    <2> QED
      BY <2>1, <2>2, <2>3 DEF LoginLeavesNothing, SignInInv, KeptAtTheEnd
  <1> QED
    BY <1>1, SignInInvHolds, PTL

----------------------------------------------------------------------------
\* BrowserLogin: the profile goes by the shutdown alone, which comes to its end once.
BrowserInv ==
  /\ command = "begins" => profile = "none" /\ closing = "no" /\ ~tracked /\ ~handled
  /\ closing = "removed" <=> profile \in {"removed", "in half"}
  /\ profile = "removed" => browser = "exited"
  /\ profile = "in half" => browser \in {"hangs", "exited"}
  /\ command \in {"ended", "gone"} /\ ~late => profile \in {"none", "removed", "in half"}

LEMMA BrowserInvInit == BrowserInit => BrowserInv
  BY DEF BrowserInit, BrowserInv

LEMMA BrowserInvStep ==
  ASSUME BrowserInv, [BrowserNext]_browserVars
  PROVE  BrowserInv'
  <1> USE DEF BrowserInv
  <1>1. ASSUME Starts PROVE BrowserInv'
    BY <1>1 DEF Starts
  <1>2. ASSUME Asks PROVE BrowserInv'
    BY <1>2 DEF Asks
  <1>3. ASSUME PollAnswered PROVE BrowserInv'
    BY <1>3 DEF PollAnswered
  <1>4. ASSUME PollLost PROVE BrowserInv'
    BY <1>4 DEF PollLost
  <1>5. ASSUME GivesUp PROVE BrowserInv'
    BY <1>5 DEF GivesUp
  <1>6. ASSUME Finally PROVE BrowserInv'
    BY <1>6 DEF Finally, CloseBrowser
  <1>7. ASSUME ShutdownAsked PROVE BrowserInv'
    BY <1>7 DEF ShutdownAsked
  <1>8. ASSUME ShutdownKills PROVE BrowserInv'
    BY <1>8 DEF ShutdownKills
  <1>9. ASSUME ShutdownRemoves PROVE BrowserInv'
    BY <1>9 DEF ShutdownRemoves, GraceOver
  <1>10. ASSUME ShutDown PROVE BrowserInv'
    BY <1>10 DEF ShutDown
  <1>11. ASSUME TimeIsUp PROVE BrowserInv'
    BY <1>11 DEF TimeIsUp, CloseBrowser
  <1>12. ASSUME Signal PROVE BrowserInv'
    BY <1>12 DEF Signal, CloseBrowser
  <1>13. ASSUME LogsIn PROVE BrowserInv'
    BY <1>13 DEF LogsIn
  <1>14. ASSUME Exits PROVE BrowserInv'
    BY <1>14 DEF Exits
  <1>15. CASE UNCHANGED browserVars
    BY <1>15 DEF browserVars
  <1> QED
    BY <1>1, <1>2, <1>3, <1>4, <1>5, <1>6, <1>7, <1>8, <1>9, <1>10, <1>11, <1>12, <1>13, <1>14, <1>15 DEF BrowserNext

\* The type of a login in a browser, in the three parts that are proved apart.
PlacesOfBrowser ==
  /\ command \in {"begins", "polls", "asks", "has ended", "closes", "ended", "gone"}
  /\ profile \in {"none", "made", "in half", "removed"}
  /\ browser \in {"none", "runs", "exits", "hangs", "exited"}
  /\ closing \in {"no", "asks the browser", "waits", "removed"}
  /\ deadline \in {"ahead", "closes", "fired", "none"}
FlagsOfBrowser ==
  /\ loggedIn \in BOOLEAN /\ handled \in BOOLEAN /\ signalled \in BOOLEAN /\ tracked \in BOOLEAN /\ late \in BOOLEAN
CountsOfBrowser == pipe \subseteq {"poll"} /\ polls \in 0 .. MaxPolls /\ signals \in 0 .. MaxSignals

\* Each variable of a login in a browser has its type, whoever ends the command and when.
THEOREM BrowserTypeCorrect == BrowserSpec => []BrowserTypeOK
  <1>1. BrowserInit => PlacesOfBrowser /\ FlagsOfBrowser /\ CountsOfBrowser
    <2>1. BrowserInit => PlacesOfBrowser
      BY DEF BrowserInit, PlacesOfBrowser
    <2>2. BrowserInit => FlagsOfBrowser
      BY DEF BrowserInit, FlagsOfBrowser
    <2>3. BrowserInit => CountsOfBrowser
      BY BrowserAssumption DEF BrowserInit, CountsOfBrowser
    <2> QED
      BY <2>1, <2>2, <2>3
  <1>2. ASSUME PlacesOfBrowser, [BrowserNext]_browserVars PROVE PlacesOfBrowser'
    BY <1>2 DEF PlacesOfBrowser, browserVars, BrowserNext, Starts, Asks, PollAnswered, PollLost, GivesUp, Finally, CloseBrowser, ShutdownAsked, ShutdownKills, ShutdownRemoves, GraceOver,
     ShutDown, TimeIsUp, Signal, LogsIn, Exits, Alive
  <1>3. ASSUME FlagsOfBrowser, [BrowserNext]_browserVars PROVE FlagsOfBrowser'
    BY <1>3 DEF FlagsOfBrowser, browserVars, BrowserNext, Starts, Asks, PollAnswered, PollLost, GivesUp, Finally, CloseBrowser, ShutdownAsked, ShutdownKills, ShutdownRemoves, GraceOver,
     ShutDown, TimeIsUp, Signal, LogsIn, Exits, Alive
  <1>4. ASSUME CountsOfBrowser, [BrowserNext]_browserVars PROVE CountsOfBrowser'
    <2>1. pipe' \subseteq {"poll"}
      BY <1>4 DEF CountsOfBrowser, browserVars, BrowserNext, Starts, Asks, PollAnswered, PollLost, GivesUp, Finally, CloseBrowser, ShutdownAsked, ShutdownKills, ShutdownRemoves,
        GraceOver, ShutDown, TimeIsUp, Signal, LogsIn, Exits, Alive
    <2>2. UNCHANGED << polls, signals >> \/ Asks \/ Signal
      BY <1>4 DEF browserVars, BrowserNext, Starts, PollAnswered, PollLost, GivesUp, Finally, CloseBrowser, ShutdownAsked, ShutdownKills, ShutdownRemoves,
        GraceOver, ShutDown, TimeIsUp, LogsIn, Exits, Alive
    <2>3. ASSUME Asks PROVE polls' \in 0 .. MaxPolls /\ signals' = signals
      BY <1>4, <2>3, BrowserAssumption DEF CountsOfBrowser, Asks
    <2>4. ASSUME Signal PROVE signals' \in 0 .. MaxSignals /\ polls' = polls
      BY <1>4, <2>4, BrowserAssumption DEF CountsOfBrowser, Signal
    <2> QED
      BY <1>4, <2>1, <2>2, <2>3, <2>4 DEF CountsOfBrowser
  <1>5. PlacesOfBrowser /\ FlagsOfBrowser /\ CountsOfBrowser => BrowserTypeOK
    BY DEF PlacesOfBrowser, FlagsOfBrowser, CountsOfBrowser, BrowserTypeOK
  <1> QED
    BY <1>1, <1>2, <1>3, <1>4, <1>5, PTL DEF BrowserSpec

\* The profile with the live session goes on every way out of a login in a browser, but one: a signal that
\* comes once its handlers were taken away (browser.ts:149, 186).
THEOREM ProfileGoes == BrowserSpec => []ProfileGone
  <1>1. BrowserInv => ProfileGone
    BY DEF BrowserInv, ProfileGone
  <1> QED
    BY <1>1, BrowserInvInit, BrowserInvStep, PTL DEF BrowserSpec

----------------------------------------------------------------------------
\* ServerStart.
Born == { s \in Servers : phase[s] # "none" }

\* Locks and lists name servers that were started.
NamedAreBorn ==
  /\ lock \in Born \cup {NoServer}
  /\ hand \subseteq Born

\* A server that is deaf is never on its way out.
DeafGoOn == \A s \in deaf : phase[s] \in {"started", "probed", "logs in", "marks", "up"}

\* One server starts at a time, under the lock unless it was typed.
OneStarts ==
  \A s \in Servers : Starting(s) =>
    /\ \A t \in Servers : Starting(t) => s = t
    /\ s \notin hand => lock = s

\* Where a server listens nobody is about to take its socket away, or to bind it too.
ListenerIsSafe ==
  \A s \in Servers : Listening(s) =>
    /\ socket = s
    /\ \A t \in Servers : phase[t] \notin {"probed", "stops", "drops", "fails"}

StartInv == NamedAreBorn /\ (~raced => OneStarts /\ ListenerIsSafe)

\* A set of natural numbers that is not empty has a least one.
LEMMA LeastOf ==
  ASSUME NEW S, S \subseteq Nat, S # {}
  PROVE  \E n \in S : \A m \in S : n <= m
  <1>1. IsWellFoundedOn(OpToRel(<, Nat), Nat)
    BY NatLessThanWellFounded
  <1>2. PICK n \in S : \A m \in S : << m, n >> \notin OpToRel(<, Nat)
    BY <1>1, WFMin
  <1>3. \A m \in S : ~(m < n)
    BY <1>2 DEF OpToRel
  <1> QED
    BY <1>3

LEMMA NextServerIsUnborn == Unborn # {} => NextServer \in Servers /\ phase[NextServer] = "none"
  <1>1. Unborn \subseteq Nat
    BY StartAssumption DEF Unborn, Servers
  <1> QED
    BY <1>1, LeastOf DEF NextServer, Unborn

LEMMA StartInvInit == StartInit => StartInv
  BY DEF StartInit, StartInv, NamedAreBorn, OneStarts, ListenerIsSafe, Born, Starting, Listening

LEMMA StartTypeStep ==
  ASSUME StartTypeOK, [StartNext]_startVars
  PROVE  StartTypeOK'
  <1> USE DEF StartTypeOK, Call, Phase
  <1>1. ASSUME NEW c \in Callers, Ensure(c) PROVE StartTypeOK'
    BY <1>1 DEF Ensure
  <1>2. ASSUME NEW c \in Callers, Replace(c) PROVE StartTypeOK'
    BY <1>2 DEF Replace, Answers, Listening, AfterStop
  <1>3. ASSUME NEW c \in Callers, StartInBackground(c) PROVE StartTypeOK'
    <2>1. CASE ~mark /\ LockIsFree
      BY <1>3, <2>1, NextServerIsUnborn DEF StartInBackground, Spawn
    <2>2. CASE mark \/ ~LockIsFree
      BY <1>3, <2>2 DEF StartInBackground
    <2> QED
      BY <2>1, <2>2
  <1>4. ASSUME NEW c \in Callers, StealStart(c) PROVE StartTypeOK'
    BY <1>4, NextServerIsUnborn DEF StealStart, Spawn
  <1>5. ASSUME NEW s \in Servers, LoginEnds(s) PROVE StartTypeOK'
    BY <1>5 DEF LoginEnds
  <1>6. ASSUME NEW s \in Servers, Probe(s) PROVE StartTypeOK'
    BY <1>6 DEF Probe, Answers, Listening, AfterStop
  <1>7. ASSUME NEW s \in Servers, Bind(s) PROVE StartTypeOK'
    BY <1>7 DEF Bind
  <1>8. ASSUME NEW s \in Servers, LogsInDone(s) PROVE StartTypeOK'
    BY <1>8 DEF LogsInDone
  <1>9. ASSUME NEW s \in Servers, Refused(s) PROVE StartTypeOK'
    BY <1>9 DEF Refused
  <1>10. ASSUME NEW s \in Servers, RefusedEnds(s) PROVE StartTypeOK'
    BY <1>10 DEF RefusedEnds
  <1>11. ASSUME NEW s \in Servers, Marks(s) PROVE StartTypeOK'
    BY <1>11 DEF Marks
  <1>12. ASSUME NEW s \in Servers, Stop(s) PROVE StartTypeOK'
    BY <1>12 DEF Stop, AfterStop
  <1>13. ASSUME NEW s \in Servers, StopEnds(s) PROVE StartTypeOK'
    BY <1>13 DEF StopEnds
  <1>14. ASSUME NEW s \in Servers, Crashes(s) PROVE StartTypeOK'
    BY <1>14 DEF Crashes
  <1>15. ASSUME ServeByHand PROVE StartTypeOK'
    BY <1>15, NextServerIsUnborn DEF ServeByHand
  <1>16. ASSUME MarkGoes PROVE StartTypeOK'
    BY <1>16 DEF MarkGoes
  <1>17. CASE UNCHANGED startVars
    BY <1>17 DEF startVars
  <1> QED
    BY <1>1, <1>2, <1>3, <1>4, <1>5, <1>6, <1>7, <1>8, <1>9, <1>10, <1>11, <1>12, <1>13, <1>14, <1>15, <1>16, <1>17 DEF StartNext

\* A server that is started while none is starting keeps the invariant, under the lock or typed.
LEMMA StartsAlone ==
  ASSUME StartTypeOK, StartInv, Unborn # {},
         phase' = [phase EXCEPT ![NextServer] = "started"],
         lock' \in {lock, NextServer}, hand' \in {hand, hand \cup {NextServer}},
         NextServer \notin hand' => lock' = NextServer,
         socket' = socket, deaf' = deaf,
         ~raced' => ~raced /\ \A s \in Servers : ~Starting(s)
  PROVE  StartInv'
  <1> DEFINE n == NextServer
  <1>1. n \in Servers /\ phase[n] = "none" /\ NoServer \notin Servers
    BY NextServerIsUnborn DEF NoServer, Servers
  <1> HIDE DEF n
  <1>2. Born' = Born \cup {n} /\ n \notin Born
    BY <1>1 DEF Born, StartTypeOK, n
  <1>4. NamedAreBorn'
    BY <1>2 DEF StartInv, NamedAreBorn, n
  <1>5. \A s \in Servers : phase'[s] = IF s = n THEN "started" ELSE phase[s]
    BY <1>1 DEF StartTypeOK, n
  <1>6. ASSUME ~raced' PROVE OneStarts'
    <2>1. \A s \in Servers : Starting(s)' => s = n
      BY <1>5, <1>6 DEF Starting
    <2>2. n \notin hand' => lock' = n
      BY DEF n
    <2> QED
      BY <2>1, <2>2 DEF OneStarts
  <1>7. ASSUME ~raced' PROVE ListenerIsSafe'
    <2>1. ListenerIsSafe
      BY <1>7 DEF StartInv
    <2>2. \A s \in Servers : Listening(s)' => Listening(s)
      <3> TAKE s \in Servers
      <3> USE DEF Listening
      <3>1. CASE s = n
        <4>1. phase'[s] = "started"
          BY <1>5, <3>1
        <4>2. "started" \notin {"logs in", "up", "marks"}
          OBVIOUS
        <4> QED
          BY <4>1, <4>2
      <3>2. CASE s # n
        BY <1>5, <3>2
      <3> QED
        BY <3>1, <3>2
    <2>3. \A t \in Servers : phase'[t] \in {"probed", "stops", "drops", "fails"} =>
                             phase[t] \in {"probed", "stops", "drops", "fails"}
      BY <1>5
    <2> HIDE DEF Listening
    <2> QED
      BY <2>1, <2>2, <2>3 DEF ListenerIsSafe
  <1> QED
    BY <1>4, <1>6, <1>7 DEF StartInv

\* A server that listens is told to stop, and does, or is deaf.
LEMMA ListenerStops ==
  ASSUME StartTypeOK, StartInv, NEW s \in Servers, Listening(s),
         phase' = [phase EXCEPT ![s] = AfterStop(s)],
         UNCHANGED << socket, lock, hand, deaf, raced >>
  PROVE  StartInv'
  <1>1. CASE s \in deaf
    <2>1. phase' = phase
      BY <1>1 DEF AfterStop, StartTypeOK
    <2> QED
      BY <2>1 DEF StartInv, NamedAreBorn, OneStarts, ListenerIsSafe, Born, Starting, Listening
  <1>2. CASE s \notin deaf
    <2>1. \A t \in Servers : phase'[t] = IF t = s THEN AfterStop(s) ELSE phase[t]
      BY DEF StartTypeOK
    <2>2. AfterStop(s) \in {"drops", "stops"} /\ (AfterStop(s) = "drops" => Starting(s))
      BY <1>2 DEF AfterStop, Starting
    <2>3. Born' = Born
      BY <2>1, <2>2 DEF Born, Listening
    <2>4. \A t \in Servers : Starting(t)' => Starting(t)
      BY <2>1, <2>2 DEF Starting
    <2>5. ASSUME ~raced' PROVE OneStarts'
      BY <2>4, <2>5 DEF StartInv, OneStarts
    <2>6. ASSUME ~raced' PROVE ListenerIsSafe'
      <3>1. \A t \in Servers : ~ Listening(t)'
        BY <1>2, <2>1, <2>2, <2>6 DEF StartInv, ListenerIsSafe, Listening
      <3> QED
        BY <3>1 DEF ListenerIsSafe
    <2> QED
      BY <2>3, <2>5, <2>6 DEF StartInv, NamedAreBorn
  <1> QED
    BY <1>1, <1>2

LEMMA DeafStep ==
  ASSUME StartTypeOK, DeafGoOn, [StartNext]_startVars
  PROVE  DeafGoOn'
  <1>1. Unborn # {} => NextServer \notin deaf
    BY NextServerIsUnborn DEF DeafGoOn
  <1> USE DEF StartTypeOK, DeafGoOn, Call, Phase
  <1>2. ASSUME NEW c \in Callers, Ensure(c) PROVE DeafGoOn'
    BY <1>2 DEF Ensure
  <1>3. ASSUME NEW c \in Callers, Replace(c) PROVE DeafGoOn'
    BY <1>3 DEF Replace, Answers, AfterStop
  <1>4. ASSUME NEW c \in Callers, StartInBackground(c) PROVE DeafGoOn'
    BY <1>1, <1>4 DEF StartInBackground, Spawn
  <1>5. ASSUME NEW c \in Callers, StealStart(c) PROVE DeafGoOn'
    BY <1>1, <1>5 DEF StealStart, Spawn
  <1>6. ASSUME NEW s \in Servers, Probe(s) PROVE DeafGoOn'
    BY <1>6 DEF Probe, AfterStop
  <1>7. ASSUME NEW s \in Servers, Bind(s) PROVE DeafGoOn'
    BY <1>7 DEF Bind
  <1>8. ASSUME NEW s \in Servers, LogsInDone(s) PROVE DeafGoOn'
    BY <1>8 DEF LogsInDone
  <1>9. ASSUME NEW s \in Servers, Refused(s) PROVE DeafGoOn'
    BY <1>9 DEF Refused
  <1>10. ASSUME NEW s \in Servers, RefusedEnds(s) PROVE DeafGoOn'
    BY <1>10 DEF RefusedEnds
  <1>11. ASSUME NEW s \in Servers, Marks(s) PROVE DeafGoOn'
    BY <1>11 DEF Marks
  <1>12. ASSUME NEW s \in Servers, Stop(s) PROVE DeafGoOn'
    BY <1>12 DEF Stop, AfterStop
  <1>13. ASSUME NEW s \in Servers, StopEnds(s) \/ LoginEnds(s) PROVE DeafGoOn'
    BY <1>13 DEF StopEnds, LoginEnds
  <1>14. ASSUME NEW s \in Servers, Crashes(s) PROVE DeafGoOn'
    BY <1>14 DEF Crashes
  <1>15. CASE ServeByHand
    BY <1>1, <1>15 DEF ServeByHand
  <1>16. CASE MarkGoes \/ UNCHANGED startVars
    BY <1>16 DEF MarkGoes, startVars
  <1> QED
    BY <1>2, <1>3, <1>4, <1>5, <1>6, <1>7, <1>8, <1>9, <1>10, <1>11, <1>12, <1>13, <1>14, <1>15, <1>16 DEF StartNext

LEMMA StartInvStep ==
  ASSUME StartTypeOK, DeafGoOn, StartInv, [StartNext]_startVars
  PROVE  StartInv'
  <1>0. NoServer \notin Servers
    BY DEF NoServer, Servers
  <1> USE <1>0 DEF StartTypeOK, StartInv, NamedAreBorn, OneStarts, ListenerIsSafe, Born, Starting, Listening, Call, Phase
  <1>1. ASSUME NEW c \in Callers, Ensure(c) PROVE StartInv'
    BY <1>1 DEF Ensure, Answers
  <1>2. ASSUME NEW c \in Callers, Replace(c) PROVE StartInv'
    <2>1. CASE Answers /\ phase' = [phase EXCEPT ![socket] = AfterStop(socket)]
      <3>1. socket \in Servers /\ Listening(socket) /\ UNCHANGED << socket, lock, hand, deaf, raced >>
        BY <1>2, <2>1 DEF Replace, Answers
      <3> HIDE DEF Listening, Starting, Born
      <3> QED
        BY <2>1, <3>1, ListenerStops
    <2>2. CASE UNCHANGED phase
      BY <1>2, <2>2 DEF Replace
    <2> QED
      BY <1>2, <2>1, <2>2 DEF Replace
  <1>3. ASSUME NEW c \in Callers, StartInBackground(c) PROVE StartInv'
    <2>1. CASE mark \/ ~LockIsFree
      <3>1. UNCHANGED << socket, lock, phase, hand, deaf, raced >>
        BY <1>3, <2>1 DEF StartInBackground
      <3> QED
        BY <3>1
    <2>2. CASE ~mark /\ LockIsFree
      <3>1. /\ Unborn # {} /\ lock = NoServer /\ UNCHANGED << socket, deaf >>
            /\ phase' = [phase EXCEPT ![NextServer] = "started"] /\ lock' = NextServer
            /\ hand' \in {hand, hand \cup {NextServer}}
            /\ raced' = (raced \/ Overlaps)
        BY <1>3, <2>2 DEF StartInBackground, Spawn, LockIsFree
      <3>2. ~raced' => ~raced /\ \A s \in Servers : ~Starting(s)
        BY <3>1 DEF Overlaps
      <3> HIDE DEF StartInv, StartTypeOK
      <3> QED
        BY <3>1, <3>2, StartsAlone
    <2> QED
      BY <2>1, <2>2
  <1>4. ASSUME NEW c \in Callers, StealStart(c) PROVE StartInv'
    <2>1. ~raced' => ~raced /\ \A s \in Servers : ~Starting(s)
      BY <1>4 DEF StealStart, Overlaps
    <2>2. /\ Unborn # {} /\ UNCHANGED << socket, deaf >>
          /\ phase' = [phase EXCEPT ![NextServer] = "started"] /\ lock' = NextServer
          /\ hand' \in {hand, hand \cup {NextServer}}
      BY <1>4 DEF StealStart, Spawn
    <2> HIDE DEF StartInv, StartTypeOK
    <2> QED
      BY <2>1, <2>2, StartsAlone
  <1>5. ASSUME NEW s \in Servers, LoginEnds(s) PROVE StartInv'
    <2>1. Born' = Born
      BY <1>5 DEF LoginEnds
    <2>2. NamedAreBorn'
      BY <1>5, <2>1 DEF LoginEnds
    <2>3. ASSUME ~raced' PROVE OneStarts'
      BY <1>5, <2>3 DEF LoginEnds
    <2>4. ASSUME ~raced' PROVE ListenerIsSafe'
      BY <1>5, <2>4 DEF LoginEnds
    <2> QED
      BY <2>2, <2>3, <2>4
  <1>6. ASSUME NEW s \in Servers, Probe(s) PROVE StartInv'
    <2>0. phase[s] = "started" /\ UNCHANGED << socket, hand >>
      BY <1>6 DEF Probe
    <2>1. CASE Answers /\ phase' = [phase EXCEPT ![s] = "probed", ![socket] = AfterStop(socket)]
      <3>1. socket \in Servers /\ Listening(socket) /\ socket # s
        BY <2>0, <2>1 DEF Answers
      <3>2. \A t \in Servers : phase'[t] = IF t = socket THEN AfterStop(socket)
                                             ELSE IF t = s THEN "probed" ELSE phase[t]
        BY <2>1, <3>1
      <3>3. lock' = lock /\ deaf' = deaf /\ raced' = (raced \/ socket \in deaf)
        BY <1>6, <2>0, <2>1, <3>1, <3>2 DEF Probe
      <3>4. Born' = Born
        BY <2>0, <3>1, <3>2 DEF AfterStop
      <3>5. NamedAreBorn'
        BY <2>0, <3>3, <3>4
      <3>6. ASSUME ~raced' PROVE \A t \in Servers : Starting(t)' => Starting(t)
        BY <2>0, <3>1, <3>2 DEF AfterStop
      <3>7. ASSUME ~raced' PROVE OneStarts'
        <4>1. OneStarts
          BY <3>3, <3>7
        <4> HIDE DEF Starting
        <4> QED
          BY <2>0, <3>3, <3>6, <3>7, <4>1
      <3>8. ASSUME ~raced' PROVE ListenerIsSafe'
        <4>1. ListenerIsSafe /\ socket \notin deaf
          BY <3>3, <3>8
        <4>2. \A t \in Servers : ~ Listening(t)'
          BY <2>0, <3>1, <3>2, <3>3, <4>1 DEF AfterStop
        <4> QED
          BY <4>2
      <3> QED
        BY <3>5, <3>7, <3>8
    <2>2. CASE ~Answers /\ phase' = [phase EXCEPT ![s] = "probed"]
      <3>1. lock' = lock /\ deaf' = deaf /\ raced' = raced
        BY <1>6, <2>2 DEF Probe
      <3>2. NamedAreBorn'
        BY <2>0, <2>2, <3>1
      <3>3. \A t \in Servers : Starting(t)' => Starting(t)
        BY <2>0, <2>2
      <3>4. ASSUME ~raced' PROVE OneStarts'
        <4>1. OneStarts
          BY <3>1, <3>4
        <4> HIDE DEF Starting
        <4> QED
          BY <2>0, <3>1, <3>3, <4>1
      <3>5. ASSUME ~raced' PROVE ListenerIsSafe'
        BY <2>0, <2>2, <3>1, <3>5 DEF Answers
      <3> QED
        BY <3>2, <3>4, <3>5
    <2>3. CASE phase' = [phase EXCEPT ![s] = "gone"] /\ lock' = NoServer /\ deaf' = deaf \ {s} /\ raced' = raced
      <3>1. NamedAreBorn'
        BY <2>0, <2>3
      <3>2. ASSUME ~raced' PROVE OneStarts'
        BY <2>0, <2>3, <3>2
      <3>3. ASSUME ~raced' PROVE ListenerIsSafe'
        BY <2>0, <2>3, <3>3
      <3> QED
        BY <3>1, <3>2, <3>3
    <2> QED
      BY <1>6, <2>1, <2>2, <2>3 DEF Probe
  <1>7. ASSUME NEW s \in Servers, Bind(s) PROVE StartInv'
    BY <1>7 DEF Bind
  <1>8. ASSUME NEW s \in Servers, LogsInDone(s) PROVE StartInv'
    BY <1>8 DEF LogsInDone
  <1>9. ASSUME NEW s \in Servers, Refused(s) PROVE StartInv'
    <2>1. Born' = Born
      BY <1>9 DEF Refused
    <2>2. NamedAreBorn'
      BY <1>9, <2>1 DEF Refused
    <2>3. ASSUME ~raced' PROVE OneStarts'
      BY <1>9, <2>3 DEF Refused
    <2>4. ASSUME ~raced' PROVE ListenerIsSafe'
      BY <1>9, <2>4 DEF Refused
    <2> QED
      BY <2>2, <2>3, <2>4
  <1>10. ASSUME NEW s \in Servers, RefusedEnds(s) PROVE StartInv'
    <2>1. Born' = Born
      BY <1>10 DEF RefusedEnds
    <2>2. NamedAreBorn'
      BY <1>10, <2>1 DEF RefusedEnds
    <2>3. ASSUME ~raced' PROVE OneStarts'
      BY <1>10, <2>3 DEF RefusedEnds
    <2>4. ASSUME ~raced' PROVE ListenerIsSafe'
      BY <1>10, <2>4 DEF RefusedEnds, DeafGoOn
    <2> QED
      BY <2>2, <2>3, <2>4
  <1>11. ASSUME NEW s \in Servers, Marks(s) PROVE StartInv'
    BY <1>11 DEF Marks
  <1>12. ASSUME NEW s \in Servers, Stop(s) PROVE StartInv'
    <2>1. CASE Listening(s) /\ phase' = [phase EXCEPT ![s] = AfterStop(s)] /\ deaf' = deaf
      <3>1. UNCHANGED << socket, lock, hand, raced >>
        BY <1>12 DEF Stop
      <3> HIDE DEF Listening, Starting, Born
      <3> QED
        BY <2>1, <3>1, ListenerStops
    <2>2. CASE phase[s] \in {"started", "probed"} /\ deaf' = deaf \cup {s} /\ phase' = phase
      BY <1>12, <2>2 DEF Stop
    <2> QED
      BY <1>12, <2>1, <2>2 DEF Stop
  <1>13. ASSUME NEW s \in Servers, StopEnds(s) PROVE StartInv'
    <2>1. Born' = Born
      BY <1>13 DEF StopEnds
    <2>2. NamedAreBorn'
      BY <1>13, <2>1 DEF StopEnds
    <2>3. ASSUME ~raced' PROVE OneStarts'
      <3>1. OneStarts /\ UNCHANGED << lock, hand >>
        BY <1>13, <2>3 DEF StopEnds
      <3>2. \A t \in Servers : Starting(t)' => Starting(t)
        <4>1. CASE phase[s] = "stops" /\ phase' = [phase EXCEPT ![s] = "gone"]
          BY <4>1
        <4>2. CASE phase[s] = "drops" /\ phase' = [phase EXCEPT ![s] = "leaves"]
          BY <4>2
        <4> QED
          BY <1>13, <4>1, <4>2 DEF StopEnds
      <3> HIDE DEF Starting
      <3> QED
        BY <3>1, <3>2
    <2>4. ASSUME ~raced' PROVE ListenerIsSafe'
      BY <1>13, <2>4 DEF StopEnds
    <2> QED
      BY <2>2, <2>3, <2>4
  <1>14. ASSUME NEW s \in Servers, Crashes(s) PROVE StartInv'
    BY <1>14 DEF Crashes
  <1>15. ASSUME ServeByHand PROVE StartInv'
    <2>1. ~raced' => ~raced /\ \A s \in Servers : ~Starting(s)
      BY <1>15 DEF ServeByHand
    <2>2. /\ Unborn # {} /\ UNCHANGED << socket, lock, deaf >>
          /\ phase' = [phase EXCEPT ![NextServer] = "started"] /\ hand' = hand \cup {NextServer}
      BY <1>15 DEF ServeByHand
    <2> HIDE DEF StartInv, StartTypeOK
    <2> QED
      BY <2>1, <2>2, StartsAlone
  <1>16. ASSUME MarkGoes PROVE StartInv'
    BY <1>16 DEF MarkGoes
  <1>17. CASE UNCHANGED startVars
    BY <1>17 DEF startVars
  <1> QED
    BY <1>1, <1>2, <1>3, <1>4, <1>5, <1>6, <1>7, <1>8, <1>9, <1>10, <1>11, <1>12, <1>13, <1>14, <1>15, <1>16, <1>17 DEF StartNext

\* Each variable of the start of a server has its type.
THEOREM StartTypeCorrect == StartSpec => []StartTypeOK
  <1>1. StartInit => StartTypeOK
    BY StartAssumption DEF StartInit, StartTypeOK, Servers, NoServer
  <1> QED
    BY <1>1, StartTypeStep, PTL DEF StartSpec

\* For any number of commands and servers, a profile has one server that listens and its socket leads to it,
\* over crashes, refusals, replacements, signals and the lock of a crashed start removed by one command
\* (server.ts:138, 557) - except where the code runs two: a start outlasted the grace of its lock, two
\* commands both removed that lock, a stop outlasted the next start, `max serve` was typed while
\* another server started, or one by hand replaced a server that a signal had made deaf.
THEOREM OneServerListens == StartSpec => []OneServer
  <1>1. StartInit => StartTypeOK /\ DeafGoOn /\ StartInv
    BY StartInvInit, StartAssumption DEF StartInit, StartTypeOK, DeafGoOn, Servers, NoServer
  <1>2. StartTypeOK /\ DeafGoOn /\ StartInv /\ [StartNext]_startVars => (StartTypeOK /\ DeafGoOn /\ StartInv)'
    BY StartTypeStep, DeafStep, StartInvStep
  <1>3. StartInv => OneServer
    BY DEF StartInv, ListenerIsSafe, OneServer
  <1> QED
    BY <1>1, <1>2, <1>3, PTL DEF StartSpec

----------------------------------------------------------------------------
\* ProfileSession.
Errands ==
  [ kind : {"none", "command", "start", "by hand", "background"}, sent : Tokens \cup {NoToken}, env : BOOLEAN,
    read : [viewer : Accounts \cup {NobodyYet}, paused : BOOLEAN], before : Tokens \cup {NoToken},
    own : BOOLEAN, login : Accounts \cup {NobodyYet} ]

SessionTyped ==
  /\ kept \in (Tokens \ {DeadToken}) \cup {NoToken}
  /\ state \in [viewer : Accounts \cup {NobodyYet}, paused : BOOLEAN]
  /\ at \in [All -> {"away", "opens", "answered", "adopts", "up", "forgets"}]
  /\ errand \in [All -> Errands]
  /\ proven \subseteq Tokens

\* What the logins under way carry: a token that MAX has taken, once it answered.
Carried ==
  \A p \in All :
    /\ at[p] \in {"opens", "answered", "adopts"} =>
         errand[p].sent \in Tokens /\ (errand[p].kind = "start" => errand[p].own)
    /\ at[p] \in {"answered", "adopts"} /\ errand[p].own =>
         errand[p].sent \in proven /\ errand[p].sent.of = errand[p].login
    /\ at[p] = "adopts" => errand[p].kind = "start"
    /\ at[p] \in {"answered", "adopts", "up"} => errand[p].login \in Accounts

KeptIsProven == kept # NoToken => kept \in proven

\* Who logs in has read the account the profile has; where it has none yet, one logs in at a time.
LoggingIn(p) == at[p] \in {"opens", "answered"}

OneAccount ==
  /\ kept # NoToken => kept.of = state.viewer
  /\ \A p \in All : LoggingIn(p) => errand[p].read.viewer = state.viewer
  /\ state.viewer = NobodyYet => \A p, q \in All : LoggingIn(p) /\ LoggingIn(q) => p = q
  /\ \A p \in All : at[p] = "adopts" => errand[p].login = state.viewer
  /\ \A p \in Workers : at[p] = "up" => errand[p].login = state.viewer

SessionInv == SessionTyped /\ Carried /\ KeptIsProven /\ (~crossed => OneAccount)

LEMMA GoesMeans ==
  ASSUME SessionTyped, NEW p \in All, NEW place, NEW what, Goes(p, place, what)
  PROVE  /\ at'[p] = place /\ errand'[p] = what
         /\ \A q \in All : q # p => at'[q] = at[q] /\ errand'[q] = errand[q]
  BY DEF SessionTyped, Goes

LEMMA NamesOfSession ==
  /\ Server \in All /\ Workers \subseteq All
  /\ NoToken \notin Tokens /\ DeadToken \in Tokens
  /\ NobodyYet \notin Accounts
  /\ \A key \in Tokens : key = DeadToken \/ key \in [of : Accounts, aged : BOOLEAN]
  /\ \A key \in Tokens : key # DeadToken => key.of \in Accounts
  <1>1. Server \in All /\ Workers \subseteq All /\ NobodyYet \notin Accounts
    BY SessionAssumption DEF All
  <1>2. NoToken.aged = FALSE /\ DeadToken.aged = TRUE /\ NoToken.of = NobodyYet
    BY DEF NoToken, DeadToken
  <1>3. NoToken \notin [of : Accounts, aged : BOOLEAN]
    BY <1>1, <1>2
  <1>4. NoToken \notin Tokens /\ DeadToken \in Tokens
    BY <1>2, <1>3 DEF Tokens
  <1> QED
    BY <1>1, <1>4 DEF Tokens

LEMMA AwayIsErrand == Away \in Errands
  BY DEF Away, Errands

LEMMA SessionInvInit == SessionInit => SessionInv
  <1> SUFFICES ASSUME SessionInit PROVE SessionInv
    OBVIOUS
  <1>1. \A key \in Tokens \ {DeadToken} : key # NoToken /\ key.of \in Accounts
    BY NamesOfSession
  <1>2. \/ kept = NoToken /\ proven = {} /\ state = [viewer |-> NobodyYet, paused |-> FALSE]
        \/ \E key \in Tokens \ {DeadToken} :
             kept = key /\ proven = {key} /\ state = [viewer |-> key.of, paused |-> FALSE]
    BY DEF SessionInit
  <1> DEFINE KeptBegins ==
        /\ kept \in (Tokens \ {DeadToken}) \cup {NoToken} /\ proven \subseteq Tokens
        /\ state \in [viewer : Accounts \cup {NobodyYet}, paused : BOOLEAN]
        /\ kept # NoToken => kept \in proven /\ kept.of = state.viewer /\ kept.of \in Accounts
  <1>3. KeptBegins
    <2>1. CASE kept = NoToken /\ proven = {} /\ state = [viewer |-> NobodyYet, paused |-> FALSE]
      BY <2>1
    <2>2. ASSUME NEW key \in Tokens \ {DeadToken},
                 kept = key /\ proven = {key} /\ state = [viewer |-> key.of, paused |-> FALSE]
          PROVE  KeptBegins
      BY <1>1, <2>2
    <2> QED
      BY <1>2, <2>1, <2>2
  <1>4. CASE at = [q \in All |-> "away"] /\ errand = [q \in All |-> Away]
    BY <1>3, <1>4, AwayIsErrand, NamesOfSession
    DEF SessionInv, SessionTyped, Carried, KeptIsProven, OneAccount, LoggingIn
  <1>5. CASE /\ kept # NoToken
             /\ at = [q \in All |-> IF q = Server THEN "up" ELSE "away"]
             /\ errand = [q \in All |-> IF q = Server THEN [Away EXCEPT !.kind = "by hand", !.login = kept.of] ELSE Away]
    <2> DEFINE up == [Away EXCEPT !.kind = "by hand", !.login = kept.of]
    <2>1. up \in Errands /\ up.login = kept.of
      BY <1>3, <1>5 DEF Away, Errands
    <2> HIDE DEF up
    <2>2. errand \in [All -> Errands] /\ errand[Server].login = kept.of
      BY <1>5, <2>1, AwayIsErrand, NamesOfSession DEF up
    <2>3. \A q \in Workers : q # Server
      BY SessionAssumption
    <2> QED
      BY <1>3, <1>5, <2>2, <2>3, NamesOfSession
      DEF SessionInv, SessionTyped, Carried, KeptIsProven, OneAccount, LoggingIn
  <1> QED
    BY <1>4, <1>5 DEF SessionInit

\* A process that begins to log in.
LEMMA BeginsInv ==
  ASSUME SessionInv, NEW p \in All, NEW kind \in {"none", "command", "start", "by hand", "background"},
         NEW key \in Tokens \cup {NoToken}, NEW env \in BOOLEAN, NEW own \in BOOLEAN,
         Begins(p, kind, key, env, own), kind = "start" => own,
         UNCHANGED << kept, state, proven >>
  PROVE  SessionInv'
  <1>1. SessionTyped /\ Carried /\ KeptIsProven
    BY DEF SessionInv
  <1> DEFINE Begun ==
         /\ at' = [at EXCEPT ![p] = "opens"]
         /\ errand' \in [All -> Errands]
         /\ errand'[p].kind = kind /\ errand'[p].sent = key /\ errand'[p].own = own
         /\ errand'[p].read = state /\ errand'[p].env = env
         /\ \A q \in All : q # p => errand'[q] = errand[q]
         /\ key # NoToken
         /\ ~crossed' => ~crossed /\ (state.viewer = NobodyYet => Alone)
  <1>2. Begun
    <2> DEFINE what ==
           [Away EXCEPT !.kind = kind, !.sent = key, !.env = env, !.read = state, !.before = kept, !.own = own]
    <2>1. what \in Errands
      BY <1>1 DEF Away, Errands, SessionTyped
    <2>2. what.kind = kind /\ what.sent = key /\ what.own = own /\ what.read = state /\ what.env = env
      BY DEF Away
    <2>3. at' = [at EXCEPT ![p] = "opens"] /\ errand' = [errand EXCEPT ![p] = what] /\ key # NoToken
      BY DEF Begins, Goes
    <2>4. crossed' = (crossed \/ (state.viewer = NobodyYet /\ ~Alone))
      BY DEF Begins
    <2> HIDE DEF what
    <2> QED
      BY <1>1, <2>1, <2>2, <2>3, <2>4 DEF SessionTyped
  <1>3. SessionTyped'
    BY <1>1, <1>2 DEF SessionTyped
  <1>4. Carried'
    BY <1>1, <1>2 DEF Carried, SessionTyped
  <1>5. KeptIsProven'
    BY <1>1 DEF KeptIsProven
  <1>6. ASSUME ~crossed' PROVE OneAccount'
    <2>1. OneAccount /\ (state.viewer = NobodyYet => \A q \in All : ~LoggingIn(q))
      BY <1>2, <1>6 DEF SessionInv, Alone, Busy, LoggingIn
    <2>2. \A q \in All : q # p => at'[q] = at[q] /\ errand'[q] = errand[q]
      BY <1>1, <1>2 DEF SessionTyped
    <2>3. at'[p] = "opens" /\ errand'[p].read.viewer = state.viewer
      BY <1>1, <1>2 DEF SessionTyped
    <2> QED
      BY <2>1, <2>2, <2>3, NamesOfSession DEF OneAccount, LoggingIn
  <1> QED
    BY <1>3, <1>4, <1>5, <1>6 DEF SessionInv

\* A process that goes, whatever it writes of the pause.
LEMMA GoesAwayInv ==
  ASSUME SessionInv, NEW p \in All, GoesAway(p), UNCHANGED << kept, proven, crossed >>,
         state' \in [viewer : Accounts \cup {NobodyYet}, paused : BOOLEAN],
         ~crossed => state'.viewer = state.viewer
  PROVE  SessionInv'
  <1>1. SessionTyped /\ Carried /\ KeptIsProven
    BY DEF SessionInv
  <1>2. at' = [at EXCEPT ![p] = "away"] /\ errand' = [errand EXCEPT ![p] = Away]
    BY DEF GoesAway, Goes
  <1>3. \A q \in All : at'[q] # "away" => at'[q] = at[q] /\ errand'[q] = errand[q]
    BY <1>1, <1>2 DEF SessionTyped
  <1>4. SessionTyped'
    BY <1>1, <1>2, AwayIsErrand DEF SessionTyped
  <1>5. Carried'
    BY <1>1, <1>3 DEF Carried
  <1>6. KeptIsProven'
    BY <1>1 DEF KeptIsProven
  <1>7. ASSUME ~crossed' PROVE OneAccount'
    BY <1>3, <1>7, NamesOfSession DEF SessionInv, OneAccount, LoggingIn
  <1> QED
    BY <1>4, <1>5, <1>6, <1>7 DEF SessionInv

LEMMA SessionStartInv ==
  ASSUME SessionInv, NEW p \in Workers, SessionStart(p)
  PROVE  SessionInv'
  <1>1. SessionTyped /\ Carried /\ KeptIsProven /\ p \in All /\ Server \in All /\ p # Server
    BY SessionAssumption, NamesOfSession DEF SessionInv
  <1>2. PICK key \in Tokens, stopped \in BOOLEAN :
          LET stops == stopped /\ at[Server] # "away" IN
          /\ at' = [at EXCEPT ![p] = "opens", ![Server] = IF stops THEN "away" ELSE @]
          /\ errand' = [errand EXCEPT ![p] = [Away EXCEPT !.kind = "start", !.sent = key, !.read = state,
                                                        !.before = kept, !.own = TRUE],
                                      ![Server] = IF stops THEN Away ELSE @]
    BY DEF SessionStart
  <1> DEFINE what == [Away EXCEPT !.kind = "start", !.sent = key, !.read = state, !.before = kept, !.own = TRUE]
             stops == stopped /\ at[Server] # "away"
  <1>3. what \in Errands /\ what.sent = key /\ what.own = TRUE /\ what.read = state
    BY <1>1 DEF Away, Errands, SessionTyped
  <1>4. /\ at' = [at EXCEPT ![p] = "opens", ![Server] = IF stops THEN "away" ELSE @]
        /\ errand' = [errand EXCEPT ![p] = what, ![Server] = IF stops THEN Away ELSE @]
    BY <1>2
  <1>5. UNCHANGED << kept, state, proven >> /\ crossed' = (crossed \/ (state.viewer = NobodyYet /\ ~Alone))
    BY DEF SessionStart
  <1> HIDE DEF what, stops
  <1>6. /\ at'[p] = "opens" /\ errand'[p] = what
        /\ \A q \in All : q # p /\ at'[q] # "away" => at'[q] = at[q] /\ errand'[q] = errand[q]
    BY <1>1, <1>4 DEF SessionTyped
  <1>7. SessionTyped'
    BY <1>1, <1>3, <1>4, <1>5, AwayIsErrand DEF SessionTyped
  <1>8. Carried'
    BY <1>1, <1>3, <1>5, <1>6 DEF Carried
  <1>9. KeptIsProven'
    BY <1>1, <1>5 DEF KeptIsProven
  <1>10. ASSUME ~crossed' PROVE OneAccount'
    <2>1. OneAccount /\ (state.viewer = NobodyYet => \A q \in All : ~LoggingIn(q))
      BY <1>5, <1>10 DEF SessionInv, Alone, Busy, LoggingIn
    <2> QED
      BY <1>3, <1>5, <1>6, <2>1, NamesOfSession DEF OneAccount, LoggingIn
  <1> QED
    BY <1>7, <1>8, <1>9, <1>10 DEF SessionInv

LEMMA SessionEndInv ==
  ASSUME SessionInv, NEW p \in Workers, SessionEnd(p)
  PROVE  SessionInv'
  <1>1. SessionTyped /\ Carried /\ KeptIsProven /\ p \in All /\ Server \in All /\ p # Server
    BY SessionAssumption, NamesOfSession DEF SessionInv
  <1>2. PICK stops \in BOOLEAN :
          /\ at' = [at EXCEPT ![p] = "forgets", ![Server] = IF stops THEN "away" ELSE @]
          /\ errand' = [errand EXCEPT ![Server] = IF stops THEN Away ELSE @]
    BY DEF SessionEnd
  <1>3. UNCHANGED << kept, state, proven, crossed >>
    BY DEF SessionEnd
  <1>4. \A q \in All : at'[q] \notin {"away", "forgets"} => at'[q] = at[q] /\ errand'[q] = errand[q]
    BY <1>1, <1>2 DEF SessionTyped
  <1>5. SessionTyped'
    BY <1>1, <1>2, <1>3, AwayIsErrand DEF SessionTyped
  <1>6. Carried'
    BY <1>1, <1>3, <1>4 DEF Carried
  <1>7. KeptIsProven'
    BY <1>1, <1>3 DEF KeptIsProven
  <1>8. ASSUME ~crossed' PROVE OneAccount'
    BY <1>3, <1>4, <1>8, NamesOfSession DEF SessionInv, OneAccount, LoggingIn
  <1> QED
    BY <1>5, <1>6, <1>7, <1>8 DEF SessionInv

\* An account is forgotten while nobody else is at work, or the two have crossed.
LEMMA ForgetInv ==
  ASSUME SessionInv, NEW p \in Workers, Forget(p)
  PROVE  SessionInv'
  <1>1. SessionTyped /\ Carried /\ p \in All /\ (\A q \in Workers : q \in All /\ q # Server)
    BY SessionAssumption, NamesOfSession DEF SessionInv
  <1>2. /\ at' = [at EXCEPT ![p] = "away"] /\ errand' = [errand EXCEPT ![p] = Away]
        /\ kept' = NoToken /\ state' = [viewer |-> NobodyYet, paused |-> FALSE] /\ proven' = proven
        /\ crossed' = (crossed \/ \E q \in All \ {p} : Busy(q))
    BY DEF Forget, GoesAway, Goes
  <1>3. \A q \in All : at'[q] # "away" => q # p /\ at'[q] = at[q] /\ errand'[q] = errand[q]
    BY <1>1, <1>2 DEF SessionTyped
  <1>4. SessionTyped'
    BY <1>1, <1>2, AwayIsErrand DEF SessionTyped
  <1>5. Carried'
    BY <1>1, <1>2, <1>3 DEF Carried
  <1>6. KeptIsProven'
    BY <1>2 DEF KeptIsProven
  <1>7. ASSUME ~crossed' PROVE OneAccount'
    <2>1. \A q \in All : at'[q] \in {"away", "up"} /\ (q # Server => at'[q] = "away")
      BY <1>2, <1>3, <1>7 DEF Busy
    <2> QED
      BY <1>1, <1>2, <2>1 DEF OneAccount, LoggingIn
  <1> QED
    BY <1>4, <1>5, <1>6, <1>7 DEF SessionInv

\* The steps of a login that write nothing yet.
LEMMA LoginMovesInv ==
  ASSUME SessionInv, NEW p \in All, OverServer(p) \/ FallBack(p) \/ LoginAnswered(p)
  PROVE  SessionInv'
  <1>1. SessionTyped /\ Carried /\ KeptIsProven /\ Server \in All
    BY NamesOfSession DEF SessionInv
  <1>2. at[p] = "opens" /\ errand[p] \in Errands /\ errand[p].sent \in Tokens
    BY <1>1 DEF SessionTyped, Carried, OverServer, FallBack, LoginAnswered
  <1>3. PICK place \in {"opens", "answered"}, what \in Errands :
          /\ at' = [at EXCEPT ![p] = place] /\ errand' = [errand EXCEPT ![p] = what]
          /\ what.kind = errand[p].kind /\ what.sent = errand[p].sent /\ what.read = errand[p].read
          /\ errand[p].own => what.own
          /\ place = "answered" => what.login \in Accounts
          /\ place = "answered" /\ what.own => what.sent \in proven' /\ what.sent.of = what.login
    <2>1. CASE OverServer(p)
      <3>1. errand[Server].login \in Accounts /\ ~errand[p].own
        BY <1>1, <2>1 DEF Carried, OverServer
      <3> DEFINE what == [errand[p] EXCEPT !.login = errand[Server].login]
      <3>2. what \in Errands /\ what.kind = errand[p].kind /\ what.sent = errand[p].sent /\ what.read = errand[p].read
            /\ what.own = errand[p].own /\ what.login = errand[Server].login
        BY <1>2, <3>1 DEF Errands
      <3>3. at' = [at EXCEPT ![p] = "answered"] /\ errand' = [errand EXCEPT ![p] = what]
        BY <2>1 DEF OverServer, Goes
      <3> HIDE DEF what
      <3> QED
        BY <3>1, <3>2, <3>3
    <2>2. CASE FallBack(p)
      <3> DEFINE what == [errand[p] EXCEPT !.own = TRUE]
      <3>1. what \in Errands /\ what.kind = errand[p].kind /\ what.sent = errand[p].sent /\ what.read = errand[p].read
            /\ what.own
        BY <1>2 DEF Errands
      <3>2. at' = [at EXCEPT ![p] = "opens"] /\ errand' = [errand EXCEPT ![p] = what]
        BY <2>2 DEF FallBack, Goes
      <3> HIDE DEF what
      <3> QED
        BY <3>1, <3>2
    <2>3. CASE LoginAnswered(p)
      <3>1. errand[p].sent.of \in Accounts /\ proven' = proven \cup {errand[p].sent}
        BY <1>2, <2>3, NamesOfSession DEF LoginAnswered
      <3> DEFINE what == [errand[p] EXCEPT !.login = errand[p].sent.of]
      <3>2. what \in Errands /\ what.kind = errand[p].kind /\ what.sent = errand[p].sent /\ what.read = errand[p].read
            /\ what.own = errand[p].own /\ what.login = errand[p].sent.of
        BY <1>2, <3>1 DEF Errands
      <3>3. at' = [at EXCEPT ![p] = "answered"] /\ errand' = [errand EXCEPT ![p] = what]
        BY <2>3 DEF LoginAnswered, Goes
      <3> HIDE DEF what
      <3> QED
        BY <3>1, <3>2, <3>3
    <2> QED
      BY <2>1, <2>2, <2>3
  <1>4. UNCHANGED << kept, state, crossed >> /\ proven \subseteq proven' /\ proven' \subseteq Tokens
    BY <1>1, <1>2 DEF OverServer, FallBack, LoginAnswered, SessionTyped
  <1>5. /\ at'[p] = place /\ errand'[p] = what
        /\ \A q \in All : q # p => at'[q] = at[q] /\ errand'[q] = errand[q]
    BY <1>1, <1>3 DEF SessionTyped
  <1>6. SessionTyped'
    BY <1>1, <1>3, <1>4 DEF SessionTyped
  <1>7. Carried'
    BY <1>1, <1>2, <1>3, <1>4, <1>5 DEF Carried
  <1>8. KeptIsProven'
    BY <1>1, <1>4 DEF KeptIsProven
  <1>9. ASSUME ~crossed' PROVE OneAccount'
    BY <1>2, <1>3, <1>4, <1>5, <1>9, NamesOfSession DEF SessionInv, OneAccount, LoggingIn
  <1> QED
    BY <1>6, <1>7, <1>8, <1>9 DEF SessionInv

\* The login is counted: the first one of a profile gives it its account, every other one has the same.
LEMMA CountedInv ==
  ASSUME SessionInv, NEW p \in All, Counted(p)
  PROVE  SessionInv'
  <1>1. SessionTyped /\ Carried /\ KeptIsProven
    BY DEF SessionInv
  <1>2. at[p] = "answered" /\ errand[p] \in Errands /\ errand[p].sent \in Tokens /\ errand[p].login \in Accounts
        /\ Identity(p)
    BY <1>1 DEF SessionTyped, Carried, Counted
  <1>3. state' = [viewer |-> errand[p].login, paused |-> FALSE] /\ crossed' = crossed
    BY DEF Counted
  <1>4. PICK place \in {"adopts", "up"}, what \in Errands :
          /\ at' = [at EXCEPT ![p] = place] /\ errand' = [errand EXCEPT ![p] = what]
          /\ what.login = errand[p].login
          /\ place = "adopts" => what = errand[p] /\ what.kind = "start"
    <2>1. CASE errand[p].kind = "start"
      BY <1>2, <2>1 DEF Counted, Goes
    <2>2. CASE errand[p].kind # "start"
      <3> DEFINE what == [Away EXCEPT !.kind = errand[p].kind, !.login = errand[p].login]
      <3>1. what \in Errands /\ what.login = errand[p].login
        BY <1>2 DEF Away, Errands
      <3>2. at' = [at EXCEPT ![p] = "up"] /\ errand' = [errand EXCEPT ![p] = what]
        BY <2>2 DEF Counted, Up, Goes
      <3> HIDE DEF what
      <3> QED
        BY <3>1, <3>2
    <2> QED
      BY <2>1, <2>2
  <1>5. /\ at'[p] = place /\ errand'[p] = what
        /\ \A q \in All : q # p => at'[q] = at[q] /\ errand'[q] = errand[q]
    BY <1>1, <1>4 DEF SessionTyped
  <1>6. \/ UNCHANGED << kept, proven >>
        \/ /\ errand[p].own /\ kept' \in Tokens \ {DeadToken} /\ kept'.of = errand[p].sent.of
           /\ proven' = proven \cup {kept'}
    <2>1. CASE UNCHANGED << kept, proven >>
      BY <2>1
    <2>2. CASE MayRotate(p) /\ kept' = Rotated(p) /\ proven' = proven \cup {Rotated(p)}
      <3>1. errand[p].own /\ errand[p].sent \in proven /\ errand[p].sent.of = errand[p].login
        BY <1>1, <1>2, <2>2 DEF Carried, MayRotate
      <3>2. errand[p].sent # DeadToken
        BY <1>2, <3>1, NamesOfSession DEF DeadToken
      <3>3. errand[p].sent \in [of : Accounts, aged : BOOLEAN]
        BY <1>2, <3>2, NamesOfSession
      <3>4. Rotated(p) \in [of : Accounts, aged : BOOLEAN] /\ Rotated(p).of = errand[p].sent.of
        BY <3>3 DEF Rotated
      <3>5. Rotated(p) # DeadToken
        BY <3>3, <3>4, NamesOfSession DEF DeadToken
      <3> QED
        BY <2>2, <3>1, <3>4, <3>5 DEF Tokens
    <2> QED
      BY <2>1, <2>2 DEF Counted
  <1>7. SessionTyped'
    BY <1>1, <1>2, <1>3, <1>4, <1>6 DEF SessionTyped
  <1>8. Carried'
    BY <1>1, <1>2, <1>4, <1>5, <1>6 DEF Carried
  <1>9. KeptIsProven'
    BY <1>1, <1>6 DEF KeptIsProven
  <1>10. ASSUME ~crossed' PROVE OneAccount'
    <2>1. OneAccount
      BY <1>3, <1>10 DEF SessionInv
    <2>2. state.viewer \in {NobodyYet, errand[p].login}
      BY <1>2, <2>1 DEF OneAccount, Identity, LoggingIn
    <2>3. CASE state.viewer = errand[p].login
      <3>1. state'.viewer = state.viewer
        BY <1>3, <2>3
      <3>2. kept' # NoToken => kept'.of = state'.viewer
        BY <1>1, <1>2, <1>6, <2>1, <2>3, <3>1 DEF OneAccount, Carried
      <3> QED
        BY <1>2, <1>4, <1>5, <2>1, <2>3, <3>1, <3>2, NamesOfSession DEF OneAccount, LoggingIn
    <2>4. CASE state.viewer = NobodyYet
      <3>1. kept = NoToken
        BY <1>1, <2>1, <2>4, NamesOfSession DEF OneAccount, SessionTyped
      <3>2. \A q \in All : q # p => ~LoggingIn(q) /\ at[q] # "adopts" /\ (q \in Workers => at[q] # "up")
        BY <1>1, <1>2, <2>1, <2>4, NamesOfSession DEF OneAccount, LoggingIn, Carried
      <3>3. kept' # NoToken => kept'.of = state'.viewer
        BY <1>1, <1>2, <1>3, <1>6, <3>1 DEF Carried
      <3>4. state'.viewer = errand[p].login /\ state'.viewer # NobodyYet
        BY <1>2, <1>3, NamesOfSession
      <3> QED
        BY <1>4, <1>5, <3>2, <3>3, <3>4, NamesOfSession DEF OneAccount, LoggingIn
    <2> QED
      BY <2>2, <2>3, <2>4
  <1> QED
    BY <1>7, <1>8, <1>9, <1>10 DEF SessionInv

LEMMA AdoptInv ==
  ASSUME SessionInv, NEW p \in Workers, Adopt(p)
  PROVE  SessionInv'
  <1>1. SessionTyped /\ Carried /\ KeptIsProven /\ p \in All
    BY NamesOfSession DEF SessionInv
  <1>2. at[p] = "adopts" /\ errand[p] \in Errands /\ errand[p].sent \in Tokens /\ errand[p].login \in Accounts
        /\ errand[p].own /\ errand[p].sent \in proven /\ errand[p].sent.of = errand[p].login
    BY <1>1 DEF SessionTyped, Carried, Adopt
  <1>3. errand[p].sent # DeadToken /\ errand[p].sent # NoToken
    BY <1>2, NamesOfSession DEF DeadToken
  <1> DEFINE what == [Away EXCEPT !.kind = errand[p].kind, !.login = errand[p].login]
  <1>4. what \in Errands /\ what.login = errand[p].login
    BY <1>2 DEF Away, Errands
  <1>5. at' = [at EXCEPT ![p] = "up"] /\ errand' = [errand EXCEPT ![p] = what]
        /\ UNCHANGED << state, proven, crossed >>
        /\ kept' = IF kept = errand[p].before THEN errand[p].sent ELSE kept
    BY DEF Adopt, Up, Goes
  <1> HIDE DEF what
  <1>6. /\ at'[p] = "up" /\ errand'[p] = what
        /\ \A q \in All : q # p => at'[q] = at[q] /\ errand'[q] = errand[q]
    BY <1>1, <1>5 DEF SessionTyped
  <1>7. SessionTyped'
    BY <1>1, <1>2, <1>3, <1>4, <1>5 DEF SessionTyped
  <1>8. Carried'
    BY <1>1, <1>2, <1>4, <1>5, <1>6 DEF Carried
  <1>9. KeptIsProven'
    BY <1>1, <1>2, <1>5 DEF KeptIsProven
  <1>10. ASSUME ~crossed' PROVE OneAccount'
    <2>1. OneAccount
      BY <1>5, <1>10 DEF SessionInv
    <2>2. errand[p].login = state.viewer
      BY <1>1, <1>2, <2>1 DEF OneAccount
    <2>3. kept' # NoToken => kept'.of = state'.viewer
      BY <1>2, <1>5, <2>1, <2>2 DEF OneAccount
    <2> QED
      BY <1>4, <1>5, <1>6, <2>1, <2>2, <2>3, NamesOfSession DEF OneAccount, LoggingIn
  <1> QED
    BY <1>7, <1>8, <1>9, <1>10 DEF SessionInv

LEMMA SessionInvStep ==
  ASSUME SessionInv, [SessionNext]_sessionStateVars
  PROVE  SessionInv'
  <1>1. SessionTyped /\ Workers \subseteq All /\ Server \in All
    BY NamesOfSession DEF SessionInv
  <1>2. kept \in Tokens \cup {NoToken} /\ \A p \in All : errand[p].kind \in {"none", "command", "start", "by hand", "background"}
    BY <1>1 DEF SessionTyped, Errands
  <1>3. ASSUME NEW p \in Workers, Command(p) PROVE SessionInv'
    <2>1. UNCHANGED << kept, state, proven >>
      BY <1>3 DEF Command
    <2>2. CASE Begins(p, "command", kept, FALSE, FALSE)
      BY <1>1, <1>2, <2>1, <2>2, BeginsInv
    <2>3. ASSUME NEW key \in Tokens, Begins(p, "command", key, TRUE, FALSE) PROVE SessionInv'
      BY <1>1, <2>1, <2>3, BeginsInv
    <2> QED
      BY <1>3, <2>2, <2>3 DEF Command
  <1>4. ASSUME NEW byHand \in BOOLEAN, ServerBegins(byHand) PROVE SessionInv'
    <2>1. UNCHANGED << kept, state, proven >>
      BY <1>4 DEF ServerBegins
    <2>2. PICK kind \in {"by hand", "background"} : Begins(Server, kind, kept, FALSE, TRUE)
      BY <1>4 DEF ServerBegins
    <2> QED
      BY <1>1, <1>2, <2>1, <2>2, BeginsInv
  <1>5. ASSUME ServerReconnects PROVE SessionInv'
    <2>1. UNCHANGED << kept, state, proven >>
      BY <1>5 DEF ServerReconnects
    <2>2. CASE GoesAway(Server) /\ UNCHANGED crossed
      BY <1>1, <2>1, <2>2, GoesAwayInv DEF SessionTyped
    <2>3. CASE Begins(Server, errand[Server].kind, kept, FALSE, TRUE)
      BY <1>1, <1>2, <2>1, <2>3, BeginsInv
    <2> QED
      BY <1>5, <2>2, <2>3 DEF ServerReconnects
  <1>6. ASSUME NEW p \in All, Stranger(p) PROVE SessionInv'
    BY <1>1, <1>6, GoesAwayInv DEF Stranger, SessionTyped
  <1>7. ASSUME NEW p \in All, LoginFails(p) PROVE SessionInv'
    <2>1. /\ GoesAway(p) /\ UNCHANGED << kept, proven, crossed >> /\ at[p] = "opens"
          /\ state' = [errand[p].read EXCEPT !.paused = TRUE] \/ state' = state
      BY <1>7 DEF LoginFails
    <2>2. errand[p].read \in [viewer : Accounts \cup {NobodyYet}, paused : BOOLEAN]
      BY <1>1 DEF SessionTyped, Errands
    <2>3. state' \in [viewer : Accounts \cup {NobodyYet}, paused : BOOLEAN]
      BY <1>1, <2>1, <2>2 DEF SessionTyped
    <2>4. ~crossed => errand[p].read.viewer = state.viewer
      BY <2>1 DEF SessionInv, OneAccount, LoggingIn
    <2>5. ~crossed => state'.viewer = state.viewer
      BY <2>1, <2>2, <2>4
    <2> QED
      BY <2>1, <2>3, <2>5, GoesAwayInv
  <1>8. ASSUME NEW p \in All, (ServerStops /\ p = Server) \/ (p \in Workers /\ Ends(p)) PROVE SessionInv'
    BY <1>1, <1>8, GoesAwayInv DEF ServerStops, Ends, SessionTyped
  <1>9. CASE TimePasses
    <2>1. /\ UNCHANGED << kept, at, errand, proven, crossed >>
          /\ state' = [state EXCEPT !.paused = FALSE] \/ state' = state
      BY <1>9 DEF TimePasses
    <2>2. state' \in [viewer : Accounts \cup {NobodyYet}, paused : BOOLEAN] /\ state'.viewer = state.viewer
      BY <1>1, <2>1 DEF SessionTyped
    <2>3. SessionTyped' /\ Carried' /\ KeptIsProven'
      BY <2>1, <2>2 DEF SessionInv, SessionTyped, Carried, KeptIsProven
    <2>4. ~crossed' => OneAccount'
      BY <2>1, <2>2 DEF SessionInv, OneAccount, LoggingIn
    <2> QED
      BY <2>3, <2>4 DEF SessionInv
  <1>10. CASE UNCHANGED sessionStateVars
    BY <1>10 DEF sessionStateVars, SessionInv, SessionTyped, Carried, KeptIsProven, OneAccount, LoggingIn
  <1> QED
    BY <1>1, <1>3, <1>4, <1>5, <1>6, <1>7, <1>8, <1>9, <1>10,
       SessionStartInv, SessionEndInv, ForgetInv, LoginMovesInv, CountedInv, AdoptInv DEF SessionNext

LEMMA SessionInvHolds == SessionSpec => []SessionInv
  BY SessionInvInit, SessionInvStep, PTL DEF SessionSpec

\* What the session's invariant leaves out of its type: the two marks, and how many errands there were.
SessionFlags == refused \in BOOLEAN /\ crossed \in BOOLEAN
ErrandsBounded == errands \in 0 .. MaxErrands

LEMMA FlagsStep == ASSUME SessionFlags, SessionNext PROVE SessionFlags'
  <1>1. ASSUME NEW p \in Workers, Command(p) \/ SessionStart(p) \/ SessionEnd(p) \/ Forget(p) \/ OverServer(p) \/ FallBack(p) \/ Adopt(p) \/ Ends(p)
        PROVE  SessionFlags'
    BY <1>1 DEF SessionFlags, Command, SessionStart, SessionEnd, Forget, OverServer, FallBack, Adopt, Ends, Begins
  <1>2. ASSUME NEW p \in All, LoginAnswered(p) \/ LoginFails(p) \/ Stranger(p) \/ Counted(p)
        PROVE  SessionFlags'
    BY <1>2 DEF SessionFlags, LoginAnswered, LoginFails, Stranger, Counted
  <1>3. ASSUME NEW byHand \in BOOLEAN, ServerBegins(byHand) PROVE SessionFlags'
    BY <1>3 DEF SessionFlags, ServerBegins, Begins
  <1>4. CASE ServerReconnects \/ ServerStops \/ TimePasses
    BY <1>4 DEF SessionFlags, ServerReconnects, ServerStops, TimePasses, Begins
  <1> QED
    BY <1>1, <1>2, <1>3, <1>4 DEF SessionNext

LEMMA ErrandsStep == ASSUME ErrandsBounded, SessionNext PROVE ErrandsBounded'
  <1>1. (errands < MaxErrands /\ errands' = errands + 1) \/ errands' = errands
    BY DEF SessionNext, Command, SessionStart, SessionEnd, Forget, OverServer, FallBack, Adopt, Ends,
           LoginAnswered, LoginFails, Stranger, Counted, ServerBegins, ServerReconnects, ServerStops, TimePasses
  <1> QED
    BY <1>1, SessionAssumption DEF ErrandsBounded

\* Every variable of a profile's session has its type.
THEOREM SessionTypeCorrect == SessionSpec => []SessionTypeOK
  <1>1. SessionInit => SessionFlags /\ ErrandsBounded
    <2>1. SessionInit => refused = FALSE /\ crossed = FALSE /\ errands = 0
      BY DEF SessionInit
    <2>2. 0 \in 0 .. MaxErrands
      BY SessionAssumption
    <2> QED
      BY <2>1, <2>2 DEF SessionFlags, ErrandsBounded
  <1>2. SessionFlags /\ ErrandsBounded /\ [SessionNext]_sessionStateVars => SessionFlags' /\ ErrandsBounded'
    BY FlagsStep, ErrandsStep DEF sessionStateVars, SessionFlags, ErrandsBounded
  <1>3. SessionInv /\ SessionFlags /\ ErrandsBounded => SessionTypeOK
    BY DEF SessionInv, SessionTyped, Errands, SessionFlags, ErrandsBounded, SessionTypeOK
  <1> QED
    BY <1>1, <1>2, <1>3, SessionInvHolds, PTL DEF SessionSpec

\* The token a profile keeps is one MAX has taken or given; and while no account is forgotten or set
\* up beside another process, it is of the profile's account, and so is everyone who acts for the
\* profile, over the server or by itself: the check of MaxClient.connect, of a state read before the
\* login and written after it without a lock, is enough.
THEOREM SessionOwned == SessionSpec => []SessionIsOurs
  <1>1. SessionInv => SessionIsOurs
    BY DEF SessionInv, KeptIsProven, OneAccount, SessionIsOurs
  <1> QED
    BY <1>1, SessionInvHolds, PTL

----------------------------------------------------------------------------
(* The login `max serve` hands on (LiveLogin).                              *)

\* The pushes that say a field anew, those that come after the i-th of them for a chat, and the messages
\* counted among these.
Says == [last |-> {"message", "ours", "changed", "deleted"}, unread |-> {"ours", "read", "changed", "deleted"},
         title |-> {"changed"}]
Later(U, i, c) == { n \in (i + 1) .. Len(U) : U[n].chat = c }
Quiet(U, i, c, f) == \A n \in Later(U, i, c) : U[n].kind \notin Says[f]
Coming(U, i, c) == { U[n].at : n \in { m \in Later(U, i, c) : U[m].kind = "message" } }

\* A value of a field after the i-th push comes to what MAX has.
ComesTo(f, v, U, i, c, now) ==
  IF f = "unread" THEN v + Cardinality(Coming(U, i, c)) = now.unread ELSE v = now[f]

\* What a push says of a field; of what a deletion leaves it says nothing.
SaysOf(push, f) ==
  CASE push.kind = "changed" -> push.whole[f]
    [] push.kind \in {"message", "ours", "read"} -> IF f = "unread" THEN 0 ELSE push.at

PushesTell(U, acc) ==
  \A i \in 1 .. Len(U) : \A f \in Fields :
    U[i].kind \in Says[f] \ {"deleted"} /\ Quiet(U, i, U[i].chat, f) =>
      ComesTo(f, SaysOf(U[i], f), U, i, U[i].chat, acc[U[i].chat])

EntryTold(e, U, c, now) ==
  e.held => \A f \in Fields \ e.off : Quiet(U, 0, c, f) => ComesTo(f, e[f], U, 0, c, now)

Agrees(e, now) == e.held => \A f \in Fields \ e.off : e[f] = now[f]

PushTimes(U, acc) ==
  /\ \A i \in 1 .. Len(U) : U[i].kind # "edited" => U[i].at <= acc[U[i].chat].changed
  /\ \A i, n \in 1 .. Len(U) : i < n /\ U[i].kind # "edited" /\ U[n].kind # "edited" => U[i].at < U[n].at

AccountRec(m) == [last : 0 .. m, time : 0 .. m, unread : 0 .. m, title : 0 .. m, changed : 0 .. m]
EntryRec(m) == [last : 0 .. m, time : 0 .. m, unread : Nat, title : 0 .. m, held : BOOLEAN, off : SUBSET Fields]
PushRec(m) == [kind : {"message", "ours", "read", "changed", "deleted", "edited"}, chat : LiveChats, at : 1 .. m,
               whole : EntryRec(m)]

LiveTyped ==
  /\ moment \in 0 .. MaxMoments /\ since \in 0 .. moment
  /\ account \in [LiveChats -> AccountRec(moment)]
  /\ link \in [Logins -> {"none", "login", "rest", "ready", "up", "closed"}]
  /\ unheard \in [Logins -> Seq(PushRec(moment))]
  /\ chats \in [Logins -> [LiveChats -> EntryRec(moment)]]
  /\ shared \subseteq LiveChats /\ serving \in Logins \cup {NoClient}
  /\ resume \in [LiveChats -> EntryRec(moment)]

ComingUp(k) == link[k] \in {"login", "rest", "ready"}

\* One connection is the server's, one login is under way, and what has not logged in is sent nothing.
LinksHeld ==
  /\ \A k \in Logins : link[k] = "up" <=> serving = k
  /\ \A j, k \in Logins : ComingUp(j) /\ ComingUp(k) => j = k
  /\ \A k \in Logins : ~ TakesPushes(k) => unheard[k] = << >>

\* Each connection is told the truth by what it holds and what is on its way to it.
AllTold ==
  \A k \in Logins :
    /\ PushesTell(unheard[k], account) /\ PushTimes(unheard[k], account)
    /\ TakesPushes(k) => \A c \in LiveChats : EntryTold(chats[k][c], unheard[k], c, account[c])

\* What a login starts from is true of the chats it will not be answered.
LoginStartsTrue ==
  \A k \in Logins : link[k] = "login" =>
    /\ \A c \in LiveChats : account[c].changed <= since => Agrees(chats[k][c], account[c])
    /\ \A c \in shared : chats[k][c].held
    /\ serving # NoClient =>
         \A i \in 1 .. Len(unheard[serving]) : account[unheard[serving][i].chat].changed > since

ResumeTrue ==
  serving = NoClient =>
    \A c, d \in LiveChats : account[c].changed <= resume[d].time => Agrees(resume[c], account[c])

\* A push about a shared chat that the server has not heard is on its way to the login too.
SharedTold ==
  \A k \in Logins : link[k] \in {"rest", "ready"} /\ serving # NoClient =>
    \A i \in 1 .. Len(unheard[serving]) : unheard[serving][i].chat \in shared =>
      \E n \in 1 .. Len(unheard[k]) : unheard[k][n] = unheard[serving][i]

LiveInv == LiveTyped /\ LinksHeld /\ AllTold /\ LoginStartsTrue /\ ResumeTrue /\ SharedTold

LEMMA GreatestOf ==
  ASSUME NEW S, S \subseteq Nat, S # {}, NEW b \in Nat, \A x \in S : x <= b
  PROVE  Max(S) \in S /\ \A x \in S : x <= Max(S)
  <1> DEFINE D == { b - x : x \in S }
  <1>1. D \subseteq Nat /\ D # {}
    <2>1. ASSUME NEW x \in S PROVE b - x \in Nat
      OBVIOUS
    <2>2. PICK x \in S : b - x \in D
      OBVIOUS
    <2> QED
      BY <2>1, <2>2
  <1>2. PICK d \in D : \A e \in D : d <= e
    BY <1>1, LeastOf
  <1>3. PICK k \in S : d = b - k
    BY <1>2
  <1>4. \A x \in S : k >= x
    <2> TAKE x \in S
    <2>1. b - x \in D
      OBVIOUS
    <2>2. d <= b - x
      BY <1>2, <2>1
    <2> HIDE DEF D
    <2> QED
      BY <1>3, <2>2
  <1> HIDE DEF D
  <1> QED
    BY <1>4 DEF Max

Kinds == {"message", "ours", "read", "changed", "deleted", "edited"}

LEMMA SaysFacts ==
  /\ Says["last"] = {"message", "ours", "changed", "deleted"}
  /\ Says["unread"] = {"ours", "read", "changed", "deleted"}
  /\ Says["title"] = {"changed"}
  /\ \A f \in Fields : f = "last" \/ f = "unread" \/ f = "title"
  /\ \A f \in Fields : "changed" \in Says[f] /\ "edited" \notin Says[f]
  BY DEF Says, Fields

LEMMA LiveRecordsGrow ==
  ASSUME NEW m \in Nat
  PROVE  /\ AccountRec(m) \subseteq AccountRec(m + 1) /\ EntryRec(m) \subseteq EntryRec(m + 1)
         /\ PushRec(m) \subseteq PushRec(m + 1) /\ Seq(PushRec(m)) \subseteq Seq(PushRec(m + 1))
  <1>1. 0 .. m \subseteq 0 .. (m + 1) /\ 1 .. m \subseteq 1 .. (m + 1)
    OBVIOUS
  <1>2. AccountRec(m) \subseteq AccountRec(m + 1)
    BY <1>1 DEF AccountRec
  <1>3. EntryRec(m) \subseteq EntryRec(m + 1)
    BY <1>1 DEF EntryRec
  <1>4. PushRec(m) \subseteq PushRec(m + 1)
    BY <1>1, <1>3 DEF PushRec
  <1>5. ASSUME NEW U \in Seq(PushRec(m)) PROVE U \in Seq(PushRec(m + 1))
    BY <1>4
  <1> QED
    BY <1>2, <1>3, <1>4, <1>5

LEMMA TailFacts ==
  ASSUME NEW R, NEW U \in Seq(R), U # << >>
  PROVE  /\ Tail(U) \in Seq(R) /\ Len(U) \in Nat \ {0} /\ Len(Tail(U)) = Len(U) - 1 /\ Head(U) = U[1] /\ U[1] \in R
         /\ \A i \in 1 .. Len(Tail(U)) : Tail(U)[i] = U[i + 1] /\ i + 1 \in 1 .. Len(U)
  OBVIOUS

LEMMA AppendFacts ==
  ASSUME NEW R, NEW U \in Seq(R), NEW p \in R
  PROVE  /\ Append(U, p) \in Seq(R) /\ Len(U) \in Nat /\ Len(Append(U, p)) = Len(U) + 1 /\ Append(U, p)[Len(U) + 1] = p
         /\ \A i \in 1 .. Len(U) : Append(U, p)[i] = U[i]
  OBVIOUS

\* What is to come after a push is the same when one before it has been heard.
LEMMA TailLater ==
  ASSUME NEW R, NEW U \in Seq(R), U # << >>, NEW i \in 0 .. Len(Tail(U)), NEW c
  PROVE  /\ \A f \in Fields : Quiet(Tail(U), i, c, f) <=> Quiet(U, i + 1, c, f)
         /\ Coming(Tail(U), i, c) = Coming(U, i + 1, c)
  <1>1. /\ Len(U) \in Nat \ {0} /\ Len(Tail(U)) = Len(U) - 1
        /\ \A n \in 1 .. Len(Tail(U)) : Tail(U)[n] = U[n + 1]
    BY TailFacts
  <1>2. \A n \in Later(Tail(U), i, c) : n + 1 \in Later(U, i + 1, c) /\ Tail(U)[n] = U[n + 1]
    BY <1>1 DEF Later
  <1>3. \A n \in Later(U, i + 1, c) : n - 1 \in Later(Tail(U), i, c) /\ Tail(U)[n - 1] = U[n]
    <2> SUFFICES ASSUME NEW n \in Later(U, i + 1, c) PROVE n - 1 \in Later(Tail(U), i, c) /\ Tail(U)[n - 1] = U[n]
      OBVIOUS
    <2>1. n \in Int /\ n - 1 \in (i + 1) .. Len(Tail(U)) /\ n - 1 \in 1 .. Len(Tail(U)) /\ (n - 1) + 1 = n /\ U[n].chat = c
      BY <1>1 DEF Later
    <2>2. Tail(U)[n - 1] = U[n]
      BY <1>1, <2>1
    <2> QED
      BY <2>1, <2>2 DEF Later
  <1>4. \A f \in Fields : Quiet(Tail(U), i, c, f) <=> Quiet(U, i + 1, c, f)
    BY <1>2, <1>3 DEF Quiet
  <1>5. Coming(Tail(U), i, c) = Coming(U, i + 1, c)
    <2>1. ASSUME NEW t \in Coming(Tail(U), i, c) PROVE t \in Coming(U, i + 1, c)
      <3>1. PICK n \in Later(Tail(U), i, c) : Tail(U)[n].kind = "message" /\ t = Tail(U)[n].at
        BY <2>1 DEF Coming
      <3> QED
        BY <1>2, <3>1 DEF Coming
    <2>2. ASSUME NEW t \in Coming(U, i + 1, c) PROVE t \in Coming(Tail(U), i, c)
      <3>1. PICK n \in Later(U, i + 1, c) : U[n].kind = "message" /\ t = U[n].at
        BY <2>2 DEF Coming
      <3> QED
        BY <1>3, <3>1 DEF Coming
    <2> QED
      BY <2>1, <2>2
  <1> QED
    BY <1>4, <1>5

\* One more push on its way.
LEMMA AppendLater ==
  ASSUME NEW R, NEW U \in Seq(R), NEW p \in R, NEW i \in 0 .. Len(U), NEW c
  PROVE  /\ \A f \in Fields : Quiet(Append(U, p), i, c, f) <=> Quiet(U, i, c, f) /\ (p.chat = c => p.kind \notin Says[f])
         /\ Coming(Append(U, p), i, c) = Coming(U, i, c) \cup { t \in {p.at} : p.chat = c /\ p.kind = "message" }
  <1> DEFINE V == Append(U, p)
  <1>1. /\ Len(U) \in Nat /\ Len(V) = Len(U) + 1 /\ V[Len(U) + 1] = p
        /\ \A n \in 1 .. Len(U) : V[n] = U[n]
    BY AppendFacts
  <1> HIDE DEF V
  <1>2. \A n \in Later(U, i, c) : n \in Later(V, i, c) /\ V[n] = U[n]
    BY <1>1 DEF Later
  <1>3. p.chat = c => Len(U) + 1 \in Later(V, i, c)
    BY <1>1 DEF Later
  <1>4. \A n \in Later(V, i, c) : (n \in Later(U, i, c) /\ V[n] = U[n]) \/ (p.chat = c /\ V[n] = p)
    <2> SUFFICES ASSUME NEW n \in Later(V, i, c), ~(p.chat = c /\ V[n] = p) PROVE n \in Later(U, i, c) /\ V[n] = U[n]
      OBVIOUS
    <2>1. n \in (i + 1) .. (Len(U) + 1) /\ V[n].chat = c
      BY <1>1 DEF Later
    <2>2. n # Len(U) + 1
      BY <1>1, <2>1
    <2>3. n \in 1 .. Len(U) /\ n \in (i + 1) .. Len(U)
      BY <1>1, <2>1, <2>2
    <2> QED
      BY <1>1, <2>1, <2>3 DEF Later
  <1>5. \A f \in Fields : Quiet(V, i, c, f) <=> Quiet(U, i, c, f) /\ (p.chat = c => p.kind \notin Says[f])
    BY <1>1, <1>2, <1>3, <1>4 DEF Quiet
  <1>6. Coming(V, i, c) = Coming(U, i, c) \cup { t \in {p.at} : p.chat = c /\ p.kind = "message" }
    <2>1. ASSUME NEW t \in Coming(V, i, c)
          PROVE  t \in Coming(U, i, c) \/ (t = p.at /\ p.chat = c /\ p.kind = "message")
      <3>1. PICK n \in Later(V, i, c) : V[n].kind = "message" /\ t = V[n].at
        BY <2>1 DEF Coming
      <3> QED
        BY <1>4, <3>1 DEF Coming
    <2>2. ASSUME NEW t \in Coming(U, i, c) PROVE t \in Coming(V, i, c)
      <3>1. PICK n \in Later(U, i, c) : U[n].kind = "message" /\ t = U[n].at
        BY <2>2 DEF Coming
      <3> QED
        BY <1>2, <3>1 DEF Coming
    <2>3. p.chat = c /\ p.kind = "message" => p.at \in Coming(V, i, c)
      BY <1>1, <1>3 DEF Coming
    <2> QED
      BY <2>1, <2>2, <2>3
  <1> QED
    BY <1>5, <1>6 DEF V

LEMMA CountedFinite ==
  ASSUME NEW m \in Nat, NEW U \in Seq(PushRec(m)), NEW i \in Nat, NEW c
  PROVE  /\ Coming(U, i, c) \subseteq 1 .. m /\ IsFiniteSet(Coming(U, i, c)) /\ Cardinality(Coming(U, i, c)) \in Nat
         /\ i >= Len(U) => Coming(U, i, c) = {} /\ Cardinality(Coming(U, i, c)) = 0 /\ \A f : Quiet(U, i, c, f)
  <1>1. Coming(U, i, c) \subseteq 1 .. m
    <2> SUFFICES ASSUME NEW t \in Coming(U, i, c) PROVE t \in 1 .. m
      OBVIOUS
    <2>1. PICK n \in Later(U, i, c) : t = U[n].at
      BY DEF Coming
    <2>2. n \in 1 .. Len(U)
      BY DEF Later
    <2>3. U[n] \in PushRec(m)
      BY <2>2
    <2> QED
      BY <2>1, <2>3 DEF PushRec
  <1>2. 1 \in Int /\ m \in Int
    OBVIOUS
  <1>3. IsFiniteSet(1 .. m)
    BY <1>2, FS_Interval
  <1>4. IsFiniteSet(Coming(U, i, c)) /\ Cardinality(Coming(U, i, c)) \in Nat
    BY <1>1, <1>3, FS_Subset, FS_CardinalityType
  <1>5. ASSUME i >= Len(U) PROVE Coming(U, i, c) = {} /\ \A f : Quiet(U, i, c, f)
    <2>1. Later(U, i, c) = {}
      BY <1>5 DEF Later
    <2> QED
      BY <2>1 DEF Coming, Quiet
  <1>6. Cardinality({}) = 0
    BY FS_EmptySet
  <1> QED
    BY <1>1, <1>4, <1>5, <1>6

\* A push and what happened in its chat.
Happened(p, now, new) ==
  /\ \A f \in Fields : p.kind \in Says[f] \ {"deleted"} => SaysOf(p, f) = new[f]
  /\ \A f \in Fields : p.kind \notin Says[f] =>
       new[f] = IF f = "unread" /\ p.kind = "message" THEN now.unread + 1 ELSE now[f]

LEMMA OneMore ==
  ASSUME NEW S, IsFiniteSet(S), NEW x, x \notin S
  PROVE  Cardinality(S \cup {x}) = Cardinality(S) + 1
  BY FS_AddElement

LEMMA ComesAfterAppend ==
  ASSUME NEW m \in Nat, NEW U \in Seq(PushRec(m)), NEW p \in PushRec(m), NEW i \in 0 .. Len(U), NEW f \in Fields, NEW v,
         f = "unread" => v \in Nat, NEW c, NEW now, NEW new, now.unread \in Nat, ComesTo(f, v, U, i, c, now),
         p.chat = c => Happened(p, now, new) /\ p.kind \notin Says[f],
         p.chat # c => new = now,
         p.kind = "message" => p.at \notin Coming(U, i, c)
  PROVE  ComesTo(f, v, Append(U, p), i, c, new)
  <1>1. Coming(Append(U, p), i, c) = Coming(U, i, c) \cup { t \in {p.at} : p.chat = c /\ p.kind = "message" }
    BY AppendLater
  <1>2. IsFiniteSet(Coming(U, i, c)) /\ Cardinality(Coming(U, i, c)) \in Nat
    <2>1. i \in Nat
      OBVIOUS
    <2> QED
      BY <2>1, CountedFinite
  <1>3. CASE p.chat = c /\ p.kind = "message" /\ f = "unread"
    <2>1. Coming(Append(U, p), i, c) = Coming(U, i, c) \cup {p.at}
      BY <1>1, <1>3
    <2>4. Cardinality(Coming(U, i, c) \cup {p.at}) = Cardinality(Coming(U, i, c)) + 1
      BY <1>2, <1>3, OneMore
    <2>2. Cardinality(Coming(Append(U, p), i, c)) = Cardinality(Coming(U, i, c)) + 1
      BY <2>1, <2>4
    <2>3. new.unread = now.unread + 1
      BY <1>3 DEF Happened
    <2> QED
      BY <1>2, <1>3, <2>2, <2>3 DEF ComesTo
  <1>4. CASE p.chat = c /\ p.kind # "message" /\ f = "unread"
    <2>1. Coming(Append(U, p), i, c) = Coming(U, i, c)
      BY <1>1, <1>4
    <2>2. new["unread"] = now["unread"]
      BY <1>4 DEF Happened
    <2> QED
      BY <1>4, <2>1, <2>2 DEF ComesTo
  <1>5. CASE p.chat = c /\ f # "unread"
    <2>1. new[f] = now[f]
      BY <1>5 DEF Happened
    <2> QED
      BY <1>5, <2>1 DEF ComesTo
  <1>6. CASE p.chat # c
    <2>1. Coming(Append(U, p), i, c) = Coming(U, i, c)
      BY <1>1, <1>6
    <2> QED
      BY <1>6, <2>1 DEF ComesTo
  <1> QED
    BY <1>3, <1>4, <1>5, <1>6

\* What happens in a chat after everything else, and is pushed.
NewPush(p, acc, new, m) ==
  /\ p.kind # "edited" => p.at = m + 1
  /\ p.chat \in LiveChats
  /\ Happened(p, acc[p.chat], new[p.chat]) /\ new[p.chat].changed = m + 1
  /\ \A c \in LiveChats \ {p.chat} : new[c] = acc[c]

LEMMA NotCountedYet ==
  ASSUME NEW m \in Nat, NEW U \in Seq(PushRec(m)), NEW i \in Nat, NEW c
  PROVE  m + 1 \notin Coming(U, i, c)
  <1>1. Coming(U, i, c) \subseteq 1 .. m
    BY CountedFinite
  <1> QED
    BY <1>1

LEMMA EntryAfterAppend ==
  ASSUME NEW m \in Nat, NEW U \in Seq(PushRec(m)), NEW p \in PushRec(m + 1),
         NEW acc \in [LiveChats -> AccountRec(m)], NEW new, NewPush(p, acc, new, m),
         NEW c \in LiveChats, NEW e \in EntryRec(m), EntryTold(e, U, c, acc[c])
  PROVE  EntryTold(e, Append(U, p), c, new[c])
  <1> SUFFICES ASSUME e.held, NEW f \in Fields \ e.off, Quiet(Append(U, p), 0, c, f)
               PROVE  ComesTo(f, e[f], Append(U, p), 0, c, new[c])
    BY DEF EntryTold
  <1>1. U \in Seq(PushRec(m + 1)) /\ 0 \in 0 .. Len(U) /\ f \in Fields /\ m + 1 \in Nat
    BY LiveRecordsGrow
  <1>2. Quiet(U, 0, c, f) /\ (p.chat = c => p.kind \notin Says[f])
    BY <1>1, AppendLater
  <1>3. ComesTo(f, e[f], U, 0, c, acc[c])
    BY <1>2 DEF EntryTold
  <1>4. acc[c].unread \in Nat /\ (f = "unread" => e[f] \in Nat)
    BY DEF AccountRec, EntryRec
  <1>5. p.kind = "message" => p.at \notin Coming(U, 0, c)
    BY NotCountedYet DEF NewPush
  <1>6. (p.chat = c => Happened(p, acc[c], new[c])) /\ (p.chat # c => new[c] = acc[c])
    BY DEF NewPush
  <1> QED
    BY <1>1, <1>2, <1>3, <1>4, <1>5, <1>6, ComesAfterAppend

LEMMA SaysTyped ==
  ASSUME NEW m \in Nat, NEW p \in PushRec(m), p.kind \in Says["unread"] \ {"deleted"}
  PROVE  SaysOf(p, "unread") \in Nat
  BY SaysFacts DEF SaysOf, PushRec, EntryRec

LEMMA PushesAfterAppend ==
  ASSUME NEW m \in Nat, NEW U \in Seq(PushRec(m)), NEW p \in PushRec(m + 1),
         NEW acc \in [LiveChats -> AccountRec(m)], NEW new, NewPush(p, acc, new, m), new[p.chat].unread \in Nat,
         PushesTell(U, acc), PushTimes(U, acc)
  PROVE  PushesTell(Append(U, p), new) /\ PushTimes(Append(U, p), new)
  <1> DEFINE V == Append(U, p)
  <1>1. U \in Seq(PushRec(m + 1)) /\ V \in Seq(PushRec(m + 1)) /\ Len(U) \in Nat /\ Len(V) = Len(U) + 1 /\ V[Len(U) + 1] = p
        /\ (\A i \in 1 .. Len(U) : V[i] = U[i]) /\ m + 1 \in Nat
    BY LiveRecordsGrow, AppendFacts
  <1>2. \A i \in 1 .. Len(U) : U[i] \in PushRec(m) /\ U[i].chat \in LiveChats
    <2> SUFFICES ASSUME NEW i \in 1 .. Len(U) PROVE U[i] \in PushRec(m) /\ U[i].chat \in LiveChats
      OBVIOUS
    <2>1. U[i] \in PushRec(m)
      OBVIOUS
    <2> QED
      BY <2>1 DEF PushRec
  <1>3. \A i \in 1 .. Len(V) : i \in 1 .. Len(U) \/ i = Len(U) + 1
    BY <1>1
  <1>4. PushesTell(V, new)
    <2>1. ASSUME NEW i \in 1 .. Len(U), NEW f \in Fields, V[i].kind \in Says[f] \ {"deleted"}, Quiet(V, i, V[i].chat, f)
          PROVE  ComesTo(f, SaysOf(V[i], f), V, i, V[i].chat, new[V[i].chat])
      <3> DEFINE c == U[i].chat
      <3>1. V[i] = U[i] /\ i \in 0 .. Len(U) /\ c \in LiveChats /\ i \in Nat
        BY <1>1, <1>2
      <3>2. Quiet(U, i, c, f) /\ (p.chat = c => p.kind \notin Says[f])
        BY <1>1, <2>1, <3>1, AppendLater
      <3>3. ComesTo(f, SaysOf(U[i], f), U, i, c, acc[c])
        BY <2>1, <3>1, <3>2 DEF PushesTell
      <3>4. acc[c].unread \in Nat /\ (f = "unread" => SaysOf(U[i], f) \in Nat)
        <4>1. acc[c].unread \in Nat
          BY <3>1 DEF AccountRec
        <4>2. f = "unread" => SaysOf(U[i], f) \in Nat
          BY <1>2, <2>1, <3>1, SaysTyped
        <4> QED
          BY <4>1, <4>2
      <3>5. p.kind = "message" => p.at \notin Coming(U, i, c)
        BY <3>1, NotCountedYet DEF NewPush
      <3>6. (p.chat = c => Happened(p, acc[c], new[c])) /\ (p.chat # c => new[c] = acc[c])
        BY <3>1 DEF NewPush
      <3> HIDE DEF c
      <3>7. ComesTo(f, SaysOf(U[i], f), V, i, c, new[c])
        BY <1>1, <3>1, <3>2, <3>3, <3>4, <3>5, <3>6, ComesAfterAppend
      <3> QED
        BY <3>1, <3>7 DEF c
    <2>2. ASSUME NEW f \in Fields, p.kind \in Says[f] \ {"deleted"}
          PROVE  ComesTo(f, SaysOf(p, f), V, Len(U) + 1, p.chat, new[p.chat])
      <3>1. Cardinality(Coming(V, Len(U) + 1, p.chat)) = 0
        <4>1. Len(U) + 1 \in Nat /\ Len(U) + 1 >= Len(V)
          BY <1>1
        <4> HIDE DEF V
        <4> QED
          BY <1>1, <4>1, CountedFinite
      <3>2. SaysOf(p, f) = new[p.chat][f]
        BY <2>2 DEF NewPush, Happened
      <3> HIDE DEF V
      <3>3. CASE f = "unread"
        <4>1. SaysOf(p, f) + 0 = new[p.chat].unread
          BY <3>2, <3>3
        <4> QED
          BY <3>1, <3>3, <4>1 DEF ComesTo
      <3>4. CASE f # "unread"
        BY <3>2, <3>4 DEF ComesTo
      <3> QED
        BY <3>3, <3>4
    <2> HIDE DEF V
    <2> QED
      BY <1>1, <1>3, <2>1, <2>2 DEF PushesTell
  <1>5. PushTimes(V, new)
    <2> HIDE DEF V
    <2>1. \A i \in 1 .. Len(U) : U[i].kind # "edited" => U[i].at <= acc[U[i].chat].changed /\ U[i].at \in 1 .. m
      BY <1>2 DEF PushTimes, PushRec
    <2>2. \A i \in 1 .. Len(V) : V[i].kind # "edited" => V[i].at <= new[V[i].chat].changed
      <3>1. ASSUME NEW i \in 1 .. Len(U), U[i].kind # "edited" PROVE U[i].at <= new[U[i].chat].changed
        <4>1. CASE U[i].chat = p.chat
          BY <2>1, <3>1, <4>1 DEF NewPush
        <4>2. CASE U[i].chat # p.chat
          BY <1>2, <2>1, <3>1, <4>2 DEF NewPush
        <4> QED
          BY <4>1, <4>2
      <3>2. p.kind # "edited" => p.at <= new[p.chat].changed
        BY DEF NewPush
      <3> QED
        BY <1>1, <1>3, <3>1, <3>2
    <2>3. ASSUME NEW i \in 1 .. Len(V), NEW n \in 1 .. Len(V), i < n, V[i].kind # "edited", V[n].kind # "edited"
          PROVE  V[i].at < V[n].at
      <3>1. i \in 1 .. Len(U) /\ V[i] = U[i]
        BY <1>1, <2>3
      <3>2. CASE n \in 1 .. Len(U)
        BY <1>1, <2>3, <3>1, <3>2 DEF PushTimes
      <3>3. CASE n = Len(U) + 1
        <4>1. V[n].at = m + 1
          BY <1>1, <2>3, <3>3 DEF NewPush
        <4>2. U[i].at \in 1 .. m
          BY <2>1, <2>3, <3>1
        <4> QED
          BY <3>1, <4>1, <4>2
      <3> QED
        BY <1>3, <3>2, <3>3
    <2> QED
      BY <2>2, <2>3 DEF PushTimes
  <1> QED
    BY <1>4, <1>5

\* What a push makes of an entry, field by field.
PatchShape(q, e, p, again, m) ==
  /\ q \in EntryRec(m)
  /\ p.kind = "changed" => q = p.whole
  /\ p.kind # "changed" => q.title = e.title /\ q.held = e.held /\ ("title" \in e.off => "title" \in q.off)
  /\ p.kind = "message" => q.last = p.at /\ q.unread = e.unread + 1 /\ q.off = (e.off \ {"last"}) \cup again
  /\ p.kind = "ours" => q.last = p.at /\ q.unread = 0
  /\ p.kind = "edited" =>
       (q.last = e.last \/ "last" \in q.off) /\ ("last" \in e.off => "last" \in q.off) /\ "unread" \in q.off
  /\ p.kind = "read" => q.last = e.last /\ q.unread = 0 /\ ("last" \in e.off => "last" \in q.off)
  /\ p.kind = "deleted" => {"last", "unread"} \subseteq q.off

LEMMA PatchedFacts ==
  ASSUME NEW m \in Nat, NEW e \in EntryRec(m), NEW p \in PushRec(m), NEW again \in SUBSET Fields
  PROVE  PatchShape(Patched(e, p, again), e, p, again, m)
  <1> DEFINE q == Patched(e, p, again)
  <1>0. p.kind \in Kinds /\ p.at \in 0 .. m /\ p.whole \in EntryRec(m) /\ e.unread + 1 \in Nat /\ 0 \in Nat
        /\ e.unread \in Nat /\ e.off \subseteq Fields /\ e.last \in 0 .. m
    BY DEF PushRec, EntryRec, Kinds
  <1>1. ASSUME p.kind = "changed" PROVE PatchShape(q, e, p, again, m)
    <2>1. q = p.whole
      BY <1>1 DEF Patched
    <2> HIDE DEF q
    <2> QED
      BY <1>0, <1>1, <2>1 DEF PatchShape
  <1>2. ASSUME p.kind = "message" PROVE PatchShape(q, e, p, again, m)
    <2>1. q = [NewLast(e, p) EXCEPT !.unread = @ + 1, !.off = (@ \ {"last"}) \cup again]
      BY <1>2 DEF Patched
    <2>2. (e.off \ {"last"}) \cup again \subseteq Fields
      BY <1>0
    <2>3. q \in EntryRec(m) /\ q.last = p.at /\ q.unread = e.unread + 1 /\ q.off = (e.off \ {"last"}) \cup again
          /\ q.title = e.title /\ q.held = e.held
      BY <1>0, <2>1, <2>2 DEF NewLast, EntryRec
    <2> HIDE DEF q
    <2> QED
      BY <1>2, <2>3 DEF PatchShape
  <1>3. ASSUME p.kind = "ours" PROVE PatchShape(q, e, p, again, m)
    <2>1. q = [NewLast(e, p) EXCEPT !.unread = 0, !.off = @ \ {"last", "unread"}]
      BY <1>3 DEF Patched
    <2>2. q \in EntryRec(m) /\ q.last = p.at /\ q.unread = 0 /\ q.off = e.off \ {"last", "unread"}
          /\ q.title = e.title /\ q.held = e.held
      BY <1>0, <2>1 DEF NewLast, EntryRec
    <2> HIDE DEF q
    <2> QED
      BY <1>3, <2>2 DEF PatchShape
  <1>4. ASSUME p.kind = "edited" PROVE PatchShape(q, e, p, again, m)
    <2> DEFINE off == e.off \cup {"unread"} \cup IF p.at = e.last THEN {} ELSE {"last"}
    <2>1. q = [NewLast(e, p) EXCEPT !.unread = @ + 1, !.off = off]
      BY <1>4 DEF Patched, NewLast
    <2>2. off \subseteq Fields /\ (p.at = e.last \/ "last" \in off) /\ e.off \subseteq off /\ "unread" \in off
      BY <1>0 DEF Fields
    <2> HIDE DEF off
    <2>3. q \in EntryRec(m) /\ q.last = p.at /\ q.off = off /\ q.title = e.title /\ q.held = e.held
      BY <1>0, <2>1, <2>2 DEF NewLast, EntryRec
    <2> HIDE DEF q
    <2> QED
      BY <1>4, <2>2, <2>3 DEF PatchShape
  <1>5. ASSUME p.kind = "read" PROVE PatchShape(q, e, p, again, m)
    <2>1. q = [e EXCEPT !.unread = 0, !.off = @ \ {"unread"}]
      BY <1>5 DEF Patched
    <2>2. q \in EntryRec(m) /\ q.last = e.last /\ q.unread = 0 /\ q.off = e.off \ {"unread"}
          /\ q.title = e.title /\ q.held = e.held
      BY <1>0, <2>1 DEF EntryRec
    <2> HIDE DEF q
    <2> QED
      BY <1>5, <2>2 DEF PatchShape
  <1>6. ASSUME p.kind = "deleted" PROVE PatchShape(q, e, p, again, m)
    <2>1. q = [e EXCEPT !.off = @ \cup {"last", "unread"}]
      BY <1>6 DEF Patched
    <2>2. q \in EntryRec(m) /\ q.off = e.off \cup {"last", "unread"} /\ q.title = e.title /\ q.held = e.held
      BY <1>0, <2>1 DEF EntryRec, Fields
    <2> HIDE DEF q
    <2> QED
      BY <1>6, <2>2 DEF PatchShape
  <1> HIDE DEF q
  <1>7. p.kind = "message" \/ p.kind = "ours" \/ p.kind = "read" \/ p.kind = "changed" \/ p.kind = "deleted" \/ p.kind = "edited"
    BY <1>0 DEF Kinds
  <1> QED
    BY <1>1, <1>2, <1>3, <1>4, <1>5, <1>6, <1>7 DEF q

\* What a value comes to when the first push, which does not say its field, is heard.
LEMMA ComesAfterTail ==
  ASSUME NEW m \in Nat, NEW U \in Seq(PushRec(m)), U # << >>, NEW acc, PushTimes(U, acc), NEW f \in Fields, NEW v, NEW w,
         f = "unread" => v \in Nat, NEW c, NEW now, ComesTo(f, v, U, 0, c, now),
         w = IF f = "unread" /\ U[1].kind = "message" /\ U[1].chat = c THEN v + 1 ELSE v
  PROVE  ComesTo(f, w, Tail(U), 0, c, now)
  <1>1. /\ Len(U) \in Nat \ {0} /\ U[1] \in PushRec(m) /\ 0 \in 0 .. Len(Tail(U)) /\ 0 + 1 = 1
    BY TailFacts
  <1>2. Coming(Tail(U), 0, c) = Coming(U, 1, c)
    BY <1>1, TailLater
  <1>3. Coming(U, 0, c) = Coming(U, 1, c) \cup { t \in {U[1].at} : U[1].chat = c /\ U[1].kind = "message" }
    <2>1. \A n : n \in Later(U, 0, c) <=> (n \in Later(U, 1, c) \/ (n = 1 /\ U[1].chat = c))
      BY <1>1 DEF Later
    <2> QED
      BY <2>1 DEF Coming
  <1>4. U[1].kind = "message" => U[1].at \notin Coming(U, 1, c)
    <2> SUFFICES ASSUME U[1].kind = "message", U[1].at \in Coming(U, 1, c) PROVE FALSE
      OBVIOUS
    <2>1. PICK n \in Later(U, 1, c) : U[n].kind = "message" /\ U[1].at = U[n].at
      BY DEF Coming
    <2>2. n \in 1 .. Len(U) /\ 1 \in 1 .. Len(U) /\ 1 < n
      BY <1>1 DEF Later
    <2>3. U[1].at < U[n].at
      BY <2>1, <2>2 DEF PushTimes
    <2>4. U[1].at \in Nat
      BY <1>1 DEF PushRec
    <2> QED
      BY <2>1, <2>3, <2>4
  <1>5. IsFiniteSet(Coming(U, 1, c)) /\ Cardinality(Coming(U, 1, c)) \in Nat
    <2>1. 1 \in Nat
      OBVIOUS
    <2> QED
      BY <2>1, CountedFinite
  <1>6. CASE f = "unread" /\ U[1].kind = "message" /\ U[1].chat = c
    <2>1. Coming(U, 0, c) = Coming(U, 1, c) \cup {U[1].at}
      BY <1>3, <1>6
    <2>2. Cardinality(Coming(U, 1, c) \cup {U[1].at}) = Cardinality(Coming(U, 1, c)) + 1
      BY <1>4, <1>5, <1>6, OneMore
    <2>3. Cardinality(Coming(U, 0, c)) = Cardinality(Coming(U, 1, c)) + 1
      BY <2>1, <2>2
    <2> QED
      BY <1>2, <1>5, <1>6, <2>3 DEF ComesTo
  <1>7. CASE f = "unread" /\ ~(U[1].kind = "message" /\ U[1].chat = c)
    <2>1. Coming(U, 0, c) = Coming(U, 1, c)
      BY <1>3, <1>7
    <2> QED
      BY <1>2, <1>7, <2>1 DEF ComesTo
  <1>8. CASE f # "unread"
    BY <1>8 DEF ComesTo
  <1> QED
    BY <1>6, <1>7, <1>8

LEMMA PushesAfterTail ==
  ASSUME NEW m \in Nat, NEW U \in Seq(PushRec(m)), U # << >>, NEW acc, PushesTell(U, acc), PushTimes(U, acc)
  PROVE  PushesTell(Tail(U), acc) /\ PushTimes(Tail(U), acc)
  <1> DEFINE T == Tail(U)
  <1>1. /\ Len(U) \in Nat \ {0} /\ Len(T) = Len(U) - 1
        /\ \A i \in 1 .. Len(T) : T[i] = U[i + 1] /\ i + 1 \in 1 .. Len(U)
    BY TailFacts
  <1>2. \A i \in 1 .. Len(T) : \A c :
          /\ \A f \in Fields : Quiet(T, i, c, f) <=> Quiet(U, i + 1, c, f)
          /\ Coming(T, i, c) = Coming(U, i + 1, c)
    <2>1. \A i \in 1 .. Len(T) : i \in 0 .. Len(T)
      BY <1>1
    <2> QED
      BY <2>1, TailLater
  <1> HIDE DEF T
  <1>3. PushesTell(T, acc)
    <2> SUFFICES ASSUME NEW i \in 1 .. Len(T), NEW f \in Fields, T[i].kind \in Says[f] \ {"deleted"}, Quiet(T, i, T[i].chat, f)
                 PROVE  ComesTo(f, SaysOf(T[i], f), T, i, T[i].chat, acc[T[i].chat])
      BY DEF PushesTell
    <2>1. T[i] = U[i + 1] /\ i + 1 \in 1 .. Len(U)
      BY <1>1
    <2>2. Quiet(U, i + 1, T[i].chat, f)
      BY <1>2
    <2>3. ComesTo(f, SaysOf(T[i], f), U, i + 1, T[i].chat, acc[T[i].chat])
      BY <2>1, <2>2 DEF PushesTell
    <2> QED
      BY <1>2, <2>3 DEF ComesTo
  <1>4. PushTimes(T, acc)
    <2>1. \A i, n \in 1 .. Len(T) : i < n => i + 1 < n + 1
      OBVIOUS
    <2> QED
      BY <1>1, <2>1 DEF PushTimes
  <1> QED
    BY <1>3, <1>4 DEF T

\* An entry that is told the truth still is when the first push has been written into it.
LEMMA EntryAfterHearing ==
  ASSUME NEW m \in Nat, NEW U \in Seq(PushRec(m)), U # << >>, NEW acc, PushesTell(U, acc), PushTimes(U, acc),
         NEW c \in LiveChats, NEW e \in EntryRec(m), EntryTold(e, U, c, acc[c]), NEW again \in SUBSET Fields
  PROVE  /\ U[1].chat # c \/ ~ (e.held \/ U[1].kind = "changed") => EntryTold(e, Tail(U), c, acc[c])
         /\ U[1].chat = c /\ (e.held \/ U[1].kind = "changed") =>
              EntryTold(Patched(e, U[1], again), Tail(U), c, acc[c])
  <1> DEFINE p == U[1]
             q == Patched(e, U[1], again)
  <1>1. p \in PushRec(m) /\ 1 \in 1 .. Len(U) /\ 0 \in 0 .. Len(Tail(U)) /\ 0 + 1 = 1 /\ Len(U) \in Nat \ {0}
    BY TailFacts
  <1>2. /\ \A f \in Fields : Quiet(Tail(U), 0, c, f) <=> Quiet(U, 1, c, f)
        /\ Coming(Tail(U), 0, c) = Coming(U, 1, c)
    BY <1>1, TailLater
  <1>3. \A f \in Fields : Quiet(U, 1, c, f) /\ (p.chat = c => p.kind \notin Says[f]) => Quiet(U, 0, c, f)
    <2>1. \A n \in Later(U, 0, c) : n \in Later(U, 1, c) \/ (n = 1 /\ p.chat = c)
      BY <1>1 DEF Later
    <2> QED
      BY <2>1 DEF Quiet
  <1>4. e.unread \in Nat
    BY DEF EntryRec
  \* A field the push says.
  <1>5. ASSUME NEW f \in Fields, p.chat = c, p.kind \in Says[f] \ {"deleted"}, Quiet(Tail(U), 0, c, f)
        PROVE  ComesTo(f, SaysOf(p, f), Tail(U), 0, c, acc[c])
    <2>1. ComesTo(f, SaysOf(p, f), U, 1, c, acc[c])
      BY <1>1, <1>2, <1>5 DEF PushesTell
    <2> QED
      BY <1>2, <2>1 DEF ComesTo
  \* A field it does not say.
  <1>6. ASSUME NEW f \in Fields \ e.off, e.held, p.chat = c => p.kind \notin Says[f], Quiet(Tail(U), 0, c, f), NEW w,
               w = IF f = "unread" /\ p.kind = "message" /\ p.chat = c THEN e[f] + 1 ELSE e[f]
        PROVE  ComesTo(f, w, Tail(U), 0, c, acc[c])
    <2>1. ComesTo(f, e[f], U, 0, c, acc[c])
      BY <1>2, <1>3, <1>6 DEF EntryTold
    <2>2. f = "unread" => e[f] \in Nat
      BY <1>4
    <2> QED
      BY <1>6, <2>1, <2>2, ComesAfterTail
  <1>7. ASSUME p.chat # c \/ ~ (e.held \/ p.kind = "changed") PROVE EntryTold(e, Tail(U), c, acc[c])
    BY <1>6, <1>7 DEF EntryTold
  <1>8. ASSUME p.chat = c, e.held \/ p.kind = "changed" PROVE EntryTold(q, Tail(U), c, acc[c])
    <2> SUFFICES ASSUME NEW f \in Fields \ q.off, Quiet(Tail(U), 0, c, f)
                 PROVE  ComesTo(f, q[f], Tail(U), 0, c, acc[c])
      BY DEF EntryTold
    <2>0. PatchShape(q, e, p, again, m)
      BY <1>1, PatchedFacts
    <2>1. p.kind \in Kinds /\ (f = "last" \/ f = "unread" \/ f = "title")
      BY <1>1, SaysFacts DEF PushRec, Kinds
    <2> HIDE DEF q
    <2>2. CASE p.kind \in Says[f] \ {"deleted"}
      <3>1. q[f] = SaysOf(p, f)
        <4>1. CASE f = "last"
          BY <2>0, <2>1, <2>2, <4>1, SaysFacts DEF SaysOf, PatchShape
        <4>2. CASE f = "unread"
          BY <2>0, <2>1, <2>2, <4>2, SaysFacts DEF SaysOf, PatchShape
        <4>3. CASE f = "title"
          BY <2>0, <2>1, <2>2, <4>3, SaysFacts DEF SaysOf, PatchShape
        <4> QED
          BY <2>1, <4>1, <4>2, <4>3
      <3> QED
        BY <1>5, <1>8, <2>2, <3>1
    <2>3. ~ (p.kind = "deleted" /\ p.kind \in Says[f])
      BY <2>0, <2>1, SaysFacts DEF PatchShape
    <2>4. CASE p.kind \notin Says[f]
      <3>1. e.held /\ p.kind # "changed"
        BY <1>8, <2>4, SaysFacts
      <3>2. f \notin e.off /\ q[f] = IF f = "unread" /\ p.kind = "message" THEN e[f] + 1 ELSE e[f]
        <4>1. CASE f = "last"
          BY <2>0, <2>1, <2>4, <4>1, SaysFacts DEF Kinds, PatchShape
        <4>2. CASE f = "unread"
          BY <2>0, <2>1, <2>4, <4>2, SaysFacts DEF Kinds, PatchShape
        <4>3. CASE f = "title"
          BY <2>0, <3>1, <4>3 DEF PatchShape
        <4> QED
          BY <2>1, <4>1, <4>2, <4>3
      <3> QED
        BY <1>6, <1>8, <2>4, <3>1, <3>2
    <2> QED
      BY <2>2, <2>3, <2>4
  <1> QED
    BY <1>7, <1>8

\* So is one that another connection writes a push into that is still on its way to its own.
LEMMA EntryPatchedAhead ==
  ASSUME NEW m \in Nat, NEW U \in Seq(PushRec(m)), NEW n \in 1 .. Len(U), U[n].kind # "changed",
         NEW now, NEW e \in EntryRec(m), EntryTold(e, U, U[n].chat, now), e.held
  PROVE  EntryTold(Patched(e, U[n], {"unread"}), U, U[n].chat, now)
  <1> DEFINE p == U[n]
             c == U[n].chat
             q == Patched(e, U[n], {"unread"})
  <1>1. p \in PushRec(m) /\ n \in Later(U, 0, c) /\ {"unread"} \in SUBSET Fields
    BY DEF Later, Fields
  <1>2. PatchShape(q, e, p, {"unread"}, m)
    BY <1>1, PatchedFacts
  <1>3. p.kind \in Kinds \ {"changed"}
    BY <1>1 DEF PushRec, Kinds
  <1> HIDE DEF q
  <1>4. ASSUME NEW f \in Fields \ q.off, Quiet(U, 0, c, f) PROVE ComesTo(f, q[f], U, 0, c, now)
    <2>1. p.kind \notin Says[f]
      BY <1>1, <1>4 DEF Quiet
    <2>2. f \notin e.off /\ q[f] = e[f]
      <3>1. CASE f = "last"
        BY <1>2, <1>3, <1>4, <2>1, <3>1, SaysFacts DEF Kinds, PatchShape
      <3>2. CASE f = "unread"
        BY <1>2, <1>3, <1>4, <2>1, <3>2, SaysFacts DEF Kinds, PatchShape
      <3>3. CASE f = "title"
        BY <1>2, <1>3, <1>4, <3>3 DEF PatchShape
      <3> QED
        BY <3>1, <3>2, <3>3, SaysFacts
    <2> QED
      BY <1>4, <2>2 DEF EntryTold
  <1>5. EntryTold(q, U, c, now)
    BY <1>4 DEF EntryTold
  <1> QED
    BY <1>5 DEF q

\* The newest event of a list.
LEMMA NewestFacts ==
  ASSUME NEW m \in Nat, NEW list \in [LiveChats -> EntryRec(m)], NEW c \in LiveChats
  PROVE  /\ Newest(list) \in 0 .. m /\ (\E d \in LiveChats : Newest(list) = list[d].time)
         /\ \A d \in LiveChats : list[d].time <= Newest(list)
  <1> DEFINE S == { list[d].time : d \in LiveChats }
  <1>1. \A d \in LiveChats : list[d] \in EntryRec(m)
    OBVIOUS
  <1>2. \A d \in LiveChats : list[d].time \in 0 .. m /\ list[d].time \in S
    BY <1>1 DEF EntryRec
  <1>3. S \subseteq Nat /\ S # {} /\ \A x \in S : x <= m /\ x \in 0 .. m
    BY <1>2
  <1>4. \A x \in S : \E d \in LiveChats : x = list[d].time
    OBVIOUS
  <1>5. Newest(list) = Max(S)
    BY DEF Newest
  <1> HIDE DEF S
  <1>6. Max(S) \in S /\ \A x \in S : x <= Max(S)
    BY <1>3, GreatestOf
  <1> QED
    BY <1>2, <1>3, <1>4, <1>5, <1>6

\* What an entry and nothing on its way to it mean.
LEMMA AgreesWhenHeard ==
  ASSUME NEW m \in Nat, NEW U \in Seq(PushRec(m)), NEW c, NEW e \in EntryRec(m), NEW now \in AccountRec(m),
         EntryTold(e, U, c, now), \A i \in 1 .. Len(U) : U[i].chat = c => U[i].kind = "edited"
  PROVE  Agrees(e, now)
  <1>1. \A n \in Later(U, 0, c) : U[n].kind = "edited"
    BY DEF Later
  <1>2. Coming(U, 0, c) = {} /\ \A f \in Fields : Quiet(U, 0, c, f)
    BY <1>1, SaysFacts DEF Coming, Quiet
  <1>3. Cardinality(Coming(U, 0, c)) = 0
    BY <1>2, FS_EmptySet
  <1>4. e.unread \in Nat /\ now.unread \in Nat
    BY DEF EntryRec, AccountRec
  <1>5. \A f \in Fields : ComesTo(f, e[f], U, 0, c, now) => e[f] = now[f]
    BY <1>3, <1>4, SaysFacts DEF ComesTo
  <1> QED
    BY <1>2, <1>5 DEF EntryTold, Agrees

LEMMA ToldWhenFresh ==
  ASSUME NEW m \in Nat, NEW U \in Seq(PushRec(m)), NEW c, NEW e \in EntryRec(m), NEW now \in AccountRec(m), Agrees(e, now),
         "unread" \notin e.off => Coming(U, 0, c) = {}
  PROVE  EntryTold(e, U, c, now)
  <1>1. Cardinality({}) = 0
    BY FS_EmptySet
  <1>2. e.unread \in Nat /\ now.unread \in Nat
    BY DEF EntryRec, AccountRec
  <1>3. ASSUME NEW f \in Fields \ e.off, e.held PROVE ComesTo(f, e[f], U, 0, c, now)
    <2>1. e[f] = now[f]
      BY <1>3 DEF Agrees
    <2>2. CASE f = "unread"
      <3>1. Coming(U, 0, c) = {}
        BY <1>3, <2>2
      <3>2. Cardinality(Coming(U, 0, c)) = 0
        BY <1>1, <3>1
      <3>3. e.unread + 0 = now.unread
        BY <1>2, <2>1, <2>2
      <3> QED
        BY <2>2, <3>2, <3>3 DEF ComesTo
    <2>3. CASE f # "unread"
      BY <2>1, <2>3 DEF ComesTo
    <2> QED
      BY <2>2, <2>3
  <1> QED
    BY <1>3 DEF EntryTold

LEMMA NothingUnheard ==
  ASSUME NEW acc
  PROVE  /\ PushesTell(<< >>, acc) /\ PushTimes(<< >>, acc) /\ Len(<< >>) = 0
         /\ \A c : Coming(<< >>, 0, c) = {} /\ \A R : << >> \in Seq(R)
  <1>1. Len(<< >>) = 0 /\ 1 .. 0 = {} /\ (0 + 1) .. 0 = {}
    OBVIOUS
  <1> QED
    BY <1>1 DEF PushesTell, PushTimes, Coming, Later

\* A chat as MAX answers it.
LEMMA AnsweredEntry ==
  ASSUME NEW m \in Nat, account \in [LiveChats -> AccountRec(m)], NEW c \in LiveChats, NEW off \in SUBSET Fields
  PROVE  LET e == [Entry(c) EXCEPT !.off = off] IN
         /\ Entry(c) \in EntryRec(m) /\ Entry(c).held /\ Agrees(Entry(c), account[c])
         /\ e \in EntryRec(m) /\ e.off = off /\ e.held /\ Agrees(e, account[c])
  <1>1. account[c] \in AccountRec(m)
    OBVIOUS
  <1>2. account[c].last \in 0 .. m /\ account[c].time \in 0 .. m /\ account[c].unread \in Nat /\ account[c].title \in 0 .. m
    BY <1>1 DEF AccountRec
  <1>3. Entry(c) \in EntryRec(m)
    BY <1>2 DEF Entry, EntryRec
  <1>4. Entry(c).held /\ Entry(c).last = account[c].last /\ Entry(c).unread = account[c].unread /\ Entry(c).title = account[c].title
    BY DEF Entry
  <1> DEFINE e == [Entry(c) EXCEPT !.off = off]
  <1>5. e \in EntryRec(m) /\ e.off = off /\ e.held /\ e.last = account[c].last /\ e.unread = account[c].unread
        /\ e.title = account[c].title
    BY <1>3, <1>4 DEF EntryRec
  <1> HIDE DEF e
  <1>6. Agrees(Entry(c), account[c])
    BY <1>4, SaysFacts DEF Agrees
  <1>7. Agrees(e, account[c])
    BY <1>5, SaysFacts DEF Agrees
  <1> QED
    BY <1>3, <1>4, <1>5, <1>6, <1>7 DEF e

LEMMA NotHeldFacts ==
  ASSUME NEW m \in Nat
  PROVE  NotHeld \in EntryRec(m) /\ NoChats \in [LiveChats -> EntryRec(m)] /\ ~NotHeld.held /\ NotHeld.off = {}
         /\ \A now : Agrees(NotHeld, now)
  <1>1. NotHeld \in EntryRec(m) /\ ~NotHeld.held /\ NotHeld.off = {}
    BY DEF NotHeld, EntryRec
  <1> QED
    BY <1>1 DEF NoChats, Agrees

LEMMA LiveInvInit == LiveInit => LiveInv
  <1> SUFFICES ASSUME LiveInit PROVE LiveInv
    OBVIOUS
  <1>1. moment \in 0 .. MaxMoments /\ since \in 0 .. moment /\ moment \in Nat /\ moment = 0
    BY LiveAssumption DEF LiveInit
  <1>2. account \in [LiveChats -> AccountRec(moment)]
    BY <1>1 DEF LiveInit, AccountRec
  <1>3. chats \in [Logins -> [LiveChats -> EntryRec(moment)]] /\ resume \in [LiveChats -> EntryRec(moment)]
    BY <1>1, NotHeldFacts DEF LiveInit
  <1>4. unheard \in [Logins -> Seq(PushRec(moment))] /\ \A k \in Logins : unheard[k] = << >>
    BY NothingUnheard DEF LiveInit
  <1>5. \A k \in Logins : link[k] = "none"
    BY DEF LiveInit
  <1>6. LiveTyped
    BY <1>1, <1>2, <1>3, <1>4 DEF LiveInit, LiveTyped
  <1>7. LinksHeld
    BY <1>4, <1>5 DEF LinksHeld, ComingUp, TakesPushes, LiveInit, NoClient, Logins
  <1>8. AllTold
    BY <1>4, <1>5, NothingUnheard DEF AllTold, TakesPushes
  <1>9. LoginStartsTrue /\ SharedTold
    BY <1>5 DEF LoginStartsTrue, SharedTold
  <1>10. ResumeTrue
    BY <1>1, NotHeldFacts DEF ResumeTrue, LiveInit, NoChats
  <1> QED
    BY <1>6, <1>7, <1>8, <1>9, <1>10 DEF LiveInv

\* Whatever happens in the account is pushed to every connection that has logged in.
EventPushed(p) ==
  /\ p \in PushRec(moment + 1) /\ moment + 1 <= MaxMoments /\ moment' = moment + 1
  /\ account' \in [LiveChats -> AccountRec(moment + 1)] /\ NewPush(p, account, account', moment)
  /\ unheard' = [k \in Logins |-> IF TakesPushes(k) THEN Append(unheard[k], p) ELSE unheard[k]]
  /\ UNCHANGED << link, chats, shared, serving, resume, since >>

LEMMA PushTyped ==
  ASSUME LiveTyped, NEW c \in LiveChats, NEW kind \in Kinds
  PROVE  /\ Push(kind, c) \in PushRec(moment + 1)
         /\ Push(kind, c).kind = kind /\ Push(kind, c).chat = c /\ Push(kind, c).at = moment + 1
  <1>1. moment + 1 \in Nat /\ moment + 1 \in 1 .. moment + 1
    BY LiveAssumption DEF LiveTyped
  <1>2. NotHeld \in EntryRec(moment + 1)
    BY <1>1, NotHeldFacts
  <1> QED
    BY <1>1, <1>2 DEF Push, PushRec, Kinds

LEMMA OccursPushes ==
  ASSUME LiveTyped, NEW c \in LiveChats, NEW now \in AccountRec(moment + 1), NEW p \in PushRec(moment + 1), p.chat = c,
         p.kind # "edited" => p.at = moment + 1, Occurs(c, now, p), Happened(p, account[c], now)
  PROVE  EventPushed(p)
  <1>1. moment \in Nat /\ moment + 1 \in Nat /\ moment + 1 <= MaxMoments /\ account \in [LiveChats -> AccountRec(moment + 1)]
        /\ moment + 1 \in 0 .. moment + 1
    <2>1. moment \in Nat /\ MaxMoments \in Nat /\ moment < MaxMoments
      BY LiveAssumption DEF LiveTyped, Occurs
    <2>2. account \in [LiveChats -> AccountRec(moment + 1)]
      BY <2>1, LiveRecordsGrow DEF LiveTyped
    <2> QED
      BY <2>1, <2>2
  <1> DEFINE new == [now EXCEPT !.changed = moment + 1]
  <1>2. new \in AccountRec(moment + 1) /\ new.changed = moment + 1 /\ \A f \in Fields : new[f] = now[f]
    BY <1>1, SaysFacts DEF AccountRec
  <1>3. account' = [account EXCEPT ![c] = new]
    BY DEF Occurs
  <1> HIDE DEF new
  <1>4. account' \in [LiveChats -> AccountRec(moment + 1)] /\ account'[c] = new
        /\ \A d \in LiveChats \ {c} : account'[d] = account[d]
    BY <1>1, <1>2, <1>3
  <1>5. Happened(p, account[c], new)
    BY <1>2 DEF Happened
  <1>6. NewPush(p, account, account', moment)
    BY <1>2, <1>4, <1>5 DEF NewPush
  <1> QED
    BY <1>1, <1>4, <1>6 DEF EventPushed, Occurs

LEMMA EventIsPushed ==
  ASSUME LiveTyped, NEW c \in LiveChats, InAccount(c)
  PROVE  \E p : EventPushed(p)
  <1>0. moment \in Nat /\ moment + 1 \in 1 .. moment + 1 /\ moment + 1 \in 0 .. moment + 1 /\ 0 \in 0 .. moment + 1
        /\ account[c] \in AccountRec(moment) /\ account[c] \in AccountRec(moment + 1)
    <2>1. moment \in Nat /\ account[c] \in AccountRec(moment)
      BY LiveAssumption DEF LiveTyped
    <2> QED
      BY <2>1, LiveRecordsGrow
  <1>1. account[c].unread \in 0 .. moment /\ account[c].unread + 1 \in 0 .. moment + 1 /\ account[c].last \in 0 .. moment
    BY <1>0 DEF AccountRec
  <1>2. NotHeld \in EntryRec(moment + 1) /\ Kinds = {"message", "ours", "read", "changed", "deleted", "edited"}
    <2>1. moment + 1 \in Nat
      BY <1>0
    <2> QED
      BY <2>1, NotHeldFacts DEF Kinds
  <1>3. ASSUME NEW ours \in BOOLEAN, Message(c, ours) PROVE \E p : EventPushed(p)
    <2> DEFINE now == [account[c] EXCEPT !.last = moment + 1, !.time = moment + 1, !.unread = IF ours THEN 0 ELSE @ + 1]
               kind == IF ours THEN "ours" ELSE "message"
               p == Push(kind, c)
    <2>1. (IF ours THEN 0 ELSE account[c].unread + 1) \in 0 .. moment + 1
      BY <1>0, <1>1
    <2>2. now \in AccountRec(moment + 1) /\ now.last = moment + 1 /\ now.title = account[c].title
          /\ now.unread = IF ours THEN 0 ELSE account[c].unread + 1
      BY <1>0, <2>1 DEF AccountRec
    <2>3. p \in PushRec(moment + 1) /\ p.kind = kind /\ p.chat = c /\ p.at = moment + 1
      BY <1>2, PushTyped
    <2>4. Occurs(c, now, p)
      BY <1>3 DEF Message
    <2> HIDE DEF now, p
    <2>5. Happened(p, account[c], now)
      <3>1. CASE ours
        <4>1. p.kind = "ours"
          BY <2>3, <3>1
        <4> QED
          BY <2>2, <2>3, <3>1, <4>1, SaysFacts DEF Happened, SaysOf
      <3>2. CASE ~ours
        <4>1. p.kind = "message"
          BY <2>3, <3>2
        <4> QED
          BY <2>2, <2>3, <3>2, <4>1, SaysFacts DEF Happened, SaysOf
      <3> QED
        BY <3>1, <3>2
    <2> QED
      BY <2>2, <2>3, <2>4, <2>5, OccursPushes
  <1>4. ASSUME ReadOnPhone(c) PROVE \E p : EventPushed(p)
    <2> DEFINE now == [account[c] EXCEPT !.unread = 0]
               p == Push("read", c)
    <2>1. now \in AccountRec(moment + 1) /\ now.last = account[c].last /\ now.title = account[c].title /\ now.unread = 0
      BY <1>0 DEF AccountRec
    <2>2. p \in PushRec(moment + 1) /\ p.kind = "read" /\ p.chat = c /\ p.at = moment + 1
      BY <1>2, PushTyped
    <2>3. Occurs(c, now, p)
      BY <1>4 DEF ReadOnPhone
    <2> HIDE DEF now, p
    <2>4. Happened(p, account[c], now)
      BY <2>1, <2>2, SaysFacts DEF Happened, SaysOf
    <2> QED
      BY <2>1, <2>2, <2>3, <2>4, OccursPushes
  <1>5. ASSUME ChatChanged(c) PROVE \E p : EventPushed(p)
    <2> DEFINE now == [account[c] EXCEPT !.title = moment + 1]
               whole == [Entry(c) EXCEPT !.title = moment + 1]
               p == [Push("changed", c) EXCEPT !.whole = whole]
    <2>1. now \in AccountRec(moment + 1) /\ now.last = account[c].last /\ now.title = moment + 1
          /\ now.unread = account[c].unread
      BY <1>0 DEF AccountRec
    <2>2. whole \in EntryRec(moment + 1) /\ whole.last = account[c].last /\ whole.title = moment + 1
          /\ whole.unread = account[c].unread
      <3>1. account[c].last \in 0 .. moment + 1 /\ account[c].time \in 0 .. moment + 1 /\ account[c].title \in 0 .. moment + 1
            /\ account[c].unread \in Nat
        BY <1>0 DEF AccountRec
      <3> QED
        BY <1>0, <3>1 DEF Entry, EntryRec
    <2> HIDE DEF whole
    <2>3. p \in PushRec(moment + 1) /\ p.kind = "changed" /\ p.chat = c /\ p.at = moment + 1 /\ p.whole = whole
      <3>1. Push("changed", c) \in PushRec(moment + 1) /\ Push("changed", c).kind = "changed"
            /\ Push("changed", c).chat = c /\ Push("changed", c).at = moment + 1
        BY <1>2, PushTyped
      <3> QED
        BY <2>2, <3>1 DEF PushRec
    <2>4. Occurs(c, now, p)
      BY <1>5 DEF ChatChanged, whole
    <2> HIDE DEF now, p
    <2>5. Happened(p, account[c], now)
      BY <2>1, <2>2, <2>3, SaysFacts DEF Happened, SaysOf
    <2> QED
      BY <2>1, <2>3, <2>4, <2>5, OccursPushes
  <1>6. ASSUME Deletion(c) PROVE \E p : EventPushed(p)
    <2> DEFINE now == [account[c] EXCEPT !.last = 0, !.unread = 0]
               p == Push("deleted", c)
    <2>1. now \in AccountRec(moment + 1) /\ now.title = account[c].title
      BY <1>0 DEF AccountRec
    <2>2. p \in PushRec(moment + 1) /\ p.kind = "deleted" /\ p.chat = c /\ p.at = moment + 1
      BY <1>2, PushTyped
    <2>3. Occurs(c, now, p)
      BY <1>6 DEF Deletion
    <2> HIDE DEF now, p
    <2>4. Happened(p, account[c], now)
      BY <2>1, <2>2, SaysFacts DEF Happened
    <2> QED
      BY <2>1, <2>2, <2>3, <2>4, OccursPushes
  <1>7. ASSUME NEW when \in 1 .. MaxMoments, MessageEdited(c, when) PROVE \E p : EventPushed(p)
    <2> DEFINE p == [Push("edited", c) EXCEPT !.at = when]
    <2>1. when \in 1 .. moment + 1
      BY <1>0, <1>1, <1>7 DEF MessageEdited
    <2>2. p \in PushRec(moment + 1) /\ p.kind = "edited" /\ p.chat = c
      <3>1. Push("edited", c) \in PushRec(moment + 1) /\ Push("edited", c).kind = "edited" /\ Push("edited", c).chat = c
        BY <1>2, PushTyped
      <3> QED
        BY <2>1, <3>1 DEF PushRec
    <2>3. Occurs(c, account[c], p)
      BY <1>7 DEF MessageEdited
    <2> HIDE DEF p
    <2>4. Happened(p, account[c], account[c])
      BY <2>2, SaysFacts DEF Happened
    <2> QED
      BY <1>0, <2>2, <2>3, <2>4, OccursPushes
  <1> QED
    BY <1>3, <1>4, <1>5, <1>6, <1>7 DEF InAccount

LEMMA LiveTypedStep ==
  ASSUME LiveTyped
  PROVE  /\ moment \in Nat
         /\ \A k \in Logins, c \in LiveChats : chats[k][c] \in EntryRec(moment) /\ account[c] \in AccountRec(moment)
         /\ \A k \in Logins : unheard[k] \in Seq(PushRec(moment)) /\ Len(unheard[k]) \in Nat
         /\ \A k \in Logins : \A i \in 1 .. Len(unheard[k]) : unheard[k][i] \in PushRec(moment) /\ unheard[k][i].chat \in LiveChats
         /\ \A c \in LiveChats : account[c].changed \in 0 .. moment /\ since \in 0 .. moment
  <1>1. \A k \in Logins : \A i \in 1 .. Len(unheard[k]) : unheard[k][i] \in PushRec(moment)
    BY DEF LiveTyped
  <1>2. moment \in Nat
    BY LiveAssumption DEF LiveTyped
  <1>3. \A k \in Logins : \A i \in 1 .. Len(unheard[k]) : unheard[k][i].chat \in LiveChats
    BY <1>1 DEF PushRec
  <1>4. \A c \in LiveChats : account[c] \in AccountRec(moment)
    BY DEF LiveTyped
  <1>5. \A c \in LiveChats : account[c].changed \in 0 .. moment
    BY <1>4 DEF AccountRec
  <1> QED
    BY <1>1, <1>2, <1>3, <1>4, <1>5 DEF LiveTyped

LEMMA EventInv ==
  ASSUME LiveInv, NEW p, EventPushed(p)
  PROVE  LiveInv'
  <1> DEFINE acc == account'
  <1>0. /\ LiveTyped /\ LinksHeld /\ AllTold /\ LoginStartsTrue /\ ResumeTrue /\ SharedTold
        /\ moment \in Nat /\ moment + 1 \in Nat
        /\ \A k \in Logins, c \in LiveChats : chats[k][c] \in EntryRec(moment)
        /\ \A k \in Logins : unheard[k] \in Seq(PushRec(moment)) /\ Len(unheard[k]) \in Nat
        /\ account \in [LiveChats -> AccountRec(moment)]
    <2>1. LiveTyped
      BY DEF LiveInv
    <2>2. moment \in Nat /\ moment + 1 \in Nat
      BY <2>1, LiveTypedStep
    <2> QED
      BY <2>1, <2>2, LiveTypedStep DEF LiveInv, LiveTyped
  <1>1. /\ p \in PushRec(moment + 1) /\ NewPush(p, account, acc, moment) /\ p.chat \in LiveChats
        /\ acc \in [LiveChats -> AccountRec(moment + 1)] /\ moment' = moment + 1 /\ acc[p.chat].changed = moment + 1
        /\ UNCHANGED << link, chats, shared, serving, resume, since >>
        /\ \A c \in LiveChats \ {p.chat} : acc[c] = account[c]
    BY DEF EventPushed, NewPush
  <1>2. \A k \in Logins : unheard'[k] = IF TakesPushes(k) THEN Append(unheard[k], p) ELSE unheard[k]
    BY DEF EventPushed
  <1>3. \A k \in Logins : TakesPushes(k)' <=> TakesPushes(k)
    BY <1>1 DEF TakesPushes
  <1>4. acc[p.chat].unread \in Nat
    <2>1. acc[p.chat] \in AccountRec(moment + 1)
      BY <1>1
    <2> QED
      BY <2>1 DEF AccountRec
  <1>5. LiveTyped'
    <2>1. moment' \in 0 .. MaxMoments /\ since' \in 0 .. moment'
      BY <1>0, <1>1 DEF EventPushed, LiveTyped
    <2>2. \A k \in Logins : unheard'[k] \in Seq(PushRec(moment + 1))
      <3>1. \A k \in Logins : unheard[k] \in Seq(PushRec(moment + 1))
        BY <1>0, LiveRecordsGrow
      <3> QED
        BY <1>1, <1>2, <3>1, AppendFacts
    <2>3. unheard' \in [Logins -> Seq(PushRec(moment'))]
      BY <1>1, <2>2 DEF EventPushed
    <2>4. chats' \in [Logins -> [LiveChats -> EntryRec(moment')]] /\ resume' \in [LiveChats -> EntryRec(moment')]
      BY <1>0, <1>1, LiveRecordsGrow DEF LiveTyped
    <2> QED
      BY <1>0, <1>1, <2>1, <2>3, <2>4 DEF LiveTyped
  <1>6. LinksHeld'
    BY <1>0, <1>1, <1>2, <1>3 DEF LinksHeld, ComingUp
  <1>7. AllTold'
    <2> SUFFICES ASSUME NEW k \in Logins
                 PROVE  /\ PushesTell(unheard'[k], acc) /\ PushTimes(unheard'[k], acc)
                        /\ TakesPushes(k)' => \A c \in LiveChats : EntryTold(chats'[k][c], unheard'[k], c, acc[c])
      BY DEF AllTold
    <2>1. CASE TakesPushes(k)
      <3>1. PushesTell(unheard'[k], acc) /\ PushTimes(unheard'[k], acc)
        BY <1>0, <1>1, <1>2, <1>4, <2>1, PushesAfterAppend DEF AllTold
      <3>2. \A c \in LiveChats : EntryTold(chats[k][c], unheard'[k], c, acc[c])
        BY <1>0, <1>1, <1>2, <2>1, EntryAfterAppend DEF AllTold
      <3> QED
        BY <1>1, <3>1, <3>2
    <2>2. CASE ~TakesPushes(k)
      <3>1. unheard'[k] = << >>
        BY <1>0, <1>2, <2>2 DEF LinksHeld
      <3> QED
        BY <1>3, <2>2, <3>1, NothingUnheard
    <2> QED
      BY <2>1, <2>2
  <1>8. \A c \in LiveChats : \A t \in 0 .. moment : acc[c].changed <= t => c # p.chat /\ acc[c] = account[c]
    BY <1>0, <1>1
  <1>9. LoginStartsTrue'
    <2> SUFFICES ASSUME NEW k \in Logins, link[k] = "login"
                 PROVE  /\ \A c \in LiveChats : acc[c].changed <= since => Agrees(chats[k][c], acc[c])
                        /\ \A c \in shared : chats[k][c].held
                        /\ serving # NoClient =>
                             \A i \in 1 .. Len(unheard'[serving]) : acc[unheard'[serving][i].chat].changed > since
      BY <1>1 DEF LoginStartsTrue
    <2>1. since \in 0 .. moment
      BY <1>0 DEF LiveTyped
    <2>2. \A c \in LiveChats : acc[c].changed <= since => Agrees(chats[k][c], acc[c])
      BY <1>0, <1>8, <2>1 DEF LoginStartsTrue
    <2>3. ASSUME serving # NoClient, NEW i \in 1 .. Len(unheard'[serving])
          PROVE  acc[unheard'[serving][i].chat].changed > since
      <3>1. serving \in Logins /\ TakesPushes(serving)
        BY <1>0, <2>3 DEF LiveTyped, LinksHeld, TakesPushes
      <3>2. moment + 1 > since
        BY <1>0, <2>1
      <3>6. unheard'[serving] = Append(unheard[serving], p) /\ unheard[serving] \in Seq(PushRec(moment + 1))
        BY <1>0, <1>2, <3>1, LiveRecordsGrow
      <3>3. CASE i \in 1 .. Len(unheard[serving])
        <4>1. unheard'[serving][i] = unheard[serving][i] /\ unheard[serving][i].chat \in LiveChats
          BY <1>0, <1>1, <3>1, <3>3, <3>6, LiveTypedStep, AppendFacts
        <4>2. account[unheard[serving][i].chat].changed > since
          BY <1>0, <2>3, <3>3 DEF LoginStartsTrue
        <4> QED
          BY <1>1, <3>2, <4>1, <4>2
      <3>4. CASE i = Len(unheard[serving]) + 1
        <4>1. unheard'[serving][i] = p
          BY <1>0, <1>1, <3>4, <3>6, AppendFacts
        <4> QED
          BY <1>1, <3>2, <4>1
      <3>5. i \in 1 .. Len(unheard[serving]) \/ i = Len(unheard[serving]) + 1
        BY <1>0, <1>1, <3>6, AppendFacts
      <3> QED
        BY <3>3, <3>4, <3>5
    <2> QED
      BY <1>0, <2>2, <2>3 DEF LoginStartsTrue
  <1>10. ResumeTrue'
    <2> SUFFICES ASSUME serving = NoClient, NEW c \in LiveChats, NEW d \in LiveChats, acc[c].changed <= resume[d].time
                 PROVE  Agrees(resume[c], acc[c])
      BY <1>1 DEF ResumeTrue
    <2>1. resume[d].time \in 0 .. moment
      <3>1. resume[d] \in EntryRec(moment)
        BY <1>0 DEF LiveTyped
      <3> QED
        BY <3>1 DEF EntryRec
    <2> QED
      BY <1>0, <1>8, <2>1 DEF ResumeTrue
  <1>11. SharedTold'
    <2> SUFFICES ASSUME NEW k \in Logins, link[k] \in {"rest", "ready"}, serving # NoClient,
                        NEW i \in 1 .. Len(unheard'[serving]), unheard'[serving][i].chat \in shared
                 PROVE  \E n \in 1 .. Len(unheard'[k]) : unheard'[k][n] = unheard'[serving][i]
      BY <1>1 DEF SharedTold
    <2>1. serving \in Logins /\ TakesPushes(serving) /\ TakesPushes(k)
      BY <1>0 DEF LiveTyped, LinksHeld, TakesPushes
    <2>2. /\ unheard'[k] = Append(unheard[k], p) /\ unheard'[serving] = Append(unheard[serving], p)
          /\ unheard[k] \in Seq(PushRec(moment + 1)) /\ unheard[serving] \in Seq(PushRec(moment + 1))
      BY <1>0, <1>2, <2>1, LiveRecordsGrow
    <2>3. CASE i \in 1 .. Len(unheard[serving])
      <3>1. unheard'[serving][i] = unheard[serving][i]
        BY <1>1, <2>2, <2>3, AppendFacts
      <3>2. PICK n \in 1 .. Len(unheard[k]) : unheard[k][n] = unheard[serving][i]
        BY <1>0, <2>3, <3>1 DEF SharedTold
      <3>3. n \in 1 .. Len(unheard'[k]) /\ unheard'[k][n] = unheard[k][n]
        BY <1>0, <1>1, <2>2, <3>2, AppendFacts
      <3> QED
        BY <3>1, <3>2, <3>3
    <2>4. CASE i = Len(unheard[serving]) + 1
      <3>1. unheard'[serving][i] = p /\ unheard'[k][Len(unheard[k]) + 1] = p /\ Len(unheard[k]) + 1 \in 1 .. Len(unheard'[k])
        BY <1>0, <1>1, <2>2, <2>4, AppendFacts
      <3> QED
        BY <3>1
    <2>5. i \in 1 .. Len(unheard[serving]) \/ i = Len(unheard[serving]) + 1
      BY <1>0, <1>1, <2>1, <2>2, AppendFacts
    <2> QED
      BY <2>3, <2>4, <2>5
  <1> QED
    BY <1>5, <1>6, <1>7, <1>9, <1>10, <1>11 DEF LiveInv

\* The facts every step is taken from.
LiveNow ==
  /\ LiveTyped /\ LinksHeld /\ AllTold /\ LoginStartsTrue /\ ResumeTrue /\ SharedTold
  /\ moment \in Nat /\ account \in [LiveChats -> AccountRec(moment)] /\ chats \in [Logins -> [LiveChats -> EntryRec(moment)]]
  /\ unheard \in [Logins -> Seq(PushRec(moment))] /\ resume \in [LiveChats -> EntryRec(moment)]
  /\ \A k \in Logins, c \in LiveChats : chats[k][c] \in EntryRec(moment) /\ account[c] \in AccountRec(moment)
  /\ \A c \in LiveChats : account[c].changed \in 0 .. moment
  /\ since \in 0 .. moment /\ NoClient \notin Logins

LEMMA LiveIsNow == LiveInv => LiveNow
  <1> SUFFICES ASSUME LiveInv PROVE LiveNow
    OBVIOUS
  <1>1. LiveTyped
    BY DEF LiveInv
  <1>2. NoClient \notin Logins
    BY DEF NoClient, Logins
  <1> QED
    BY <1>1, <1>2, LiveTypedStep DEF LiveInv, LiveNow, LiveTyped

\* The server hears what was pushed, and writes it into its list and into what a login shares with it.
WritesTo(j, c, k, p) ==
  /\ c = p.chat /\ (j = k \/ (c \in shared /\ p.kind # "changed" /\ ComingUp(j)))
  /\ chats[j][c].held \/ p.kind = "changed"

WrittenTo(k, p, again) ==
  /\ \A j \in Logins, c \in LiveChats : WritesTo(j, c, k, p) => chats'[j][c] = Patched(chats[j][c], p, again)
  /\ \A j \in Logins : ComingUp(j) /\ TakesPushes(j) /\ p.chat \in shared /\ p.kind # "changed" => again = {"unread"}

LEMMA PatchWrites ==
  ASSUME LiveNow, NEW k \in Logins, Hears(k), NEW p, p = unheard[k][1]
  PROVE  /\ p \in PushRec(moment) /\ p.chat \in LiveChats
         /\ chats' \in [Logins -> [LiveChats -> EntryRec(moment)]]
         /\ \A j \in Logins, c \in LiveChats : ~ WritesTo(j, c, k, p) => chats'[j][c] = chats[j][c]
         /\ \E again \in SUBSET Fields : WrittenTo(k, p, again)
         /\ shared' \subseteq shared
  <1> DEFINE next == { j \in Logins : link[j] \in {"login", "rest", "ready"} }
             both == p.chat \in shared /\ p.kind # "changed"
             again == IF both /\ \E j \in next : TakesPushes(j) THEN {"unread"} ELSE {}
  <1>1. p \in PushRec(moment) /\ p.chat \in LiveChats /\ Head(unheard[k]) = p
    <2>1. unheard[k] \in Seq(PushRec(moment)) /\ unheard[k] # << >>
      BY DEF LiveNow, Hears
    <2>2. p \in PushRec(moment) /\ Head(unheard[k]) = p
      BY <2>1, TailFacts
    <2> QED
      BY <2>2 DEF PushRec
  <1>2. Patch(k, p)
    BY <1>1 DEF Hears
  <1>3. again \in SUBSET Fields
    BY DEF Fields
  <1>4. /\ chats' = [j \in Logins |->
             IF (j = k \/ (both /\ j \in next)) /\ (chats[j][p.chat].held \/ p.kind = "changed")
             THEN [chats[j] EXCEPT ![p.chat] = Patched(@, p, again)] ELSE chats[j]]
        /\ shared' = IF p.kind = "changed" THEN shared \ {p.chat} ELSE shared
    BY <1>2 DEF Patch
  <1>5. \A j \in Logins : ComingUp(j) <=> j \in next
    BY DEF ComingUp
  <1>6. \A j \in Logins : chats[j] \in [LiveChats -> EntryRec(moment)]
    BY DEF LiveNow
  <1>7. \A j \in Logins, c \in LiveChats : Patched(chats[j][c], p, again) \in EntryRec(moment)
    <2> HIDE DEF again
    <2>1. moment \in Nat
      BY DEF LiveNow
    <2>2. ASSUME NEW j \in Logins, NEW c \in LiveChats PROVE PatchShape(Patched(chats[j][c], p, again), chats[j][c], p, again, moment)
      BY <1>1, <1>3, <1>6, <2>1, PatchedFacts
    <2> QED
      BY <2>2 DEF PatchShape
  <1>8. \A j \in Logins : ComingUp(j) /\ TakesPushes(j) /\ both => again = {"unread"}
    BY <1>5
  <1> HIDE DEF next, again
  <1>9. \A j \in Logins, c \in LiveChats :
          chats'[j][c] = IF WritesTo(j, c, k, p) THEN Patched(chats[j][c], p, again) ELSE chats[j][c]
    <2> SUFFICES ASSUME NEW j \in Logins, NEW c \in LiveChats
                 PROVE  chats'[j][c] = IF WritesTo(j, c, k, p) THEN Patched(chats[j][c], p, again) ELSE chats[j][c]
      OBVIOUS
    <2>1. CASE (j = k \/ (both /\ j \in next)) /\ (chats[j][p.chat].held \/ p.kind = "changed")
      <3>1. chats'[j] = [chats[j] EXCEPT ![p.chat] = Patched(@, p, again)]
        BY <1>4, <2>1
      <3> QED
        BY <1>5, <1>6, <2>1, <3>1 DEF WritesTo
    <2>2. CASE ~((j = k \/ (both /\ j \in next)) /\ (chats[j][p.chat].held \/ p.kind = "changed"))
      BY <1>4, <1>5, <2>2 DEF WritesTo
    <2> QED
      BY <2>1, <2>2
  <1>10. chats' \in [Logins -> [LiveChats -> EntryRec(moment)]]
    BY <1>1, <1>4, <1>6, <1>7
  <1>11. WrittenTo(k, p, again)
    BY <1>8, <1>9 DEF WrittenTo
  <1>12. shared' \subseteq shared
    BY <1>4
  <1> QED
    BY <1>1, <1>3, <1>9, <1>10, <1>11, <1>12

LEMMA HearsInv ==
  ASSUME LiveInv, NEW k \in Logins, Hears(k)
  PROVE  LiveInv'
  <1> DEFINE p == unheard[k][1]
             U == unheard[k]
  <1>p. p = unheard[k][1] /\ U = unheard[k]
    OBVIOUS
  <1> HIDE DEF U, p
  <1>0. LiveNow
    BY LiveIsNow
  <1>1. /\ p \in PushRec(moment) /\ p.chat \in LiveChats
        /\ chats' \in [Logins -> [LiveChats -> EntryRec(moment)]]
        /\ \A j \in Logins, c \in LiveChats : ~ WritesTo(j, c, k, p) => chats'[j][c] = chats[j][c]
        /\ shared' \subseteq shared
    BY <1>0, <1>p, PatchWrites
  <1>r. PICK again \in SUBSET Fields : WrittenTo(k, p, again)
    BY <1>0, <1>p, PatchWrites
  <1>2. /\ \A j \in Logins, c \in LiveChats : WritesTo(j, c, k, p) => chats'[j][c] = Patched(chats[j][c], p, again)
        /\ \A j \in Logins : ComingUp(j) /\ TakesPushes(j) /\ p.chat \in shared /\ p.kind # "changed" => again = {"unread"}
    BY <1>r DEF WrittenTo
  <1>3. /\ U \in Seq(PushRec(moment)) /\ U # << >> /\ serving = k /\ link[k] = "up" /\ serving # NoClient
        /\ unheard' = [unheard EXCEPT ![k] = Tail(U)]
        /\ UNCHANGED << account, moment, link, serving, resume, since >>
    BY <1>0, <1>p DEF Hears, LiveNow
  <1>4. /\ Tail(U) \in Seq(PushRec(moment)) /\ Len(U) \in Nat \ {0}
        /\ \A i \in 1 .. Len(Tail(U)) : Tail(U)[i] = U[i + 1] /\ i + 1 \in 1 .. Len(U)
    BY <1>3, TailFacts
  <1>5. unheard' \in [Logins -> Seq(PushRec(moment))] /\ unheard'[k] = Tail(U) /\ \A j \in Logins \ {k} : unheard'[j] = unheard[j]
    BY <1>0, <1>3, <1>4 DEF LiveNow
  <1>6. LiveTyped'
    BY <1>0, <1>1, <1>3, <1>5 DEF LiveNow, LiveTyped
  <1>7. \A j \in Logins : (TakesPushes(j)' <=> TakesPushes(j)) /\ (ComingUp(j)' <=> ComingUp(j))
    BY <1>3 DEF TakesPushes, ComingUp
  <1>8. LinksHeld'
    <2>1. TakesPushes(k)
      BY <1>3 DEF TakesPushes
    <2> QED
      BY <1>0, <1>3, <1>5, <1>7, <2>1 DEF LinksHeld, LiveNow
  <1>9. AllTold'
    <2> SUFFICES ASSUME NEW j \in Logins
                 PROVE  /\ PushesTell(unheard'[j], account) /\ PushTimes(unheard'[j], account)
                        /\ TakesPushes(j) => \A c \in LiveChats : EntryTold(chats'[j][c], unheard'[j], c, account[c])
      BY <1>3, <1>7 DEF AllTold
    <2>0. PushesTell(unheard[j], account) /\ PushTimes(unheard[j], account) /\ moment \in Nat
      BY <1>0 DEF LiveNow, AllTold
    <2>1. CASE j = k
      <3>1. PushesTell(Tail(U), account) /\ PushTimes(Tail(U), account)
        BY <1>3, <2>0, <2>1, PushesAfterTail DEF U
      <3>2. ASSUME NEW c \in LiveChats PROVE EntryTold(chats'[k][c], Tail(U), c, account[c])
        <4>1. EntryTold(chats[k][c], U, c, account[c]) /\ chats[k][c] \in EntryRec(moment)
          BY <1>0, <1>3 DEF LiveNow, AllTold, TakesPushes, U
        <4>2. p = U[1] /\ PushesTell(U, account) /\ PushTimes(U, account)
          BY <2>0, <2>1 DEF p, U
        <4>3. CASE WritesTo(k, c, k, p)
          <5>1. chats'[k][c] = Patched(chats[k][c], p, again)
            BY <1>2, <4>3
          <5>2. U[1].chat = c /\ (chats[k][c].held \/ U[1].kind = "changed")
            BY <4>2, <4>3 DEF WritesTo
          <5>3. EntryTold(Patched(chats[k][c], U[1], again), Tail(U), c, account[c])
            BY <1>3, <2>0, <4>1, <4>2, <5>2, EntryAfterHearing
          <5> QED
            BY <4>2, <5>1, <5>3
        <4>4. CASE ~WritesTo(k, c, k, p)
          <5>1. chats'[k][c] = chats[k][c]
            BY <1>1, <4>4
          <5>2. U[1].chat # c \/ ~ (chats[k][c].held \/ U[1].kind = "changed")
            BY <4>2, <4>4 DEF WritesTo
          <5> QED
            BY <1>3, <2>0, <4>1, <4>2, <5>1, <5>2, EntryAfterHearing
        <4> QED
          BY <4>3, <4>4
      <3> QED
        BY <1>5, <2>1, <3>1, <3>2
    <2>2. CASE j # k
      <3>1. ASSUME TakesPushes(j), NEW c \in LiveChats PROVE EntryTold(chats'[j][c], unheard[j], c, account[c])
        <4>1. EntryTold(chats[j][c], unheard[j], c, account[c]) /\ chats[j][c] \in EntryRec(moment)
              /\ unheard[j] \in Seq(PushRec(moment))
          BY <1>0, <3>1 DEF LiveNow, AllTold
        <4>2. CASE ~WritesTo(j, c, k, p)
          BY <1>1, <4>1, <4>2
        <4>3. CASE WritesTo(j, c, k, p)
          <5>1. ComingUp(j) /\ p.chat \in shared /\ p.kind # "changed" /\ c = p.chat /\ chats[j][c].held
            BY <2>2, <4>3 DEF WritesTo
          <5>2. again = {"unread"} /\ chats'[j][c] = Patched(chats[j][c], p, {"unread"})
            BY <1>2, <3>1, <4>3, <5>1
          <5>3. link[j] \in {"rest", "ready"}
            BY <3>1, <5>1 DEF ComingUp, TakesPushes
          <5>4. p = unheard[serving][1] /\ 1 \in 1 .. Len(unheard[serving])
            BY <1>3, <1>4 DEF p, U
          <5>5. PICK n \in 1 .. Len(unheard[j]) : unheard[j][n] = p
            BY <1>0, <1>3, <5>1, <5>3, <5>4 DEF LiveNow, SharedTold
          <5>6. EntryTold(Patched(chats[j][c], unheard[j][n], {"unread"}), unheard[j], unheard[j][n].chat, account[c])
            BY <2>0, <4>1, <5>1, <5>5, EntryPatchedAhead
          <5> QED
            BY <5>1, <5>2, <5>5, <5>6
        <4> QED
          BY <4>2, <4>3
      <3> QED
        BY <1>5, <2>0, <2>2, <3>1
    <2> QED
      BY <2>1, <2>2
  <1>10. LoginStartsTrue'
    <2> SUFFICES ASSUME NEW j \in Logins, link[j] = "login"
                 PROVE  /\ \A c \in LiveChats : account[c].changed <= since => Agrees(chats'[j][c], account[c])
                        /\ \A c \in shared' : chats'[j][c].held
                        /\ \A i \in 1 .. Len(unheard'[serving]) : account[unheard'[serving][i].chat].changed > since
      BY <1>3 DEF LoginStartsTrue
    <2>1. /\ \A c \in LiveChats : account[c].changed <= since => Agrees(chats[j][c], account[c])
          /\ \A c \in shared : chats[j][c].held
          /\ \A i \in 1 .. Len(U) : account[U[i].chat].changed > since
      BY <1>0, <1>3 DEF LiveNow, LoginStartsTrue, U
    <2>2. account[p.chat].changed > since /\ account[p.chat].changed \in Nat /\ since \in Nat
      <3>1. 1 \in 1 .. Len(U) /\ p = U[1]
        BY <1>4 DEF p, U
      <3> QED
        BY <1>0, <1>1, <2>1, <3>1 DEF LiveNow
    <2>3. \A c \in LiveChats : account[c].changed <= since => Agrees(chats'[j][c], account[c])
      <3>1. \A c \in LiveChats : account[c].changed <= since => c # p.chat
        BY <2>2
      <3> QED
        BY <1>1, <2>1, <3>1 DEF WritesTo
    <2>4. ASSUME NEW c \in shared' PROVE chats'[j][c].held
      <3>1. c \in shared /\ c \in LiveChats /\ chats[j][c].held /\ chats[j][c] \in EntryRec(moment) /\ moment \in Nat
        BY <1>0, <1>1, <2>1, <2>4 DEF LiveNow, LiveTyped
      <3>2. CASE WritesTo(j, c, k, p)
        <4>1. j # k
          BY <1>3
        <4>2. chats'[j][c] = Patched(chats[j][c], p, again) /\ p.kind # "changed"
          BY <1>2, <3>1, <3>2, <4>1 DEF WritesTo
        <4>3. PatchShape(Patched(chats[j][c], p, again), chats[j][c], p, again, moment)
          BY <1>1, <3>1, PatchedFacts
        <4> QED
          BY <3>1, <4>2, <4>3 DEF PatchShape
      <3>3. CASE ~WritesTo(j, c, k, p)
        BY <1>1, <3>1, <3>3
      <3> QED
        BY <3>2, <3>3
    <2>5. \A i \in 1 .. Len(unheard'[serving]) : account[unheard'[serving][i].chat].changed > since
      BY <1>3, <1>4, <1>5, <2>1
    <2> QED
      BY <2>3, <2>4, <2>5
  <1>11. ResumeTrue'
    BY <1>3 DEF ResumeTrue
  <1>12. SharedTold'
    <2> SUFFICES ASSUME NEW j \in Logins, link[j] \in {"rest", "ready"},
                        NEW i \in 1 .. Len(unheard'[serving]), unheard'[serving][i].chat \in shared'
                 PROVE  \E n \in 1 .. Len(unheard'[j]) : unheard'[j][n] = unheard'[serving][i]
      <3>1. link' = link /\ serving' = serving
        BY <1>3
      <3> QED
        BY <3>1 DEF SharedTold
    <2>1. unheard'[serving][i] = U[i + 1] /\ i + 1 \in 1 .. Len(U) /\ U[i + 1].chat \in shared
      BY <1>1, <1>3, <1>4, <1>5
    <2>2. PICK n \in 1 .. Len(unheard[j]) : unheard[j][n] = U[i + 1]
      BY <1>0, <1>3, <2>1 DEF LiveNow, SharedTold, U
    <2>3. unheard'[j] = unheard[j]
      BY <1>3, <1>5
    <2> QED
      BY <2>1, <2>2, <2>3
  <1> QED
    BY <1>6, <1>8, <1>9, <1>10, <1>11, <1>12 DEF LiveInv

LEMMA AgreesWhenAllHeard ==
  ASSUME NEW m \in Nat, NEW c, NEW e \in EntryRec(m), NEW now \in AccountRec(m), EntryTold(e, << >>, c, now)
  PROVE  Agrees(e, now)
  <1>1. << >> \in Seq(PushRec(m)) /\ \A i \in 1 .. Len(<< >>) : << >>[i].chat = c => << >>[i].kind = "edited"
    OBVIOUS
  <1> QED
    BY <1>1, AgreesWhenHeard

LEMMA ConnectsInv ==
  ASSUME LiveInv, NEW k \in Logins, Connects(k)
  PROVE  LiveInv'
  <1> DEFINE list == IF serving # NoClient THEN chats[serving] ELSE resume
  <1>0. LiveNow
    BY LiveIsNow
  <1>1. /\ serving # NoClient => unheard[serving] = << >>
        /\ link[k] = "none" /\ \A j \in Logins : link[j] \notin {"login", "rest", "ready"}
        /\ chats' = [chats EXCEPT ![k] = list] /\ link' = [link EXCEPT ![k] = "login"]
        /\ since' = (IF Resumable(list) THEN Newest(list) ELSE 0)
        /\ shared' = (IF serving # NoClient /\ Resumable(list) THEN { c \in LiveChats : list[c].held } ELSE {})
        /\ UNCHANGED << account, moment, unheard, serving, resume >>
    BY DEF Connects
  <1>2. list \in [LiveChats -> EntryRec(moment)] /\ (serving # NoClient => serving \in Logins /\ list = chats[serving])
        /\ (serving = NoClient => list = resume)
    BY <1>0 DEF LiveNow, LiveTyped
  <1> HIDE DEF list
  <1>3. chats'[k] = list /\ (\A j \in Logins \ {k} : chats'[j] = chats[j]) /\ link'[k] = "login"
        /\ (\A j \in Logins \ {k} : link'[j] = link[j])
    BY <1>0, <1>1, <1>2 DEF LiveNow, LiveTyped
  <1>4. Resumable(list) => /\ Newest(list) \in 0 .. moment /\ \E d \in LiveChats : Newest(list) = list[d].time
    <2> SUFFICES ASSUME NEW c \in LiveChats
                 PROVE  Newest(list) \in 0 .. moment /\ \E d \in LiveChats : Newest(list) = list[d].time
      BY DEF Resumable
    <2>1. moment \in Nat
      BY <1>0 DEF LiveNow
    <2> QED
      BY <1>2, <2>1, NewestFacts
  <1>5. LiveTyped'
    <2>1. moment \in Nat /\ since' \in 0 .. moment /\ shared' \subseteq LiveChats
      BY <1>0, <1>1, <1>4 DEF LiveNow
    <2>2. chats' \in [Logins -> [LiveChats -> EntryRec(moment)]]
      BY <1>0, <1>1, <1>2 DEF LiveNow
    <2>3. link' \in [Logins -> {"none", "login", "rest", "ready", "up", "closed"}]
      BY <1>0, <1>1 DEF LiveNow, LiveTyped
    <2> QED
      BY <1>0, <1>1, <2>1, <2>2, <2>3 DEF LiveNow, LiveTyped
  <1>6. \A j \in Logins : TakesPushes(j)' <=> TakesPushes(j)
    BY <1>1, <1>3 DEF TakesPushes
  <1>7. LinksHeld'
    BY <1>0, <1>1, <1>3, <1>6 DEF LiveNow, LinksHeld, ComingUp
  <1>8. AllTold'
    <2>1. ~TakesPushes(k)
      BY <1>1 DEF TakesPushes
    <2> QED
      BY <1>0, <1>1, <1>3, <1>6, <2>1 DEF LiveNow, AllTold
  <1>9. ASSUME NEW c \in LiveChats, account[c].changed <= since' PROVE Agrees(list[c], account[c])
    <2>1. CASE ~Resumable(list)
      BY <2>1 DEF Resumable, Agrees
    <2>2. CASE Resumable(list) /\ serving # NoClient
      <3>1. TakesPushes(serving)
        BY <1>0, <1>2, <2>2 DEF LiveNow, LinksHeld, TakesPushes
      <3>2. EntryTold(list[c], << >>, c, account[c])
        BY <1>0, <1>1, <1>2, <2>2, <3>1 DEF LiveNow, AllTold
      <3>3. list[c] \in EntryRec(moment) /\ account[c] \in AccountRec(moment) /\ moment \in Nat
        BY <1>0, <1>2 DEF LiveNow
      <3> QED
        BY <3>2, <3>3, AgreesWhenAllHeard
    <2>3. CASE Resumable(list) /\ serving = NoClient
      <3>1. PICK d \in LiveChats : since' = resume[d].time
        BY <1>1, <1>2, <1>4, <2>3
      <3> QED
        BY <1>0, <1>2, <1>9, <2>3, <3>1 DEF LiveNow, ResumeTrue
    <2> QED
      BY <2>1, <2>2, <2>3
  <1>10. LoginStartsTrue'
    <2> SUFFICES ASSUME NEW j \in Logins, link'[j] = "login"
                 PROVE  /\ \A c \in LiveChats : account[c].changed <= since' => Agrees(chats'[j][c], account[c])
                        /\ \A c \in shared' : chats'[j][c].held
                        /\ serving # NoClient => \A i \in 1 .. Len(unheard[serving]) : account[unheard[serving][i].chat].changed > since'
      BY <1>1 DEF LoginStartsTrue
    <2>1. j = k
      BY <1>1, <1>3
    <2>2. \A c \in shared' : list[c].held
      BY <1>1
    <2>3. serving # NoClient => 1 .. Len(unheard[serving]) = {}
      BY <1>1
    <2> QED
      BY <1>3, <1>9, <2>1, <2>2, <2>3
  <1>11. ResumeTrue'
    BY <1>0, <1>1 DEF LiveNow, ResumeTrue
  <1>12. SharedTold'
    BY <1>1, <1>3 DEF SharedTold
  <1> QED
    BY <1>5, <1>7, <1>8, <1>10, <1>11, <1>12 DEF LiveInv

\* A login that is answered: nothing has been pushed to it yet, and its chats are MAX's.
LEMMA AnsweredInv ==
  ASSUME LiveInv, NEW k \in Logins, link[k] = "login", chats' \in [Logins -> [LiveChats -> EntryRec(moment)]],
         \A j \in Logins \ {k} : chats'[j] = chats[j], \A c \in LiveChats : Agrees(chats'[k][c], account[c]),
         link' = [link EXCEPT ![k] = "ready"] \/ link' = [link EXCEPT ![k] = "rest"],
         shared' \subseteq { c \in shared : account[c].changed <= since },
         UNCHANGED << account, moment, unheard, serving, resume, since >>
  PROVE  LiveInv'
  <1>0. LiveNow
    BY LiveIsNow
  <1>1. /\ link'[k] \in {"ready", "rest"} /\ \A j \in Logins \ {k} : link'[j] = link[j]
        /\ link' \in [Logins -> {"none", "login", "rest", "ready", "up", "closed"}]
    BY <1>0 DEF LiveNow, LiveTyped
  <1>2. LiveTyped'
    BY <1>0, <1>1 DEF LiveNow, LiveTyped
  <1>3. \A j \in Logins \ {k} : (TakesPushes(j)' <=> TakesPushes(j)) /\ ~ComingUp(j)
    BY <1>0, <1>1 DEF LiveNow, LinksHeld, ComingUp, TakesPushes
  <1>4. unheard[k] = << >> /\ serving # k
    BY <1>0 DEF LiveNow, LinksHeld, TakesPushes
  <1>5. LinksHeld'
    <2>1. TakesPushes(k)'
      BY <1>1 DEF TakesPushes
    <2>2. \A j \in Logins : ComingUp(j)' => j = k
      BY <1>1, <1>3 DEF ComingUp
    <2>3. \A j \in Logins : link'[j] = "up" <=> serving = j
      BY <1>0, <1>1, <1>4 DEF LiveNow, LinksHeld
    <2>4. \A j \in Logins : ~TakesPushes(j)' => unheard[j] = << >>
      BY <1>0, <1>3, <2>1 DEF LiveNow, LinksHeld
    <2> QED
      BY <2>2, <2>3, <2>4 DEF LinksHeld
  <1>6. AllTold'
    <2> SUFFICES ASSUME NEW j \in Logins
                 PROVE  /\ PushesTell(unheard[j], account) /\ PushTimes(unheard[j], account)
                        /\ TakesPushes(j)' => \A c \in LiveChats : EntryTold(chats'[j][c], unheard[j], c, account[c])
      BY DEF AllTold
    <2>1. PushesTell(unheard[j], account) /\ PushTimes(unheard[j], account)
      BY <1>0 DEF LiveNow, AllTold
    <2>2. CASE j # k
      BY <1>0, <1>3, <2>1, <2>2 DEF LiveNow, AllTold
    <2>3. CASE j = k
      <3>1. ASSUME NEW c \in LiveChats PROVE EntryTold(chats'[k][c], << >>, c, account[c])
        <4>1. chats'[k][c] \in EntryRec(moment) /\ account[c] \in AccountRec(moment) /\ moment \in Nat
              /\ << >> \in Seq(PushRec(moment))
          BY <1>0 DEF LiveNow
        <4> QED
          BY <4>1, NothingUnheard, ToldWhenFresh
      <3> QED
        BY <1>4, <2>1, <2>3, <3>1
    <2> QED
      BY <2>2, <2>3
  <1>7. LoginStartsTrue'
    BY <1>1, <1>3 DEF LoginStartsTrue, ComingUp
  <1>8. ResumeTrue'
    BY <1>0 DEF LiveNow, ResumeTrue
  <1>9. SharedTold'
    <2> SUFFICES ASSUME NEW j \in Logins, link'[j] \in {"rest", "ready"}, serving # NoClient,
                        NEW i \in 1 .. Len(unheard[serving]), unheard[serving][i].chat \in shared'
                 PROVE  FALSE
      BY DEF SharedTold
    <2>1. account[unheard[serving][i].chat].changed > since
      BY <1>0 DEF LiveNow, LoginStartsTrue
    <2>2. unheard[serving][i].chat \in LiveChats /\ account[unheard[serving][i].chat].changed <= since
      BY <1>0 DEF LiveNow, LiveTyped
    <2> QED
      BY <1>0, <2>1, <2>2 DEF LiveNow
  <1> QED
    BY <1>2, <1>5, <1>6, <1>7, <1>8, <1>9 DEF LiveInv

LEMMA ResumedLoginInv ==
  ASSUME LiveInv, NEW k \in Logins, ResumedLogin(k)
  PROVE  LiveInv'
  <1> DEFINE changed == { c \in LiveChats : account[c].changed > since }
  <1>0. LiveNow
    BY LiveIsNow
  <1>1. /\ link[k] = "login" /\ chats' = [chats EXCEPT ![k] = MergeChanged(k, changed)] /\ shared' = shared \ changed
        /\ link' = [link EXCEPT ![k] = "ready"] /\ UNCHANGED << account, moment, unheard, serving, resume, since >>
    BY DEF ResumedLogin
  <1>2. \A c \in LiveChats : Entry(c) \in EntryRec(moment) /\ Agrees(Entry(c), account[c])
    <2>1. moment \in Nat /\ {} \in SUBSET Fields /\ account \in [LiveChats -> AccountRec(moment)]
      BY <1>0 DEF LiveNow
    <2> QED
      BY <2>1, AnsweredEntry
  <1>3. MergeChanged(k, changed) \in [LiveChats -> EntryRec(moment)]
    BY <1>0, <1>2 DEF LiveNow, MergeChanged
  <1>4. chats' \in [Logins -> [LiveChats -> EntryRec(moment)]] /\ (\A j \in Logins \ {k} : chats'[j] = chats[j])
        /\ chats'[k] = MergeChanged(k, changed)
    BY <1>0, <1>1, <1>3 DEF LiveNow
  <1>5. ASSUME NEW c \in LiveChats PROVE Agrees(chats'[k][c], account[c])
    <2>1. CASE c \in changed
      BY <1>2, <1>4, <2>1 DEF MergeChanged
    <2>2. CASE c \notin changed
      <3>1. account[c].changed <= since
        BY <1>0, <2>2 DEF LiveNow
      <3> QED
        BY <1>0, <1>1, <1>4, <2>2, <3>1 DEF LiveNow, LoginStartsTrue, MergeChanged
    <2> QED
      BY <2>1, <2>2
  <1>6. shared' \subseteq { c \in shared : account[c].changed <= since }
    BY <1>0, <1>1 DEF LiveNow, LiveTyped
  <1> QED
    BY <1>1, <1>4, <1>5, <1>6, AnsweredInv

LEMMA FullLoginInv ==
  ASSUME LiveInv, NEW k \in Logins, FullLogin(k)
  PROVE  LiveInv'
  <1>0. LiveNow
    BY LiveIsNow
  <1>1. PICK newest :
          /\ chats' = [chats EXCEPT ![k] = [c \in LiveChats |-> IF c \in newest THEN Entry(c) ELSE NotHeld]]
          /\ link' = [link EXCEPT ![k] = IF Cardinality(newest) < FirstChats THEN "ready" ELSE "rest"]
    BY DEF FullLogin
  <1>2. /\ link[k] = "login" /\ ~Resumable(chats[k]) /\ shared' = shared
        /\ UNCHANGED << account, moment, unheard, serving, resume, since >>
    BY DEF FullLogin
  <1>3. \A c \in LiveChats : Entry(c) \in EntryRec(moment) /\ Agrees(Entry(c), account[c])
    <2>1. moment \in Nat /\ {} \in SUBSET Fields /\ account \in [LiveChats -> AccountRec(moment)]
      BY <1>0 DEF LiveNow
    <2> QED
      BY <2>1, AnsweredEntry
  <1>4. NotHeld \in EntryRec(moment) /\ \A c \in LiveChats : Agrees(NotHeld, account[c])
    BY <1>0, NotHeldFacts DEF LiveNow
  <1>5. chats' \in [Logins -> [LiveChats -> EntryRec(moment)]] /\ (\A j \in Logins \ {k} : chats'[j] = chats[j])
        /\ \A c \in LiveChats : chats'[k][c] = IF c \in newest THEN Entry(c) ELSE NotHeld
    BY <1>0, <1>1, <1>3, <1>4 DEF LiveNow
  <1>6. \A c \in LiveChats : Agrees(chats'[k][c], account[c])
    BY <1>3, <1>4, <1>5
  <1>7. shared = {}
    <2>1. shared \subseteq LiveChats /\ \A c \in shared : chats[k][c].held
      BY <1>0, <1>2 DEF LiveNow, LiveTyped, LoginStartsTrue
    <2> QED
      BY <1>2, <2>1 DEF Resumable
  <1>8. link' = [link EXCEPT ![k] = "ready"] \/ link' = [link EXCEPT ![k] = "rest"]
    BY <1>1
  <1>9. shared' \subseteq { c \in shared : account[c].changed <= since }
    BY <1>2, <1>7
  <1> QED
    BY <1>2, <1>5, <1>6, <1>8, <1>9, AnsweredInv

\* The rest of a long list, read or not: what was pushed meanwhile is still on its way.
LEMMA RestInv ==
  ASSUME LiveInv, NEW k \in Logins, link[k] = "rest", chats' \in [Logins -> [LiveChats -> EntryRec(moment)]],
         \A j \in Logins \ {k} : chats'[j] = chats[j],
         \A c \in LiveChats : EntryTold(chats'[k][c], unheard[k], c, account[c]),
         link' = [link EXCEPT ![k] = "ready"], UNCHANGED << account, moment, unheard, shared, serving, resume, since >>
  PROVE  LiveInv'
  <1>0. LiveNow
    BY LiveIsNow
  <1>1. link'[k] = "ready" /\ (\A j \in Logins \ {k} : link'[j] = link[j])
        /\ link' \in [Logins -> {"none", "login", "rest", "ready", "up", "closed"}]
    BY <1>0 DEF LiveNow, LiveTyped
  <1>2. LiveTyped'
    BY <1>0, <1>1 DEF LiveNow, LiveTyped
  <1>3. \A j \in Logins : (TakesPushes(j)' <=> TakesPushes(j)) /\ (ComingUp(j)' <=> ComingUp(j))
    BY <1>1 DEF TakesPushes, ComingUp
  <1>4. LinksHeld'
    BY <1>0, <1>1, <1>3 DEF LiveNow, LinksHeld
  <1>5. AllTold'
    BY <1>0, <1>3 DEF LiveNow, AllTold
  <1>6. LoginStartsTrue'
    <2> SUFFICES ASSUME NEW j \in Logins, link'[j] = "login"
                 PROVE  /\ \A c \in LiveChats : account[c].changed <= since => Agrees(chats'[j][c], account[c])
                        /\ \A c \in shared : chats'[j][c].held
                        /\ serving # NoClient => \A i \in 1 .. Len(unheard[serving]) : account[unheard[serving][i].chat].changed > since
      BY DEF LoginStartsTrue
    <2>1. j # k /\ link[j] = "login" /\ chats'[j] = chats[j]
      BY <1>1
    <2> QED
      BY <1>0, <2>1 DEF LiveNow, LoginStartsTrue
  <1>7. ResumeTrue'
    BY <1>0 DEF LiveNow, ResumeTrue
  <1>8. SharedTold'
    BY <1>0, <1>1 DEF LiveNow, SharedTold
  <1> QED
    BY <1>2, <1>4, <1>5, <1>6, <1>7, <1>8 DEF LiveInv

LEMMA RestReadInv ==
  ASSUME LiveInv, NEW k \in Logins, RestRead(k)
  PROVE  LiveInv'
  <1> DEFINE missing == { c \in LiveChats : ~chats[k][c].held }
             U == unheard[k]
             pushedTo == { U[i].chat : i \in { n \in 1 .. Len(U) : U[n].kind = "message" } }
             off(c) == IF c \in pushedTo THEN {"unread"} ELSE {}
             read(c) == [Entry(c) EXCEPT !.off = off(c)]
  <1>0. LiveNow
    BY LiveIsNow
  <1>1. /\ link[k] = "rest" /\ link' = [link EXCEPT ![k] = "ready"]
        /\ chats' = [chats EXCEPT ![k] = [c \in LiveChats |-> IF c \in missing THEN read(c) ELSE @[c]]]
        /\ UNCHANGED << account, moment, unheard, shared, serving, resume, since >>
    BY DEF RestRead
  <1>2. ASSUME NEW c \in LiveChats
        PROVE  read(c) \in EntryRec(moment) /\ read(c).off = off(c) /\ Agrees(read(c), account[c])
    <2>1. moment \in Nat /\ off(c) \in SUBSET Fields /\ account \in [LiveChats -> AccountRec(moment)]
      BY <1>0 DEF LiveNow, Fields
    <2> HIDE DEF off
    <2> QED
      BY <2>1, AnsweredEntry
  <1>3. ASSUME NEW c \in LiveChats PROVE EntryTold(read(c), U, c, account[c])
    <2>1. "unread" \notin off(c) => Coming(U, 0, c) = {}
      <3>1. ASSUME c \notin pushedTo PROVE Coming(U, 0, c) = {}
        BY <3>1 DEF Coming, Later
      <3> QED
        BY <3>1
    <2>2. moment \in Nat /\ U \in Seq(PushRec(moment)) /\ account[c] \in AccountRec(moment)
      BY <1>0 DEF LiveNow
    <2>3. read(c) \in EntryRec(moment) /\ Agrees(read(c), account[c]) /\ ("unread" \notin read(c).off => Coming(U, 0, c) = {})
      BY <1>2, <2>1
    <2> HIDE DEF read, U, off, pushedTo
    <2> QED
      BY <2>2, <2>3, ToldWhenFresh
  <1> HIDE DEF read, off, pushedTo
  <1>4. chats' \in [Logins -> [LiveChats -> EntryRec(moment)]] /\ (\A j \in Logins \ {k} : chats'[j] = chats[j])
        /\ \A c \in LiveChats : chats'[k][c] = IF c \in missing THEN read(c) ELSE chats[k][c]
    BY <1>0, <1>1, <1>2 DEF LiveNow
  <1>5. \A c \in LiveChats : EntryTold(chats'[k][c], unheard[k], c, account[c])
    <2>1. TakesPushes(k)
      BY <1>1 DEF TakesPushes
    <2>2. \A c \in LiveChats : EntryTold(chats[k][c], unheard[k], c, account[c])
      BY <1>0, <2>1 DEF LiveNow, AllTold
    <2> QED
      BY <1>3, <1>4, <2>2
  <1> QED
    BY <1>1, <1>4, <1>5, RestInv

LEMMA RestFailsInv ==
  ASSUME LiveInv, NEW k \in Logins, RestFails(k)
  PROVE  LiveInv'
  <1>0. LiveNow
    BY LiveIsNow
  <1>1. /\ link[k] = "rest" /\ link' = [link EXCEPT ![k] = "ready"] /\ chats' = chats
        /\ UNCHANGED << account, moment, unheard, shared, serving, resume, since >>
    BY DEF RestFails
  <1>2. \A c \in LiveChats : EntryTold(chats[k][c], unheard[k], c, account[c])
    BY <1>0, <1>1 DEF LiveNow, AllTold, TakesPushes
  <1>3. chats' \in [Logins -> [LiveChats -> EntryRec(moment)]]
    BY <1>0, <1>1 DEF LiveNow
  <1> QED
    BY <1>1, <1>2, <1>3, RestInv

LEMMA ReplacesInv ==
  ASSUME LiveInv, NEW k \in Logins, Replaces(k)
  PROVE  LiveInv'
  <1>0. LiveNow
    BY LiveIsNow
  <1>1. /\ link[k] = "ready" /\ serving' = k /\ shared' = {}
        /\ link' = [j \in Logins |-> IF j = k THEN "up" ELSE IF j = serving THEN "closed" ELSE link[j]]
        /\ unheard' = [j \in Logins |-> IF j = serving THEN << >> ELSE unheard[j]]
        /\ UNCHANGED << account, moment, chats, resume, since >>
    BY DEF Replaces
  <1>2. serving # k /\ k # NoClient
    BY <1>0, <1>1 DEF LiveNow, LinksHeld
  <1>3. LiveTyped'
    <2>1. unheard' \in [Logins -> Seq(PushRec(moment))]
      BY <1>0, <1>1, NothingUnheard DEF LiveNow
    <2> QED
      BY <1>0, <1>1, <2>1 DEF LiveNow, LiveTyped
  <1>4. \A j \in Logins : ~ComingUp(j)'
    <2>1. \A j \in Logins : ComingUp(j) => j = k
      BY <1>0, <1>1 DEF LiveNow, LinksHeld, ComingUp
    <2> QED
      BY <1>1, <2>1 DEF ComingUp
  <1>5. \A j \in Logins : j # serving => (TakesPushes(j)' <=> TakesPushes(j)) /\ unheard'[j] = unheard[j]
    BY <1>1 DEF TakesPushes
  <1>6. \A j \in Logins : j = serving => ~TakesPushes(j)' /\ unheard'[j] = << >>
    BY <1>1, <1>2 DEF TakesPushes
  <1>7. LinksHeld'
    <2>1. \A j \in Logins : link'[j] = "up" <=> serving' = j
      BY <1>0, <1>1, <1>2 DEF LiveNow, LinksHeld
    <2>2. \A j \in Logins : ~TakesPushes(j)' => unheard'[j] = << >>
      BY <1>0, <1>5, <1>6 DEF LiveNow, LinksHeld
    <2> QED
      BY <1>4, <2>1, <2>2 DEF LinksHeld
  <1>8. AllTold'
    <2> SUFFICES ASSUME NEW j \in Logins
                 PROVE  /\ PushesTell(unheard'[j], account) /\ PushTimes(unheard'[j], account)
                        /\ TakesPushes(j)' => \A c \in LiveChats : EntryTold(chats[j][c], unheard'[j], c, account[c])
      BY <1>1 DEF AllTold
    <2>1. CASE j = serving
      BY <1>6, <2>1, NothingUnheard
    <2>2. CASE j # serving
      BY <1>0, <1>5, <2>2 DEF LiveNow, AllTold
    <2> QED
      BY <2>1, <2>2
  <1>9. LoginStartsTrue'
    BY <1>4 DEF LoginStartsTrue, ComingUp
  <1>10. ResumeTrue'
    BY <1>1, <1>2 DEF ResumeTrue
  <1>11. SharedTold'
    BY <1>1 DEF SharedTold
  <1> QED
    BY <1>3, <1>7, <1>8, <1>9, <1>10, <1>11 DEF LiveInv

\* What the next login starts from when the connection is lost: where a push was lost with it, what it said is
\* either asked for again or not followed.
LEMMA ResumedIsTrue ==
  ASSUME LiveNow, NEW k \in Logins, TakesPushes(k), NEW c \in LiveChats, account[c].changed <= Newest(chats[k])
  PROVE  Agrees(ToResume(k)[c], account[c])
  <1> DEFINE U == unheard[k]
  <1>1. CASE c \in Skipped(k)
    <2>1. ToResume(k)[c] = [chats[k][c] EXCEPT !.off = Fields] /\ chats[k][c] \in EntryRec(moment)
      BY <1>1 DEF ToResume, LiveNow
    <2>2. ToResume(k)[c].off = Fields
      BY <2>1 DEF EntryRec
    <2> QED
      BY <2>2 DEF Agrees
  <1>2. CASE c \notin Skipped(k)
    <2>1. ToResume(k)[c] = chats[k][c]
      BY <1>2 DEF ToResume
    <2>2. /\ EntryTold(chats[k][c], U, c, account[c]) /\ PushTimes(U, account) /\ moment \in Nat
          /\ U \in Seq(PushRec(moment)) /\ chats[k][c] \in EntryRec(moment) /\ account[c] \in AccountRec(moment)
      BY DEF LiveNow, AllTold
    <2>3. ASSUME NEW i \in 1 .. Len(U), U[i].chat = c PROVE U[i].kind = "edited"
      <3>1. U[i].kind # "edited" => U[i].at <= account[c].changed
        BY <2>2, <2>3 DEF PushTimes
      <3>2. U[i].at \in Nat
        <4>1. U[i] \in PushRec(moment)
          BY <2>2, <2>3
        <4> QED
          BY <2>2, <4>1 DEF PushRec
      <3>3. Newest(chats[k]) \in Nat /\ account[c].changed \in Nat
        <4>1. chats[k] \in [LiveChats -> EntryRec(moment)] /\ account[c].changed \in 0 .. moment
          BY DEF LiveNow
        <4> QED
          BY <2>2, <4>1, NewestFacts
      <3>4. ~ (U[i].kind # "edited" /\ U[i].at <= Newest(chats[k]))
        BY <1>2, <2>3 DEF Skipped
      <3> QED
        BY <3>1, <3>2, <3>3, <3>4
    <2> HIDE DEF U
    <2> QED
      BY <2>1, <2>2, <2>3, AgreesWhenHeard
  <1> QED
    BY <1>1, <1>2

LEMMA LostOrFailsInv ==
  ASSUME LiveInv, NEW k \in Logins, LostOrFails(k)
  PROVE  LiveInv'
  <1>0. LiveNow
    BY LiveIsNow
  <1>1. /\ link[k] \in {"login", "rest", "ready", "up"} /\ link' = [link EXCEPT ![k] = "closed"] /\ shared' = {}
        /\ serving = k => serving' = NoClient /\ resume' = ToResume(k)
        /\ serving # k => serving' = serving /\ resume' = resume
        /\ unheard' = [unheard EXCEPT ![k] = << >>]
        /\ UNCHANGED << account, moment, chats, since >>
    BY DEF LostOrFails
  <1>2. /\ link'[k] = "closed" /\ (\A j \in Logins \ {k} : link'[j] = link[j])
        /\ unheard'[k] = << >> /\ \A j \in Logins \ {k} : unheard'[j] = unheard[j]
    BY <1>0, <1>1 DEF LiveNow, LiveTyped
  <1>3. LiveTyped'
    <2>1. unheard' \in [Logins -> Seq(PushRec(moment))]
      BY <1>0, <1>1, NothingUnheard DEF LiveNow
    <2>2. ToResume(k) \in [LiveChats -> EntryRec(moment)]
      <3>1. \A c \in LiveChats : [chats[k][c] EXCEPT !.off = Fields] \in EntryRec(moment)
        BY <1>0 DEF LiveNow, EntryRec
      <3> QED
        BY <1>0, <3>1 DEF LiveNow, ToResume
    <2>3. link' \in [Logins -> {"none", "login", "rest", "ready", "up", "closed"}]
      BY <1>0, <1>1 DEF LiveNow, LiveTyped
    <2> QED
      BY <1>0, <1>1, <2>1, <2>2, <2>3 DEF LiveNow, LiveTyped
  <1>4. /\ \A j \in Logins \ {k} : (TakesPushes(j)' <=> TakesPushes(j)) /\ (ComingUp(j)' <=> ComingUp(j))
        /\ ~TakesPushes(k)' /\ ~ComingUp(k)'
    BY <1>2 DEF TakesPushes, ComingUp
  <1>5. LinksHeld'
    <2>1. \A j \in Logins : link'[j] = "up" <=> serving' = j
      BY <1>0, <1>1, <1>2 DEF LiveNow, LinksHeld
    <2>2. \A j \in Logins : ~TakesPushes(j)' => unheard'[j] = << >>
      BY <1>0, <1>2, <1>4 DEF LiveNow, LinksHeld
    <2>3. \A i, j \in Logins : ComingUp(i)' /\ ComingUp(j)' => i = j
      BY <1>0, <1>4 DEF LiveNow, LinksHeld
    <2> QED
      BY <2>1, <2>2, <2>3 DEF LinksHeld
  <1>6. AllTold'
    <2> SUFFICES ASSUME NEW j \in Logins
                 PROVE  /\ PushesTell(unheard'[j], account) /\ PushTimes(unheard'[j], account)
                        /\ TakesPushes(j)' => \A c \in LiveChats : EntryTold(chats[j][c], unheard'[j], c, account[c])
      BY <1>1 DEF AllTold
    <2>1. CASE j = k
      BY <1>2, <1>4, <2>1, NothingUnheard
    <2>2. CASE j # k
      BY <1>0, <1>2, <1>4, <2>2 DEF LiveNow, AllTold
    <2> QED
      BY <2>1, <2>2
  <1>7. LoginStartsTrue'
    <2> SUFFICES ASSUME NEW j \in Logins, link'[j] = "login"
                 PROVE  /\ \A c \in LiveChats : account[c].changed <= since => Agrees(chats[j][c], account[c])
                        /\ serving' # NoClient =>
                             \A i \in 1 .. Len(unheard'[serving']) : account[unheard'[serving'][i].chat].changed > since
      BY <1>1 DEF LoginStartsTrue
    <2>1. j # k /\ link[j] = "login"
      BY <1>2
    <2>2. serving' # NoClient => serving # NoClient /\ serving \in Logins \ {k} /\ unheard'[serving'] = unheard[serving]
      BY <1>0, <1>1, <1>2 DEF LiveNow, LiveTyped
    <2> QED
      BY <1>0, <2>1, <2>2 DEF LiveNow, LoginStartsTrue
  <1>8. ResumeTrue'
    <2>1. CASE serving # k
      BY <1>0, <1>1, <2>1 DEF LiveNow, ResumeTrue
    <2>2. CASE serving = k
      <3> SUFFICES ASSUME NEW c \in LiveChats, NEW d \in LiveChats, account[c].changed <= ToResume(k)[d].time
                   PROVE  Agrees(ToResume(k)[c], account[c])
        BY <1>1, <2>2 DEF ResumeTrue
      <3>1. TakesPushes(k)
        BY <1>0, <2>2 DEF LiveNow, LinksHeld, TakesPushes
      <3>2. chats[k] \in [LiveChats -> EntryRec(moment)] /\ chats[k][d] \in EntryRec(moment) /\ moment \in Nat
            /\ account[c].changed \in 0 .. moment
        BY <1>0 DEF LiveNow
      <3>3. ToResume(k)[d].time = chats[k][d].time /\ chats[k][d].time \in Nat
        BY <3>2 DEF ToResume, EntryRec
      <3>4. Newest(chats[k]) \in 0 .. moment /\ chats[k][d].time <= Newest(chats[k])
        BY <3>2, NewestFacts
      <3>5. account[c].changed <= Newest(chats[k])
        BY <3>2, <3>3, <3>4
      <3> QED
        BY <1>0, <3>1, <3>5, ResumedIsTrue
    <2> QED
      BY <2>1, <2>2
  <1>9. SharedTold'
    BY <1>1 DEF SharedTold
  <1> QED
    BY <1>3, <1>5, <1>6, <1>7, <1>8, <1>9 DEF LiveInv

\* What the server holds, what a login under way holds, and what is kept to start the next one from, each are
\* told the truth by what is still to come to them.
THEOREM LiveInvHolds == LiveSpec => []LiveInv
  <1>1. LiveInit => LiveInv
    BY LiveInvInit
  <1>2. LiveInv /\ [LiveNext]_liveVars => LiveInv'
    <2> SUFFICES ASSUME LiveInv, [LiveNext]_liveVars PROVE LiveInv'
      OBVIOUS
    <2>1. ASSUME NEW c \in LiveChats, InAccount(c) PROVE LiveInv'
      <3>1. LiveTyped
        BY DEF LiveInv
      <3>2. PICK p : EventPushed(p)
        BY <2>1, <3>1, EventIsPushed
      <3> QED
        BY <3>2, EventInv
    <2>2. ASSUME NEW k \in Logins,
                 Hears(k) \/ Connects(k) \/ ResumedLogin(k) \/ FullLogin(k) \/ RestRead(k) \/ RestFails(k)
                   \/ Replaces(k) \/ LostOrFails(k)
          PROVE  LiveInv'
      BY <2>2, HearsInv, ConnectsInv, ResumedLoginInv, FullLoginInv, RestReadInv, RestFailsInv, ReplacesInv, LostOrFailsInv
    <2>3. ASSUME UNCHANGED liveVars PROVE LiveInv'
      BY <2>3 DEF liveVars, LiveInv, LiveTyped, LinksHeld, AllTold, LoginStartsTrue, ResumeTrue, SharedTold, ComingUp, TakesPushes
    <2> QED
      BY <2>1, <2>2, <2>3 DEF LiveNext
  <1> QED
    BY <1>1, <1>2, PTL DEF LiveSpec

\* The state of the login keeps its shape, whatever is pushed and however the connections go: every entry of every
\* list is of a moment the account has had.
THEOREM LiveTypeCorrect == LiveSpec => []LiveTypeOK
  <1>1. LiveInv => LiveTypeOK
    <2> SUFFICES ASSUME LiveInv PROVE LiveTypeOK
      OBVIOUS
    <2>1. LiveNow /\ moment \in 0 .. MaxMoments
      BY LiveIsNow DEF LiveInv, LiveTyped
    <2>2. 0 .. moment \subseteq 0 .. MaxMoments /\ 1 .. moment \subseteq 1 .. MaxMoments
      BY <2>1, LiveAssumption
    <2>3. EntryRec(moment) \subseteq EntryType
      BY <2>2 DEF EntryRec, EntryType
    <2>4. PushRec(moment) \subseteq [kind : {"message", "ours", "read", "changed", "deleted", "edited"}, chat : LiveChats,
                                     at : 1 .. MaxMoments, whole : EntryType]
      BY <2>2, <2>3 DEF PushRec
    <2>5. AccountRec(moment) \subseteq [last : 0 .. MaxMoments, time : 0 .. MaxMoments, unread : 0 .. MaxMoments,
                                        title : 0 .. MaxMoments, changed : 0 .. MaxMoments]
      BY <2>2 DEF AccountRec
    <2>6. \A k \in Logins : \A i \in 1 .. Len(unheard[k]) : unheard[k][i] \in PushRec(moment)
      BY <2>1, LiveTypedStep DEF LiveNow
    <2>7. account \in [LiveChats -> [last : 0 .. MaxMoments, time : 0 .. MaxMoments, unread : 0 .. MaxMoments,
                                     title : 0 .. MaxMoments, changed : 0 .. MaxMoments]]
      BY <2>1, <2>5 DEF LiveNow
    <2>8. (\A k \in Logins : chats[k] \in [LiveChats -> EntryType]) /\ resume \in [LiveChats -> EntryType]
      BY <2>1, <2>3 DEF LiveNow
    <2>9. since \in 0 .. MaxMoments
      BY <2>1, <2>2 DEF LiveNow
    <2> QED
      BY <2>1, <2>4, <2>6, <2>7, <2>8, <2>9 DEF LiveTypeOK, LiveNow, LiveTyped
  <1> QED
    BY <1>1, LiveInvHolds, PTL

\* The login `max serve` hands a command is MAX's own, chat by chat, once the server has heard what was pushed to
\* it: through a connection that is lost with pushes on their way, a login that resumes from its list, and one that
\* is answered beside it over the objects they share (src/src/client.ts, patch and resumeFrom).
THEOREM LoginHandedOnIsTrue == LiveSpec => []SnapshotTrue
  <1>1. LiveInv => SnapshotTrue
    <2> SUFFICES ASSUME LiveInv, serving # NoClient, unheard[serving] = << >>, NEW c \in LiveChats
                 PROVE  Agrees(chats[serving][c], account[c])
      BY DEF SnapshotTrue, Agrees
    <2>1. LiveNow /\ serving \in Logins
      BY LiveIsNow DEF LiveInv, LiveTyped
    <2>2. TakesPushes(serving)
      BY <2>1 DEF LiveNow, LinksHeld, TakesPushes
    <2>3. EntryTold(chats[serving][c], << >>, c, account[c]) /\ moment \in Nat
          /\ chats[serving][c] \in EntryRec(moment) /\ account[c] \in AccountRec(moment)
      BY <2>1, <2>2 DEF LiveNow, AllTold
    <2> QED
      BY <2>3, AgreesWhenAllHeard
  <1> QED
    BY <1>1, LiveInvHolds, PTL
=============================================================================
