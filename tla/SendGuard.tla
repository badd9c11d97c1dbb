----------------------------- MODULE SendGuard -----------------------------
(***************************************************************************)
(* Guarded writes of one profile: every command that sends, edits or       *)
(* deletes, the guard it asks (src/src/sends/guard.ts), the journal the    *)
(* guard counts, the one retry of src/src/client.ts (#deliver), and the    *)
(* second check and the journaling of `max serve` (src/src/server/         *)
(* server.ts, #forward and #sendJournaled).                                *)
(*                                                                         *)
(* An attempt is one command.  Its route is how its write reaches MAX:     *)
(*   "own"       its own connection: its check reserves a place;           *)
(*   "server"    through `max serve`: it checks without reserving, the     *)
(*               server checks again, reserves and journals;               *)
(*   "fallback"  built for the server, but on its own connection after all *)
(*               (no server behind a left-over socket, another account).   *)
(* A fresh cid is named after the attempt that drew it.                    *)
(*                                                                         *)
(* The lock around check and append is atomic here; JournalLock.tla is     *)
(* about the lock file.  Time is a count of ticks far longer than a send:  *)
(* a tick passes only when no attempt is in flight.                        *)
(***************************************************************************)
EXTENDS SendJournal

CONSTANTS
  Attempts,     \* the commands of this behaviour
  Chats,
  Limit,        \* sendsPerHour
  LastTick,     \* bound on time
  Ahead,        \* how many ticks ahead a message may be scheduled
  SendKinds,    \* the kinds of write the commands make
  MaxWeight,    \* bound on how many messages one deletion names
  Routes,
  Repeats,      \* whether an owner repeats an unknown outcome with its cid
  MayForbid,    \* whether permissions or the recipient list may refuse, or the lock stay taken
  Uploads,      \* whether messages carry files MAX may still be processing
  CacheMayFail  \* whether the local record can fail after MAX has answered

ASSUME GuardAssumption ==
  /\ NoCid \notin Attempts
  /\ Limit \in Nat
  /\ LastTick \in Nat
  /\ Ahead \subseteq Nat \ {0}
  /\ SendKinds \subseteq Kinds
  /\ MaxWeight \in Nat \ {0}
  /\ Routes \subseteq {"own", "server", "fallback"}
  /\ {Repeats, MayForbid, Uploads, CacheMayFail} \subseteq BOOLEAN

VARIABLES
  now,
  journal,
  delivered,    \* MAX: the messages and changes it has made
  pc,
  req,          \* the request of each attempt
  tries,        \* 2 once #deliver repeats the cid
  reservation,  \* of the guard that checked last, Unsettled if it holds none
  result,       \* the outcome the journal is about to be told
  told          \* what the command answered its owner

vars == <<now, journal, delivered, pc, req, tries, reservation, result, told>>

Immediate == -1

Outcomes == {"sent", "failed", "outcome_unknown"}

WithCid == {"message", "forward"}

Request ==
  [ kind : Kinds, chat : Chats, cid : Attempts \cup {NoCid}, weight : Nat \ {0},
    scheduledFor : Nat \cup {Immediate}, of : Attempts, given : BOOLEAN, route : Routes ]

NoRequest == [kind |-> "none"]

InFlight(a) == pc[a] \in {"check", "serverCheck", "ask", "record"}

TimeOf(r) == IF r.scheduledFor = Immediate THEN now ELSE r.scheduledFor

LineOf(r, cid, outcome, settles) ==
  [ outcome |-> outcome, kind |-> r.kind, chat |-> r.chat, cid |-> cid, weight |-> r.weight,
    time |-> TimeOf(r), reservation |-> settles, of |-> r.of ]

Init ==
  /\ now = 0
  /\ journal = <<>>
  /\ delivered = {}
  /\ pc = [a \in Attempts |-> "idle"]
  /\ req = [a \in Attempts |-> NoRequest]
  /\ tries = [a \in Attempts |-> 1]
  /\ reservation = [a \in Attempts |-> Unsettled]
  /\ result = [a \in Attempts |-> "none"]
  /\ told = [a \in Attempts |-> "none"]

Tick ==
  /\ now < LastTick
  /\ \A a \in Attempts : ~ InFlight(a)
  /\ now' = now + 1
  /\ UNCHANGED <<journal, delivered, pc, req, tries, reservation, result, told>>

\* Attempts whose cid the owner was shown and may give again; never with --at.
Repeatable(kind) ==
  { b \in Attempts :
      /\ Repeats
      /\ kind \in WithCid
      /\ told[b] = "outcome_unknown"
      /\ req[b].kind = kind
      /\ ~ req[b].given
      /\ req[b].scheduledFor = Immediate }

\* A command is typed, with the cid of an earlier one or with a fresh one.
Type(a) ==
  /\ pc[a] = "idle"
  /\ \E kind \in SendKinds, chat \in Chats, route \in Routes :
     \E weight \in IF kind = "delete" THEN 1 .. MaxWeight ELSE {1},
        of \in {a} \cup Repeatable(kind) :
     \E due \in {Immediate} \cup
                (IF kind = "message" /\ of = a THEN {now + d : d \in Ahead} ELSE {}) :
       req' = [req EXCEPT ![a] =
                [ kind |-> kind, chat |-> chat, cid |-> IF kind \in WithCid THEN of ELSE NoCid,
                  weight |-> weight, scheduledFor |-> due, of |-> of, given |-> of # a,
                  route |-> route ]]
  /\ pc' = [pc EXCEPT ![a] = "check"]
  /\ UNCHANGED <<now, journal, delivered, tries, reservation, result, told>>

\* The command's own check knows a cid only when the owner gave one, and only for a
\* message: a forward asks without it.
CommandAsks(r) ==
  [r EXCEPT !.cid = IF r.given /\ r.kind = "message" THEN @ ELSE NoCid]

\* Mutant of Hold: let through without a line in the journal.
HoldNothing(a, r) ==
  /\ reservation' = [reservation EXCEPT ![a] = Unsettled]
  /\ UNCHANGED journal

\* Under the lock: let through on a place already held, or given one.
Hold(a, r) ==
  IF FreeRetry(journal, r, TimeOf(r))
  THEN /\ reservation' = [reservation EXCEPT ![a] = Unsettled]
       /\ UNCHANGED journal
  ELSE /\ reservation' = [reservation EXCEPT ![a] = Len(journal) + 1]
       /\ journal' = Append(journal, LineOf(r, r.cid, "reserved", Len(journal) + 1))

\* The check refuses: permitted(), the limit, or a lock that is not to be had.
Refuse(a, r, answer) ==
  /\ MayForbid \/ (Counts(r.kind) /\ OverLimit(journal, r, TimeOf(r), Limit))
  /\ journal' = Append(journal, LineOf(r, r.cid, "refused", Unsettled))
  /\ reservation' = [reservation EXCEPT ![a] = Unsettled]
  /\ told' = [told EXCEPT ![a] = answer]
  /\ pc' = [pc EXCEPT ![a] = "done"]

CommandCheck(a) ==
  /\ pc[a] = "check"
  /\ LET r == CommandAsks(req[a])
         next == IF r.route = "server" THEN "serverCheck" ELSE "ask"
     IN  \/ /\ ~ Counts(r.kind)
            /\ pc' = [pc EXCEPT ![a] = next]
            /\ UNCHANGED <<journal, reservation, told>>
         \/ Refuse(a, r, "failed")
         \/ /\ Counts(r.kind)
            /\ ~ OverLimit(journal, r, TimeOf(r), Limit)
            /\ pc' = [pc EXCEPT ![a] = next]
            /\ IF r.route = "own" THEN Hold(a, r) ELSE UNCHANGED <<journal, reservation>>
            /\ UNCHANGED told
  /\ UNCHANGED <<now, delivered, req, tries, result>>

\* The server's guard, built anew for each request it forwards.
ServerCheck(a) ==
  /\ pc[a] = "serverCheck"
  /\ LET r == req[a]
     IN  \/ /\ ~ Counts(r.kind)
            /\ pc' = [pc EXCEPT ![a] = "ask"]
            /\ UNCHANGED <<journal, reservation, told>>
         \/ Refuse(a, r, IF tries[a] = 2 THEN "outcome_unknown" ELSE "failed")
         \/ /\ Counts(r.kind)
            /\ ~ OverLimit(journal, r, TimeOf(r), Limit)
            /\ pc' = [pc EXCEPT ![a] = "ask"]
            /\ Hold(a, r)
            /\ UNCHANGED told
  /\ UNCHANGED <<now, delivered, req, tries, result>>

-----------------------------------------------------------------------------
\* MAX, and the network to it (external): what becomes of one request.

Delivery(a) == [of |-> req[a].of, chat |-> req[a].chat, kind |-> req[a].kind]

ByServer(a) == req[a].route = "server"

\* MAX did it and the answer came.  MAX makes one message of two requests with one cid.
\* The command then tells its cache, and a cache that fails is an error of the command.
MaxAnswers(a) ==
  /\ pc[a] = "ask"
  /\ delivered' = delivered \cup {Delivery(a)}
  /\ \E kept \in IF CacheMayFail /\ Counts(req[a].kind) THEN BOOLEAN ELSE {TRUE} :
       LET answer == IF kept THEN "sent" ELSE "failed"
       IN  /\ told' = [told EXCEPT ![a] = answer]
           /\ result' = [result EXCEPT ![a] = IF ByServer(a) THEN "sent" ELSE answer]
  /\ pc' = [pc EXCEPT ![a] = "record"]
  /\ UNCHANGED <<now, journal, req, tries, reservation>>

\* Mutant of MaxRefuses: the refusal of the repeat is taken for the fate of the message.
MaxRefusesPlainly(a) ==
  /\ pc[a] = "ask"
  /\ told' = [told EXCEPT ![a] = "failed"]
  /\ result' = [result EXCEPT ![a] = "failed"]
  /\ pc' = [pc EXCEPT ![a] = "record"]
  /\ UNCHANGED <<now, journal, delivered, req, tries, reservation>>

\* MAX refused.  On the repeat of a lost request any error at all means "unknown".
MaxRefuses(a) ==
  /\ pc[a] = "ask"
  /\ LET answer == IF tries[a] = 2 THEN "outcome_unknown" ELSE "failed"
     IN  /\ told' = [told EXCEPT ![a] = answer]
         /\ result' = [result EXCEPT ![a] = IF ByServer(a) THEN "failed" ELSE answer]
  /\ pc' = [pc EXCEPT ![a] = "record"]
  /\ UNCHANGED <<now, journal, delivered, req, tries, reservation>>

\* Mutant of MaxNotReady: it is journaled, though nothing came of it.
MaxNotReadyJournaled(a) ==
  /\ Uploads
  /\ pc[a] = "ask"
  /\ ByServer(a)
  /\ pc' = [pc EXCEPT ![a] = "record"]
  /\ UNCHANGED <<now, journal, delivered, req, tries, reservation, result, told>>

\* MAX is still processing the upload.  The command asks again with the same cid
\* (on its own connection nothing changes); through the server that is a new request,
\* checked anew, and the server journals nothing for the one refused.
MaxNotReady(a) ==
  /\ Uploads
  /\ pc[a] = "ask"
  /\ ByServer(a)
  /\ req[a].kind = "message"
  /\ reservation' = [reservation EXCEPT ![a] = Unsettled]
  /\ \/ /\ tries[a] = 1
        /\ pc' = [pc EXCEPT ![a] = "serverCheck"]
        /\ UNCHANGED told
     \/ /\ tries[a] = 2
        /\ pc' = [pc EXCEPT ![a] = "done"]
        /\ told' = [told EXCEPT ![a] = "outcome_unknown"]
  /\ UNCHANGED <<now, journal, delivered, req, tries, result>>

\* Only a message that goes out at once is asked for again, once, with its cid.
AsksAgain(a) ==
  req[a].kind \in WithCid /\ req[a].scheduledFor = Immediate /\ tries[a] = 1

\* Mutant of NoAnswer: no answer is taken for a refusal, and nothing is asked again.
NoAnswerFails(a) ==
  /\ pc[a] = "ask"
  /\ \E arrived \in BOOLEAN :
       delivered' = IF arrived THEN delivered \cup {Delivery(a)} ELSE delivered
  /\ pc' = [pc EXCEPT ![a] = "record"]
  /\ result' = [result EXCEPT ![a] = "failed"]
  /\ told' = [told EXCEPT ![a] = "failed"]
  /\ UNCHANGED <<now, journal, req, tries, reservation>>

\* No answer: the request or its answer was lost, or MAX answers too late.
NoAnswer(a) ==
  /\ pc[a] = "ask"
  /\ \E arrived \in BOOLEAN :
       delivered' = IF arrived THEN delivered \cup {Delivery(a)} ELSE delivered
  /\ LET answer == IF req[a].kind \in WithCid THEN "outcome_unknown" ELSE "failed"
     IN  IF AsksAgain(a) /\ ~ ByServer(a)
         THEN /\ tries' = [tries EXCEPT ![a] = 2]
              /\ UNCHANGED <<pc, result, told>>
         ELSE /\ pc' = [pc EXCEPT ![a] = "record"]
              /\ result' = [result EXCEPT ![a] = IF ByServer(a) THEN "outcome_unknown" ELSE answer]
              /\ told' = [told EXCEPT ![a] = IF AsksAgain(a) THEN "none" ELSE answer]
              /\ UNCHANGED tries
  /\ UNCHANGED <<now, journal, req, reservation>>

-----------------------------------------------------------------------------

\* After the outcome is journaled: over, or the command's repeat comes to the server.
AfterRecord(a) ==
  IF told[a] = "none"
  THEN /\ pc' = [pc EXCEPT ![a] = "serverCheck"]
       /\ tries' = [tries EXCEPT ![a] = 2]
  ELSE /\ pc' = [pc EXCEPT ![a] = "done"]
       /\ UNCHANGED tries

\* The outcome settles the reservation, if the guard that checked holds one.
Record(a) ==
  /\ pc[a] = "record"
  /\ journal' = Append(journal, LineOf(req[a], req[a].cid, result[a], reservation[a]))
  /\ reservation' = [reservation EXCEPT ![a] = Unsettled]
  /\ AfterRecord(a)
  /\ UNCHANGED <<now, delivered, req, result, told>>

\* The journal cannot be written: a warning, and the reservation stays in the file.
RecordFails(a) ==
  /\ pc[a] = "record"
  /\ reservation' = [reservation EXCEPT ![a] = Unsettled]
  /\ AfterRecord(a)
  /\ UNCHANGED <<now, journal, delivered, req, result, told>>

\* The process that holds the attempt dies.
Crash(a) ==
  /\ InFlight(a)
  /\ pc' = [pc EXCEPT ![a] = "dead"]
  /\ UNCHANGED <<now, journal, delivered, req, tries, reservation, result, told>>

Step(a) ==
  \/ Type(a) \/ CommandCheck(a) \/ ServerCheck(a)
  \/ MaxAnswers(a) \/ MaxRefuses(a) \/ MaxNotReady(a) \/ NoAnswer(a)
  \/ Record(a) \/ RecordFails(a) \/ Crash(a)

Next == Tick \/ \E a \in Attempts : Step(a)

Spec == Init /\ [][Next]_vars

-----------------------------------------------------------------------------

Line ==
  [ outcome : Outcomes \cup {"reserved", "refused"}, kind : Kinds, chat : Chats,
    cid : Attempts \cup {NoCid}, weight : Nat \ {0}, time : Nat, reservation : Nat,
    of : Attempts ]

\* Every variable has its type; a reservation an attempt holds is a reserved line of the journal.
TypeOK ==
  /\ now \in Nat
  /\ journal \in Seq(Line)
  /\ delivered \subseteq [of : Attempts, chat : Chats, kind : Kinds]
  /\ pc \in [Attempts -> {"idle", "check", "serverCheck", "ask", "record", "done", "dead"}]
  /\ req \in [Attempts -> Request \cup {NoRequest}]
  /\ \A a \in Attempts : IF pc[a] = "idle" THEN req[a] = NoRequest ELSE req[a] \in Request
  /\ tries \in [Attempts -> {1, 2}]
  /\ reservation \in [Attempts -> Nat]
  /\ result \in [Attempts -> Outcomes \cup {"none"}]
  /\ \A a \in Attempts : pc[a] = "record" => result[a] \in Outcomes
  /\ told \in [Attempts -> Outcomes \cup {"none"}]

\* In any hour of the journal, the messages that hold a place are no more than the limit
\* allows - two commands at the limit cannot both pass (ARCHITECTURE.md, section 6;
\* SendGuard.check and withinLimit).
HourlyLimit ==
  \A i \in DOMAIN journal :
    Cardinality(MessagePlaces(journal, journal[i].time)) <= Limit

\* Some entry of the journal keeps a place for this write.
KeepsPlace(of, chat, kind) ==
  \E i \in Entries(journal) :
    HoldsPlace(journal[i]) /\ <<of, chat, kind>> = <<journal[i].of, journal[i].chat, journal[i].kind>>

\* A place is held from the check until MAX has answered: no attempt that reserves has its
\* request out while the journal holds no place for that message, even when a repeat was let
\* through on the place of an earlier attempt and other repeats end meanwhile.
HeldWhileAsking ==
  \A a \in Attempts :
    pc[a] = "ask" /\ Counts(req[a].kind) /\ req[a].route # "fallback" =>
      KeepsPlace(req[a].of, req[a].chat, req[a].kind)

\* Whatever crashed, was lost or could not be journaled: a message MAX delivered keeps a place
\* (off the fallback route, and while the cache does not fail),
\* "so a crash cannot lose a message that may have gone out" (ARCHITECTURE.md, section 6).
DeliveredMessageCounts ==
  \A d \in delivered : d.kind \in WithCid => KeepsPlace(d.of, d.chat, d.kind)

\* What a command says of its own message is so: "sent" was delivered and "failed" was not,
\* a lost answer being neither (ARCHITECTURE.md, section 6).
ToldIsTrue ==
  \A a \in Attempts :
    pc[a] = "done" /\ req[a].kind \in WithCid /\ ~ req[a].given =>
      /\ told[a] = "sent" => Delivery(a) \in delivered
      /\ told[a] = "failed" => Delivery(a) \notin delivered

\* A message on its way holds one place, however often its upload was not ready.
OnePlaceEach ==
  \A i, j \in Entries(journal) :
    /\ journal[i].outcome = "reserved" /\ journal[j].outcome = "reserved"
    /\ journal[i].of = journal[j].of /\ journal[i].chat = journal[j].chat
    => i = j

-----------------------------------------------------------------------------
(***************************************************************************)
(* The inductive invariant behind HeldWhileAsking, DeliveredMessageCounts  *)
(* and HourlyLimit.                                                        *)
(***************************************************************************)

IsAbout(line, of, chat, kind) ==
  line.of = of /\ line.chat = chat /\ line.kind = kind

\* A place for this write that no living attempt can settle any more.
KeptForGood(of, chat, kind) ==
  \E i \in Entries(journal) :
    /\ HoldsPlace(journal[i])
    /\ IsAbout(journal[i], of, chat, kind)
    /\ \A a \in Attempts : reservation[a] = i => pc[a] = "dead"

\* A line settles no later line, and a reserved one is its own reservation.
LinesAreNumbered ==
  \A i \in DOMAIN journal :
    /\ journal[i].reservation <= i
    /\ journal[i].outcome = "reserved" =>
         journal[i].reservation = i /\ Counts(journal[i].kind)

\* A reservation is one attempt's own, open, and about that attempt's request.
ReservationsAreOpen ==
  \A a \in Attempts :
    reservation[a] # Unsettled =>
      /\ pc[a] \in {"ask", "record", "dead"}
      /\ reservation[a] \in Entries(journal)
      /\ journal[reservation[a]].outcome = "reserved"
      /\ IsAbout(journal[reservation[a]], req[a].of, req[a].chat, req[a].kind)
      /\ \A b \in Attempts : reservation[b] = reservation[a] => b = a

\* A cid stands for one message, whose kind is that of the command that drew it.
CidsNameMessages ==
  /\ \A i \in DOMAIN journal :
       /\ journal[i].cid # NoCid => journal[i].cid = journal[i].of /\ journal[i].weight = 1
       /\ pc[journal[i].of] # "idle"
       /\ req[journal[i].of].kind = journal[i].kind
  /\ \A a \in Attempts :
       pc[a] # "idle" =>
         /\ req[a].cid = (IF req[a].kind \in WithCid THEN req[a].of ELSE NoCid)
         /\ req[a].kind # "delete" => req[a].weight = 1
         /\ pc[req[a].of] # "idle"
         /\ req[req[a].of].kind = req[a].kind

\* An attempt whose request is out holds its place, or knows it kept.
PlaceInHand ==
  \A a \in Attempts :
    pc[a] \in {"ask", "record"} /\ Counts(req[a].kind) /\ req[a].route # "fallback" =>
      \/ reservation[a] # Unsettled
      \/ KeptForGood(req[a].of, req[a].chat, req[a].kind)

\* The attempt that may still settle the place of what it delivered will not say "failed".
WillCount(a) ==
  /\ reservation[a] # Unsettled
  /\ \/ pc[a] = "ask" /\ tries[a] = 2 /\ ~ ByServer(a)
     \/ pc[a] = "record" /\ result[a] \in {"sent", "outcome_unknown"}

DeliveredIsKept ==
  ~ CacheMayFail /\ "fallback" \notin Routes =>
    \A d \in delivered :
      d.kind \in WithCid =>
        \/ KeptForGood(d.of, d.chat, d.kind)
        \/ \E a \in Attempts : WillCount(a) /\ Delivery(a) = d

\* Without repeats, every line about an attempt in flight is its own, at its own time.
LinesInFlight ==
  ~ Repeats =>
    /\ \A a \in Attempts : pc[a] # "idle" => req[a].of = a
    /\ \A i \in DOMAIN journal :
         LET r == req[journal[i].of]
         IN  InFlight(journal[i].of) =>
               /\ journal[i].time = TimeOf(r)
               /\ journal[i].chat = r.chat
               /\ journal[i].weight = r.weight

PlacesInv ==
  /\ LinesAreNumbered
  /\ ReservationsAreOpen
  /\ CidsNameMessages
  /\ PlaceInHand
  /\ DeliveredIsKept
  /\ LinesInFlight
=============================================================================
