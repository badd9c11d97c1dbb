---------------------------- MODULE ContactStore ----------------------------
(***************************************************************************)
(* The chats and people of the local copy (src/src/cache/store.ts), kept    *)
(* current by the login of every command (src/src/client.ts): MAX answers   *)
(* what changed since the marker the store holds, and the answer's time is  *)
(* the next marker.                                                         *)
(*                                                                          *)
(* A dialog stands for itself and for the person on its other side; its     *)
(* version is the time MAX last changed it, which orders both.  A login     *)
(* over an earlier one's chats (`resume`) writes what a full one does.      *)
(***************************************************************************)
EXTENDS Integers, FiniteSets, FiniteSetsExt

CONSTANTS
  Commands,     \* processes without `max serve`
  Dialogs,      \* one-to-one chats MAX has
  Named,        \* those whose person a full login names; the others are asked for
  LoginChats,   \* LOGIN_CHATS: how many chats one login answer holds
  MaxTime, MaxLogins    \* bounds; a clear and a rebuild count as a login

ASSUME ContactAssumption ==
  /\ Named \subseteq Dialogs
  /\ LoginChats \in Nat \ {0}
  /\ {MaxTime, MaxLogins} \subseteq Nat

VARIABLES
  changed,      \* when MAX last changed each dialog, and its clock
  clock,
  chats,        \* the version held of each dialog, or Never
  members,      \* dialogs whose person chat_members names
  people,       \* dialogs whose person has a row
  recency,      \* last_messaged_at of that row, or Never for NULL
  marker,       \* sync_marker, or Never
  run,          \* what each command is doing
  logins,
  unordered,    \* dialogs whose row, or whose person's, was written since the order was derived
  cut,          \* whether a login was merged although the rest of its chats was not read
  crossed       \* whether a late write put back a row that is counted on, or a clear met a command

contactVars == << changed, clock, chats, members, people, recency, marker, run, logins, unordered, cut, crossed >>

Never == -1
Versions == Never .. MaxTime
Resting ==
  [ at |-> "rest", kind |-> "none", sync |-> Never, got |-> [d \in Dialogs |-> Never],
    with |-> {}, time |-> 0, whole |-> TRUE, left |-> {} ]
In(got) == { d \in Dialogs : got[d] # Never }

ContactInit ==
  /\ changed = [d \in Dialogs |-> 0] /\ clock = 0
  /\ chats = [d \in Dialogs |-> Never]
  /\ members = {} /\ people = {}
  /\ recency = [d \in Dialogs |-> Never]
  /\ marker = Never
  /\ run = [c \in Commands |-> Resting]
  /\ logins = 0
  /\ unordered = {} /\ cut = FALSE /\ crossed = FALSE

----------------------------------------------------------------------------
DialogChanges(d) ==
  /\ clock < MaxTime
  /\ clock' = clock + 1
  /\ changed' = [changed EXCEPT ![d] = clock + 1]
  /\ UNCHANGED << chats, members, people, recency, marker, run, logins, unordered, cut, crossed >>

\* A store that was crossed or cut is followed no further than the commands under way.
Going == logins < MaxLogins /\ ~ crossed /\ ~ cut

\* The marker is read with the request; `max serve` sends none.
Begin(c) ==
  /\ run[c] = Resting
  /\ Going
  /\ logins' = logins + 1
  /\ \E kind \in {"messages", "chats", "contacts"} :
       \E sync \in IF kind = "messages" THEN {marker, Never} ELSE {marker} :
         run' = [run EXCEPT ![c].at = "asked", ![c].kind = kind, ![c].sync = sync]
  /\ UNCHANGED << changed, clock, chats, members, people, recency, marker, unordered, cut, crossed >>

\* `contacts sync` forgets the marker, and its login reads it again.
BeginSync(c) ==
  /\ run[c] = Resting
  /\ Going
  /\ logins' = logins + 1
  /\ marker' = Never
  /\ run' = [run EXCEPT ![c].at = "login", ![c].kind = "sync"]
  /\ UNCHANGED << changed, clock, chats, members, people, recency, unordered, cut, crossed >>

AskLogin(c) ==
  /\ run[c].at = "login"
  /\ run' = [run EXCEPT ![c].at = "asked", ![c].sync = marker]
  /\ UNCHANGED << changed, clock, chats, members, people, recency, marker, logins, unordered, cut, crossed >>

NewestOf(S) == { d \in S : Cardinality({ e \in S : changed[e] > changed[d] }) < LoginChats }

\* The newest LoginChats that changed, newest first; a delta may leave their participants out.
LoginAnswer(c) ==
  LET delta == { d \in Dialogs : changed[d] > run[c].sync } IN
  \E some \in SUBSET delta : \E with \in {some, {}} :
    /\ run[c].at = "asked"
    /\ some \subseteq NewestOf(delta)
    /\ Cardinality(some) = Min({LoginChats, Cardinality(delta)})
    /\ \A d \in some, e \in delta \ some : changed[d] >= changed[e]
    /\ run[c].sync = Never => with = some
    /\ run' = [run EXCEPT ![c].at = IF Cardinality(some) < LoginChats THEN "merge" ELSE "older",
                          ![c].got = [d \in Dialogs |-> IF d \in some THEN changed[d] ELSE Never],
                          ![c].with = with, ![c].time = clock, ![c].whole = (some = delta)]
    /\ UNCHANGED << changed, clock, chats, members, people, recency, marker, logins, unordered, cut, crossed >>

\* #readRestOfChats: one request for the chats behind the oldest; cut short or refused, the
\* login goes on with what there is.
RestOfChats(c) ==
  LET got == run[c].got
      behind == { d \in Dialogs \ In(got) : \A e \in In(got) : changed[d] <= got[e] }
  IN
  /\ run[c].at = "older"
  /\ \E rest \in SUBSET behind :
       run' = [run EXCEPT ![c].at = "merge",
                          ![c].got = [d \in Dialogs |-> IF d \in rest THEN changed[d] ELSE got[d]],
                          ![c].with = @ \cup rest,
                          ![c].whole = @ \/ rest = behind]
  /\ UNCHANGED << changed, clock, chats, members, people, recency, marker, logins, unordered, cut, crossed >>

Ordered(rows, inChats) ==
  [d \in Dialogs |-> IF d \in inChats /\ rows[d] # Never THEN rows[d] ELSE recency[d]]

Laid(got, rows) == [d \in Dialogs |-> IF got[d] # Never THEN got[d] ELSE rows[d]]

\* #participantsOf: "did not say" is not "nobody".
Kept(job) == members \cup job.with

LoginNames(job) == IF job.sync = Never THEN Named \cap In(job.got) ELSE {}

\* What the rest of the command still needs of the login: the people without a name.
AfterLogin(job) ==
  IF job.kind = "messages" THEN [Resting EXCEPT !.at = "open"]
  ELSE [job EXCEPT !.at = "people", !.sync = Never, !.time = 0, !.whole = TRUE,
                   !.left = job.with \ LoginNames(job), !.with = {},
                   !.got = IF job.kind = "chats" THEN @ ELSE Resting.got]

PutsBack(rows) == \E d \in Dialogs : rows[d] < chats[d]

\* The logins under way that were asked for a later marker than this one leaves.
AskedPast(time) == { e \in Commands : run[e].at \in {"asked", "older", "merge"} /\ run[e].sync > time }

\* #mergeLogin, one transaction.  A login that merges after a later one puts its rows and its marker back.
Merge(c) ==
  LET job == run[c] IN
  /\ job.at = "merge"
  /\ chats' = Laid(job.got, chats)
  /\ people' = people \cup LoginNames(job)
  /\ members' = Kept(job)
  /\ recency' = Ordered(chats', people' \cap members')
  /\ unordered' = unordered \ members'
  /\ marker' = job.time
  /\ cut' = (cut \/ ~ job.whole)
  /\ crossed' = (crossed \/ (PutsBack(chats') /\ AskedPast(job.time) # {}))
  /\ run' = [run EXCEPT ![c] = AfterLogin(job)]
  /\ UNCHANGED << changed, clock, logins >>

\* Mutant of MergeFails: the marker is not part of the transaction.
MergeFailsAfterMarker(c) ==
  /\ run[c].at = "merge"
  /\ marker' = run[c].time
  /\ run' = [run EXCEPT ![c] = AfterLogin(run[c])]
  /\ UNCHANGED << changed, clock, chats, members, people, recency, logins, unordered, cut, crossed >>

\* A locked file or a full disk: rolled back, and the command goes on.
MergeFails(c) ==
  /\ run[c].at = "merge"
  /\ run' = [run EXCEPT ![c] = AfterLogin(run[c])]
  /\ UNCHANGED << changed, clock, chats, members, people, recency, marker, logins, unordered, cut, crossed >>

----------------------------------------------------------------------------
(* What a command does once it is logged in. *)

\* #nameSenders: the person of a dialog is written because a message of theirs was read.
NameSender(c, d) ==
  /\ run[c].at = "open"
  /\ d \notin people
  /\ people' = people \cup {d}
  /\ unordered' = unordered \cup {d}
  /\ UNCHANGED << changed, clock, chats, members, recency, marker, run, logins, cut, crossed >>

\* The other kinds write no more: what they answer is read from the store.
AfterPeople(job) ==
  IF job.kind = "chats" THEN [job EXCEPT !.at = "write", !.left = In(job.got)] ELSE Resting

\* #peopleFor: one request for everyone the login left unnamed, then their rows, then the order.
PeopleFor(c) ==
  LET job == run[c]
      missing == job.left
  IN
  /\ job.at = "people"
  /\ \/ missing = {} /\ run' = [run EXCEPT ![c] = AfterPeople(job)] /\ UNCHANGED << people, unordered >>
     \/ /\ missing # {}
        /\ people' = people \cup missing
        /\ unordered' = unordered \cup (missing \ people)
        /\ run' = [run EXCEPT ![c].at = "order"]
  /\ UNCHANGED << changed, clock, chats, members, recency, marker, logins, cut, crossed >>

OrderPeople(c) ==
  /\ run[c].at = "order"
  /\ recency' = Ordered(chats, people \cap members)
  /\ unordered' = unordered \ members
  /\ run' = [run EXCEPT ![c] = AfterPeople(run[c])]
  /\ UNCHANGED << changed, clock, chats, members, people, marker, logins, cut, crossed >>

\* chats.list: the chats again, row by row, with the titles found for them (left out here), and the
\* order is not derived again.
WriteChat(c, d) ==
  LET job == run[c] IN
  /\ job.at = "write"
  /\ d \in job.left
  /\ chats' = [chats EXCEPT ![d] = job.got[d]]
  /\ crossed' = (crossed \/ PutsBack(chats'))
  /\ unordered' = IF chats' = chats THEN unordered ELSE unordered \cup {d}
  /\ run' = [run EXCEPT ![c].left = @ \ {d}]
  /\ UNCHANGED << changed, clock, members, people, recency, marker, logins, cut >>

\* All is written that was to be; or a request fails, or the process ends.
Finish(c) ==
  /\ run[c] # Resting
  /\ run' = [run EXCEPT ![c] = Resting]
  /\ UNCHANGED << changed, clock, chats, members, people, recency, marker, logins, unordered, cut, crossed >>

----------------------------------------------------------------------------
(* `max cache clear`, one table after another, and a file that a newer max builds again.  A      *)
(* command that comes between two tables is a crossing, as one that was there before is: it is   *)
(* not told from it here.                                                                        *)

Busy == \E c \in Commands : run[c] # Resting

\* The first n of the tables; it stops short when the process dies.
Clear(n) ==
  /\ Going
  /\ logins' = logins + 1
  /\ crossed' = (crossed \/ Busy \/ n < 4)
  /\ chats' = [d \in Dialogs |-> Never]
  /\ people' = IF n >= 2 THEN {} ELSE people
  /\ recency' = IF n >= 2 THEN [d \in Dialogs |-> Never] ELSE recency
  /\ unordered' = IF n >= 2 THEN {} ELSE unordered
  /\ members' = IF n >= 3 THEN {} ELSE members
  /\ marker' = IF n = 4 THEN Never ELSE marker
  /\ UNCHANGED << changed, clock, run, cut >>

Rebuild ==
  /\ marker # Never
  /\ Going
  /\ logins' = logins + 1
  /\ crossed' = (crossed \/ Busy)
  /\ chats' = [d \in Dialogs |-> Never] /\ members' = {} /\ people' = {}
  /\ recency' = [d \in Dialogs |-> Never] /\ unordered' = {} /\ marker' = Never
  /\ UNCHANGED << changed, clock, run, cut >>

ContactNext ==
  \/ Rebuild \/ \E n \in 1 .. 4 : Clear(n)
  \/ \E d \in Dialogs : DialogChanges(d)
  \/ \E c \in Commands :
       \/ Begin(c) \/ BeginSync(c) \/ AskLogin(c) \/ LoginAnswer(c) \/ RestOfChats(c) \/ Merge(c) \/ MergeFails(c)
       \/ PeopleFor(c) \/ OrderPeople(c) \/ Finish(c)
       \/ \E d \in Dialogs : NameSender(c, d) \/ WriteChat(c, d)

ContactSpec == ContactInit /\ [][ContactNext]_contactVars

----------------------------------------------------------------------------
(* Properties. *)

JobRecord ==
  [ at : {"rest", "login", "asked", "older", "merge", "open", "people", "order", "write"},
    kind : {"none", "messages", "chats", "contacts", "sync"}, sync : Versions,
    got : [Dialogs -> Versions], with : SUBSET Dialogs, time : 0 .. MaxTime, whole : BOOLEAN,
    left : SUBSET Dialogs ]

\* Every variable has its type.
ContactTypeOK ==
  /\ clock \in 0 .. MaxTime /\ changed \in [Dialogs -> 0 .. MaxTime]
  /\ chats \in [Dialogs -> Versions] /\ recency \in [Dialogs -> Versions]
  /\ members \subseteq Dialogs
  /\ people \subseteq Dialogs /\ unordered \subseteq Dialogs
  /\ marker \in Versions
  /\ run \in [Commands -> JobRecord]
  /\ logins \in 0 .. MaxLogins
  /\ cut \in BOOLEAN /\ crossed \in BOOLEAN

\* The marker never runs ahead of the rows: what MAX changed up to it is stored as MAX has it, so
\* the next login's delta leaves no hole -- whichever of several commands merges last, whichever
\* fails or dies, and also when a late login puts rows and marker back.  It fails where a row is put back
\* that is counted on: by a listing, whose rows are older than another login's merge, or by a late
\* login, when a third was asked for from the later marker.  And where a clear met a command or
\* stopped short, and where a login's chats were not all read.
MarkerBehindRows ==
  marker # Never /\ ~ crossed /\ ~ cut =>
    \A d \in Dialogs : changed[d] <= marker => chats[d] = changed[d]

\* The order of the contacts is that of the dialogs held, whatever was crossed or cut, also for the people
\* no login names: their rows come after their dialog's, and the order is derived again then.  It lags
\* for the sender of a message read, and for a dialog whose row a listing changed (its own merge had
\* failed, another's or a clear came between): until the next derivation.
RecencyFollows ==
  \A d \in (people \cap members) \ unordered :
    chats[d] # Never => recency[d] = chats[d]

\* However logins, syncs and namings of several commands interleave, overtake each other, fail and die,
\* what they leave is whole: the marker names only changes that are stored, and the order of the
\* contacts is the one the chats give (mergeDelta and refreshRecency, src/src/cache/store.ts).  The
\* exceptions are those of its two parts.
LoginsMergeWhole == MarkerBehindRows /\ RecencyFollows
=============================================================================
