------------------------------ MODULE LiveLogin ------------------------------
(***************************************************************************)
(* The login `max serve` hands to the commands (src/src/client.ts, `live`):  *)
(* the chats of its own login, changed by every push it hears, and taken    *)
(* over by the next login, which asks MAX only for what changed since.      *)
(*                                                                          *)
(* A chat here is its last message, the time of that, the unread count and  *)
(* its title, and what the code does not follow of them (`off`).  The next  *)
(* login of a server that is up starts from the same objects, so what the   *)
(* old connection hears changes both.  When and how often the server        *)
(* connects is MaxServer's matter, what it hands on PushRelay's; here one   *)
(* login runs at a time.                                                    *)
(***************************************************************************)
EXTENDS Naturals, Sequences, SequencesExt, FiniteSetsExt

CONSTANTS
  LiveChats,
  FirstChats,     \* LOGIN_CHATS: how many a full login answers
  MaxMoments,     \* bounds: what happens in the account, and connections
  MaxLogins

ASSUME LiveAssumption == FirstChats \in Nat \ {0} /\ MaxMoments \in Nat /\ MaxLogins \in Nat

VARIABLES
  account,    \* MAX's chats, and when each last changed
  moment,
  link,       \* of each connection: none, login, rest, ready, up, closed
  unheard,      \* pushes on their way to it, or that came before it was the server's
  chats,      \* its login's chats
  shared,     \* chats whose object the login under way has in common with the server's
  serving,     \* the server's connection, or none
  resume,     \* what the next login starts from: a list of chats, or nothing
  since       \* what the login under way sent as chatsSync

liveVars == << account, moment, link, unheard, chats, shared, serving, resume, since >>

Logins == 1 .. MaxLogins
NoClient == 0
NotHeld == [last |-> 0, time |-> 0, unread |-> 0, title |-> 0, held |-> FALSE, off |-> {}]
NoChats == [c \in LiveChats |-> NotHeld]
Fields == {"last", "unread", "title"}
Entry(c) == [last |-> account[c].last, time |-> account[c].time, unread |-> account[c].unread,
             title |-> account[c].title, held |-> TRUE, off |-> {}]

LiveInit ==
  /\ account = [c \in LiveChats |-> [last |-> 0, time |-> 0, unread |-> 0, title |-> 0, changed |-> 0]]
  /\ moment = 0
  /\ link = [k \in Logins |-> "none"]
  /\ unheard = [k \in Logins |-> << >>]
  /\ chats = [k \in Logins |-> NoChats]
  /\ shared = {} /\ serving = NoClient /\ resume = NoChats /\ since = 0

----------------------------------------------------------------------------
\* What happens in the account, and is pushed to every connection that has logged in.
TakesPushes(k) == link[k] \in {"rest", "ready", "up"}

Occurs(c, now, push) ==
  /\ moment < MaxMoments
  /\ moment' = moment + 1
  /\ account' = [account EXCEPT ![c] = [now EXCEPT !.changed = moment + 1]]
  /\ unheard' = [k \in Logins |-> IF TakesPushes(k) THEN Append(unheard[k], push) ELSE unheard[k]]
  /\ UNCHANGED << link, chats, shared, serving, resume, since >>

Push(kind, c) == [kind |-> kind, chat |-> c, at |-> moment + 1, whole |-> NotHeld]

Message(c, ours) ==
  Occurs(c, [account[c] EXCEPT !.last = moment + 1, !.time = moment + 1, !.unread = IF ours THEN 0 ELSE @ + 1],
          Push(IF ours THEN "ours" ELSE "message", c))

ReadOnPhone(c) ==
  /\ account[c].unread > 0
  /\ Occurs(c, [account[c] EXCEPT !.unread = 0], Push("read", c))

ChatChanged(c) ==
  LET now == [account[c] EXCEPT !.title = moment + 1] IN
  Occurs(c, now, [Push("changed", c) EXCEPT !.whole = [Entry(c) EXCEPT !.title = moment + 1]])

\* The last message goes, and with it what was unread of it.
Deletion(c) ==
  /\ account[c].last > 0
  /\ Occurs(c, [account[c] EXCEPT !.last = 0, !.unread = 0], Push("deleted", c))

\* An edit comes as opcode 128 too, with a status; so does a removal.
MessageEdited(c, at) ==
  /\ at \in 1 .. account[c].last
  /\ Occurs(c, account[c], [Push("edited", c) EXCEPT !.at = at])

----------------------------------------------------------------------------
\* patch, for a push about a chat the list has.  An edit is taken for a message, a deletion not followed,
\* and a message is counted again by the other connection of a shared object.
NewLast(entry, push) == [entry EXCEPT !.last = push.at, !.time = push.at]
Patched(entry, push, again) ==
  CASE push.kind = "message" ->
         [NewLast(entry, push) EXCEPT !.unread = @ + 1, !.off = (@ \ {"last"}) \cup again]
    [] push.kind = "ours" -> [NewLast(entry, push) EXCEPT !.unread = 0, !.off = @ \ {"last", "unread"}]
    [] push.kind = "edited" ->
         [NewLast(entry, push) EXCEPT !.unread = @ + 1,
            !.off = @ \cup {"unread"} \cup IF push.at = entry.last THEN {} ELSE {"last"}]
    [] push.kind = "read" -> [entry EXCEPT !.unread = 0, !.off = @ \ {"unread"}]
    [] push.kind = "changed" -> push.whole
    [] push.kind = "deleted" -> [entry EXCEPT !.off = @ \cup {"last", "unread"}]

\* Only a chat that MAX sends whole replaces the object; the rest is written into it.
Patch(k, push) ==
  LET c == push.chat
      next == { j \in Logins : link[j] \in {"login", "rest", "ready"} }
      both == c \in shared /\ push.kind # "changed"
      again == IF both /\ \E j \in next : TakesPushes(j) THEN {"unread"} ELSE {}
  IN /\ chats' = [j \in Logins |->
          IF (j = k \/ (both /\ j \in next)) /\ (chats[j][c].held \/ push.kind = "changed")
          THEN [chats[j] EXCEPT ![c] = Patched(@, push, again)] ELSE chats[j]]
     /\ shared' = IF push.kind = "changed" THEN shared \ {c} ELSE shared

Hears(k) ==
  /\ serving = k /\ link[k] = "up" /\ unheard[k] # << >>
  /\ unheard' = [unheard EXCEPT ![k] = Tail(@)]
  /\ Patch(k, Head(unheard[k]))
  /\ UNCHANGED << account, moment, link, serving, resume, since >>

----------------------------------------------------------------------------
\* resumeFrom: the list, and the newest event in it.
Newest(list) == Max({ list[c].time : c \in LiveChats })
Resumable(list) == \E c \in LiveChats : list[c].held

\* A push that is lost came no later than one that was written into a shared object: the next login does not
\* ask for what it told.
Skipped(k) ==
  LET old == { i \in 1 .. Len(unheard[k]) : unheard[k][i].kind # "edited" /\ unheard[k][i].at <= Newest(chats[k]) } IN
  { unheard[k][i].chat : i \in old }
ToResume(k) == [c \in LiveChats |-> IF c \in Skipped(k) THEN [chats[k][c] EXCEPT !.off = Fields] ELSE chats[k][c]]

\* #connect, with what the server's connection holds, or what it held when it was lost.  A login beside one
\* that is up comes a minute after the last, when what was pushed has long been heard.
Connects(k) ==
  /\ serving # NoClient => unheard[serving] = << >>
  /\ link[k] = "none" /\ \A j \in Logins : (j < k => link[j] # "none") /\ link[j] \notin {"login", "rest", "ready"}
  /\ LET list == IF serving # NoClient THEN chats[serving] ELSE resume IN
     /\ chats' = [chats EXCEPT ![k] = list]
     /\ since' = IF Resumable(list) THEN Newest(list) ELSE 0
     /\ shared' = IF serving # NoClient /\ Resumable(list) THEN { c \in LiveChats : list[c].held } ELSE {}
  /\ link' = [link EXCEPT ![k] = "login"]
  /\ UNCHANGED << account, moment, unheard, serving, resume >>

\* LOGIN with chatsSync: the chats that changed since then, over those held; in #mergeChanged.
MergeHeldFirst(k, changed) == [c \in LiveChats |-> IF c \in changed /\ ~chats[k][c].held THEN Entry(c) ELSE chats[k][c]]
MergeChanged(k, changed) == [c \in LiveChats |-> IF c \in changed THEN Entry(c) ELSE chats[k][c]]

ResumedLogin(k) ==
  LET changed == { c \in LiveChats : account[c].changed > since } IN
  /\ link[k] = "login" /\ Resumable(chats[k])
  /\ chats' = [chats EXCEPT ![k] = MergeChanged(k, changed)]
  /\ shared' = shared \ changed
  /\ link' = [link EXCEPT ![k] = "ready"]
  /\ UNCHANGED << account, moment, unheard, serving, resume, since >>

\* A full login answers the newest; with as many as that, the rest is asked for once.
FullLogin(k) ==
  /\ link[k] = "login" /\ ~Resumable(chats[k])
  /\ \E newest \in kSubset(Min({FirstChats, Cardinality(LiveChats)}), LiveChats) :
       /\ \A c \in newest, d \in LiveChats \ newest : account[c].time >= account[d].time
       /\ chats' = [chats EXCEPT ![k] = [c \in LiveChats |-> IF c \in newest THEN Entry(c) ELSE NotHeld]]
       /\ link' = [link EXCEPT ![k] = IF Cardinality(newest) < FirstChats THEN "ready" ELSE "rest"]
  /\ UNCHANGED << account, moment, unheard, shared, serving, resume, since >>

\* #readRestOfChats: a chat pushed about since the login is read with it, and patched once more later.
RestRead(k) ==
  LET missing == { c \in LiveChats : ~chats[k][c].held }
      pushedTo == { unheard[k][i].chat : i \in { n \in 1 .. Len(unheard[k]) : unheard[k][n].kind = "message" } }
  IN
  /\ link[k] = "rest"
  /\ chats' = [chats EXCEPT ![k] = [c \in LiveChats |->
       IF c \in missing THEN [Entry(c) EXCEPT !.off = IF c \in pushedTo THEN {"unread"} ELSE {}] ELSE @[c]]]
  /\ link' = [link EXCEPT ![k] = "ready"]
  /\ UNCHANGED << account, moment, unheard, shared, serving, resume, since >>

RestFails(k) ==
  /\ link[k] = "rest"
  /\ link' = [link EXCEPT ![k] = "ready"]
  /\ UNCHANGED << account, moment, unheard, chats, shared, serving, resume, since >>

\* The new connection is the server's; the one it replaces is closed.
Replaces(k) ==
  /\ link[k] = "ready"
  /\ serving' = k
  /\ link' = [j \in Logins |-> IF j = k THEN "up" ELSE IF j = serving THEN "closed" ELSE link[j]]
  /\ unheard' = [j \in Logins |-> IF j = serving THEN << >> ELSE unheard[j]]
  /\ shared' = {}
  /\ UNCHANGED << account, moment, chats, resume, since >>

LostOrFails(k) ==
  /\ link[k] \in {"login", "rest", "ready", "up"}
  /\ link' = [link EXCEPT ![k] = "closed"]
  /\ shared' = {}
  /\ IF serving = k THEN serving' = NoClient /\ resume' = ToResume(k) ELSE UNCHANGED << serving, resume >>
  /\ unheard' = [unheard EXCEPT ![k] = << >>]
  /\ UNCHANGED << account, moment, chats, since >>

InAccount(c) ==
  \/ Message(c, FALSE) \/ Message(c, TRUE) \/ ReadOnPhone(c) \/ ChatChanged(c) \/ Deletion(c)
  \/ \E at \in 1 .. MaxMoments : MessageEdited(c, at)

LiveNext ==
  \/ \E c \in LiveChats : InAccount(c)
  \/ \E k \in Logins :
       Hears(k) \/ Connects(k) \/ ResumedLogin(k) \/ FullLogin(k) \/ RestRead(k) \/ RestFails(k)
         \/ Replaces(k) \/ LostOrFails(k)

LiveSpec == LiveInit /\ [][LiveNext]_liveVars
----------------------------------------------------------------------------
EntryType == [last : 0 .. MaxMoments, time : 0 .. MaxMoments, unread : Nat, title : 0 .. MaxMoments,
              held : BOOLEAN, off : SUBSET Fields]

LiveTypeOK ==
  /\ account \in [LiveChats -> [last : 0 .. MaxMoments, time : 0 .. MaxMoments, unread : 0 .. MaxMoments,
                               title : 0 .. MaxMoments, changed : 0 .. MaxMoments]]
  /\ moment \in 0 .. MaxMoments
  /\ link \in [Logins -> {"none", "login", "rest", "ready", "up", "closed"}]
  /\ \A k \in Logins : \A i \in 1 .. Len(unheard[k]) :
       unheard[k][i] \in [kind : {"message", "ours", "read", "changed", "deleted", "edited"}, chat : LiveChats,
                        at : 1 .. MaxMoments, whole : EntryType]
  /\ \A k \in Logins : chats[k] \in [LiveChats -> EntryType]
  /\ shared \subseteq LiveChats
  /\ serving \in Logins \cup {NoClient}
  /\ resume \in [LiveChats -> EntryType]
  /\ since \in 0 .. MaxMoments

(***************************************************************************)
(* What the server hands out as the login of a command is what MAX has,     *)
(* through drops, logins that resume and logins that replace one another    *)
(* while messages arrive: once it has heard what was pushed to it, each       *)
(* chat's last message, unread count and title are MAX's.  What is left to  *)
(* be wrong is a deletion the list could not follow (src/src/server/        *)
(* server.ts:427), until the chat is answered anew, and two counts of       *)
(* unread messages the code gets wrong: an edit is counted as a message     *)
(* (src/src/client.ts:1536), and a message that two connections of a shared  *)
(* object hear, or that comes while the rest of a long list is read, twice. *)
(***************************************************************************)
SnapshotTrue ==
  serving # NoClient /\ unheard[serving] = << >> =>
    \A c \in LiveChats : chats[serving][c].held =>
      \A field \in Fields \ chats[serving][c].off : chats[serving][c][field] = account[c][field]
=============================================================================
