------------------------------ MODULE PushRelay ------------------------------
(***************************************************************************)
(* How `max serve` hands what MAX pushes on to its watchers                 *)
(* (src/src/server/server.ts): pushes that come before a login is done are  *)
(* held, a login that replaces another runs beside it, and what is pushed   *)
(* is named and handed on one at a time.                                    *)
(*                                                                          *)
(* One login is under way at a time; MaxServer has the others.  MAX pushes  *)
(* to every connection it has taken the LOGIN of.  Within a connection      *)
(* nothing is repeated or reordered: that is Connection's.  A message that  *)
(* max itself sends is in the answer of its connection instead of a push,   *)
(* and the server treats it as one.                                         *)
(***************************************************************************)
EXTENDS Integers, Sequences, FiniteSets, SequencesExt

CONSTANTS
  Ids,                    \* messages: MAX numbers them as they come
  SeenMax,                \* how many message ids #seen holds
  MaxEvents, MaxConns     \* bounds

ASSUME RelayAssumption == Ids \subseteq Nat /\ SeenMax \in Nat /\ MaxEvents \in Nat /\ MaxConns \in Nat \ {0}

Conns == 1 .. MaxConns
Events == [kind : {"message", "edit", "delete"}, id : Ids]

VARIABLES
  life,        \* MAX's view of each message: none, sent, or deleted
  wire,        \* pushes on their way over each connection
  taken,       \* connections MAX pushes to
  made,        \* connections made so far
  current,     \* #client's connection, or 0
  joining,     \* the connection of the login under way, or 0
  early,       \* pushes held for it
  replacing,   \* the login is done and the connection it replaces is being closed
  stale,       \* the timer of #goneStale is set
  handing,     \* what #handing still has to hand on
  seen,        \* #seen, oldest first
  heard,       \* what a watcher was sent
  overlapped,  \* has MAX pushed to two connections at once?
  happened

relayVars == << life, wire, taken, made, current, joining, early, replacing, stale, handing, seen, heard,
                overlapped, happened >>

RelayInit ==
  /\ life = [m \in Ids |-> "none"]
  /\ wire = [k \in Conns |-> << >>]
  /\ taken = {} /\ made = 0
  /\ current = 0 /\ joining = 0 /\ early = << >> /\ replacing = FALSE /\ stale = FALSE
  /\ handing = << >> /\ seen = << >> /\ heard = << >>
  /\ overlapped = FALSE /\ happened = 0

----------------------------------------------------------------------------
\* In a chat: a message, an edit of it, its end.
Happens(kind, m) ==
  /\ happened < MaxEvents
  /\ happened' = happened + 1
  /\ life[m] = IF kind = "message" THEN "none" ELSE "sent"
  /\ kind = "message" => \A k \in Ids : life[k] = "none" => m <= k
  /\ life' = [life EXCEPT ![m] = IF kind = "delete" THEN "deleted" ELSE "sent"]
  /\ wire' = [k \in Conns |-> IF k \in taken THEN Append(wire[k], [kind |-> kind, id |-> m]) ELSE wire[k]]
  /\ UNCHANGED << taken, made, current, joining, early, replacing, stale, handing, seen, heard, overlapped >>

\* #connect, at the start, by a retry, or by the timer of #goneStale.
BeginLogin ==
  /\ joining = 0 /\ ~replacing /\ made < MaxConns
  /\ current = 0 \/ stale
  /\ made' = made + 1 /\ joining' = made + 1
  /\ stale' = FALSE
  /\ UNCHANGED << life, wire, taken, current, early, replacing, handing, seen, heard, overlapped, happened >>

MaxTakesLogin ==
  /\ joining \notin taken \cup {0}
  /\ taken' = taken \cup {joining}
  /\ overlapped' = (overlapped \/ current # 0)
  /\ UNCHANGED << life, wire, made, current, joining, early, replacing, stale, handing, seen, heard, happened >>

Closed(k) ==
  /\ taken' = taken \ {k}
  /\ wire' = [j \in Conns |-> IF j = k THEN << >> ELSE wire[j]]

ReloginFails ==
  /\ joining # 0
  /\ Closed(joining)
  /\ joining' = 0 /\ early' = << >>
  /\ UNCHANGED << life, made, current, replacing, stale, handing, seen, heard, overlapped, happened >>

\* #pushed: a deletion, or a message of a chat the list lacks, cannot be followed in it, so the login
\* has gone stale; and the events go behind what is being handed on.
Pushed(events) ==
  /\ handing' = handing \o events
  /\ \E listed \in BOOLEAN :
       stale' = (stale \/ \E i \in DOMAIN events : events[i].kind = "delete" \/ ~listed)

\* The login is done.  Where it replaces a connection, the pushes held wait for that one's close.
LoginDone ==
  /\ joining \in taken
  /\ current' = joining /\ joining' = 0
  /\ \/ /\ current = 0
        /\ Pushed(early)
        /\ early' = << >>
        /\ UNCHANGED << taken, wire, replacing >>
     \/ /\ current # 0
        /\ Closed(current)
        /\ replacing' = TRUE
        /\ UNCHANGED << early, handing, stale >>
  /\ UNCHANGED << life, made, seen, heard, overlapped, happened >>

Replaced ==
  /\ replacing
  /\ replacing' = FALSE
  /\ Pushed(early)
  /\ early' = << >>
  /\ UNCHANGED << life, wire, taken, made, current, joining, seen, heard, overlapped, happened >>

\* A push arrives: for the server's connection, or held for the one that is logging in.
Arrives(k) ==
  /\ wire[k] # << >>
  /\ wire' = [wire EXCEPT ![k] = Tail(@)]
  /\ \/ k = current /\ Pushed(<< Head(wire[k]) >>) /\ UNCHANGED early
     \/ k = joining /\ early' = Append(early, Head(wire[k])) /\ UNCHANGED << handing, stale >>
  /\ UNCHANGED << life, taken, made, current, joining, replacing, seen, heard, overlapped, happened >>

\* #lost.
Lost ==
  /\ current # 0
  /\ Closed(current)
  /\ current' = 0
  /\ UNCHANGED << life, made, joining, early, replacing, stale, handing, seen, heard, overlapped, happened >>

----------------------------------------------------------------------------
\* Mutant of Ready: each push is named on its own, and a deletion needs less time.
ReadyAlone(i) == i \in DOMAIN handing

\* In arrival order: #handing is one chain.
Ready(i) == i = 1 /\ handing # << >>

\* Mutant of Remembered: nothing is forgotten.
RememberedAll(m) == Append(seen, m)

\* #seen, which forgets its oldest.
Remembered(m) == LET all == Append(seen, m) IN IF Len(all) > SeenMax THEN Tail(all) ELSE all

\* The event is named and broadcast: a message once, anything else each time.
HandOn(i) ==
  /\ Ready(i)
  /\ handing' = RemoveAt(handing, i)
  /\ LET event == handing[i] IN
     \/ /\ event.kind # "message"
        /\ heard' = Append(heard, event) /\ UNCHANGED seen
     \/ /\ event.kind = "message" /\ ~Contains(seen, event.id)
        /\ heard' = Append(heard, event) /\ seen' = Remembered(event.id)
     \/ /\ event.kind = "message" /\ Contains(seen, event.id)
        /\ UNCHANGED << heard, seen >>
  /\ UNCHANGED << life, wire, taken, made, current, joining, early, replacing, stale, overlapped, happened >>

\* Its sender or chat could not be read: it is noted and dropped.
CannotBeRead(i) ==
  /\ Ready(i)
  /\ handing' = RemoveAt(handing, i)
  /\ UNCHANGED << life, wire, taken, made, current, joining, early, replacing, stale, seen, heard, overlapped, happened >>

RelayNext ==
  \/ \E kind \in {"message", "edit", "delete"}, m \in Ids : Happens(kind, m)
  \/ BeginLogin \/ MaxTakesLogin \/ ReloginFails \/ LoginDone \/ Replaced \/ Lost
  \/ \E k \in Conns : Arrives(k)
  \/ \E i \in 1 .. MaxEvents * MaxConns : HandOn(i) \/ CannotBeRead(i)

RelaySpec == RelayInit /\ [][RelayNext]_relayVars

----------------------------------------------------------------------------
\* Every variable has its type.
RelayTypeOK ==
  /\ life \in [Ids -> {"none", "sent", "deleted"}]
  /\ wire \in [Conns -> Seq(Events)]
  /\ made \in 0 .. MaxConns /\ taken \subseteq 1 .. made
  /\ {current, joining} \subseteq 0 .. made
  /\ {early, handing, heard} \subseteq Seq(Events)
  /\ seen \in Seq(Ids) /\ Len(seen) <= SeenMax
  /\ {replacing, stale, overlapped} \subseteq BOOLEAN
  /\ happened \in 0 .. MaxEvents

Messages(i, j) == { k \in i + 1 .. j - 1 : heard[k].kind = "message" }

\* A watcher hears a message once, over any drops, logins that overlap and pushes held for them ("MAX
\* repeats pushes after a hiccup", src/src/server/server.ts:323), but for one repeated after as many
\* others as #seen holds; and nothing of a message after its deletion ("an edit ... must not reach a
\* watcher after the deletion behind it", src/src/server/server.ts:261), unless two connections have
\* heard it.
HeardInOrder ==
  \A i, j \in DOMAIN heard :
    i < j /\ heard[i].id = heard[j].id =>
      /\ heard[i].kind = "message" /\ heard[j].kind = "message" => Cardinality(Messages(i, j)) >= SeenMax
      /\ ~overlapped => heard[i].kind # "delete"
=============================================================================
