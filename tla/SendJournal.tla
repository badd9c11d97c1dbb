---------------------------- MODULE SendJournal ----------------------------
(***************************************************************************)
(* What the lines of a profile's send journal mean to the hourly limit:    *)
(* src/src/sends/journal.ts (entries) and the pure half of                 *)
(* src/src/sends/guard.ts (countsTowardLimit, weightOf, withinLimit).      *)
(*                                                                         *)
(* A journal is a sequence of lines.  A reservation's random id is the     *)
(* index of the line that made it, so ids are fresh by construction.       *)
(* Kinds are the classes the guard tells apart:                            *)
(*   "message", "forward"  they have a cid and weigh 1;                    *)
(*   "edit"     an edit or a notifying pin: no cid, weighs 1;              *)
(*   "delete"   a deletion, a new group, people added: weighs its count;   *)
(*   "reaction" everything that wakes nobody.                              *)
(* The field "of" is not in the file: it names the message (or the write)  *)
(* a line is about, for the properties only.                               *)
(***************************************************************************)
EXTENDS Integers, Sequences, FiniteSets

CONSTANTS
  NoCid,      \* a line or a request without a cid
  Hour        \* HOUR_MS, in ticks

ASSUME HourAssumption == Hour \in Nat \ {0}

Kinds == {"message", "forward", "edit", "delete", "reaction"}

Counts(kind) == kind \in {"message", "forward", "edit", "delete"}

Unsettled == 0                   \* no reservation

\* Oldest first, each reservation folded into the outcome that settled it.
Entries(journal) ==
  { i \in DOMAIN journal :
      journal[i].outcome = "reserved" =>
        ~ \E j \in DOMAIN journal :
            /\ journal[j].outcome # "reserved"
            /\ journal[j].reservation = journal[i].reservation }

\* Mutant of Near: an hour looked at from its end alone, blind to what is scheduled.
NearBefore(t, at) == t <= at /\ at - t < Hour

Near(t, at) == t - at < Hour /\ at - t < Hour

HoldsPlace(line) ==
  /\ Counts(line.kind)
  /\ line.outcome \in {"sent", "outcome_unknown", "reserved"}

Counted(journal, at) ==
  { i \in Entries(journal) : HoldsPlace(journal[i]) /\ Near(journal[i].time, at) }

\* Mutant of SameSend: the cid alone, whatever the chat.
SameCid(a, b) == a.cid # NoCid /\ a.cid = b.cid

SameSend(a, b) == a.cid # NoCid /\ a.cid = b.cid /\ a.chat = b.chat

Unsure(line) == line.outcome = "outcome_unknown"

\* The last line about this cid in this chat is an unknown outcome: MAX delivers
\* one message for that line and for the repeat, so the repeat needs no place.
FreeRetry(journal, request, at) ==
  \E i \in Counted(journal, at) :
    /\ SameSend(journal[i], request)
    /\ Unsure(journal[i])
    /\ \A j \in Counted(journal, at) : SameSend(journal[j], request) => j <= i

\* An unknown outcome that a later line about the same send has replaced is dropped.
Recent(journal, at) ==
  { i \in Counted(journal, at) :
      ~ /\ Unsure(journal[i])
        /\ \E j \in Counted(journal, at) : j > i /\ SameSend(journal[j], journal[i]) }

\* The sum of the weights, counted one place at a time.
Places(journal, lines) ==
  UNION { {i} \X (1 .. journal[i].weight) : i \in lines }

Used(journal, at) == Cardinality(Places(journal, Recent(journal, at)))

\* withinLimit: refused, let through on the place its message already has, or owed a place.
OverLimit(journal, request, at, limit) ==
  \/ request.weight > limit
  \/ /\ ~ FreeRetry(journal, request, at)
     /\ Used(journal, at) + request.weight > limit

(***************************************************************************)
(* For the properties: the messages that hold places in the hour that      *)
(* starts at w, one message once however many lines it has.                *)
(***************************************************************************)
InWindow(journal, w) ==
  { i \in Entries(journal) :
      HoldsPlace(journal[i]) /\ w <= journal[i].time /\ journal[i].time < w + Hour }

MessagePlaces(journal, w) ==
  UNION { {<<journal[i].of, journal[i].chat>>} \X (1 .. journal[i].weight) :
            i \in InWindow(journal, w) }
=============================================================================
