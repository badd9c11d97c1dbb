---------------------------- MODULE JournalLock ----------------------------
(***************************************************************************)
(* The lock file beside the send journal, step by step: SendJournal.locked *)
(* of src/src/sends/journal.ts, with the body SendGuard.check runs under   *)
(* it (src/src/sends/guard.ts): read the journal, and append a reserved    *)
(* line if one more fits.  Every other process may run between two system  *)
(* calls.  The journal is its number of places; all lie within an hour.    *)
(*                                                                         *)
(* A lock is "stale" once its file is older than LOCK_STALE_MS.  The body  *)
(* takes far less than that, so a lock grows stale only when its maker has *)
(* died or could not remove it (a machine suspended under a held lock is   *)
(* left out).                                                              *)
(***************************************************************************)
EXTENDS Naturals, FiniteSets

CONSTANTS
  Procs,        \* processes that check a send, one check each
  Limit,        \* sendsPerHour
  MaxWaits,     \* LOCK_WAIT_MS / 20 ms
  MaxCrashes,   \* bound on processes that die
  UnlinkFails   \* whether the system may refuse to remove a lock file (its folder, another user's)

ASSUME LockAssumption ==
  /\ IsFiniteSet(Procs)
  /\ Limit \in Nat
  /\ MaxWaits \in Nat
  /\ MaxCrashes \in Nat
  /\ UnlinkFails \in BOOLEAN

VARIABLES
  lock,         \* the lock file: NoLock, or its maker and whether it is stale
  pc,
  waits,        \* pauses of 20 ms each process has made
  seen,         \* places each process read in the journal
  places,       \* places the journal holds
  answer        \* what the check told each process

lockVars == <<lock, pc, waits, seen, places, answer>>

NoLock == [made |-> FALSE]

LockBy(p) == [made |-> TRUE, by |-> p, stale |-> FALSE]

Ended == {"done", "gaveUp", "dead"}

InBody(p) == pc[p] \in {"read", "append"}

Goto(p, to) == pc' = [pc EXCEPT ![p] = to]

LockInit ==
  /\ lock = NoLock
  /\ pc = [p \in Procs |-> "open"]
  /\ waits = [p \in Procs |-> 0]
  /\ seen = [p \in Procs |-> 0]
  /\ places = 0
  /\ answer = [p \in Procs |-> "none"]

\* Mutant of OpenLock: opened without "wx", an old file is no error.
OpenLockAnyway(p) ==
  /\ pc[p] = "open"
  /\ lock' = LockBy(p)
  /\ Goto(p, "read")
  /\ UNCHANGED <<waits, seen, places, answer>>

\* openSync(lock, "wx")
OpenLock(p) ==
  /\ pc[p] = "open"
  /\ IF lock = NoLock
     THEN lock' = LockBy(p) /\ Goto(p, "read")
     ELSE UNCHANGED lock /\ Goto(p, "stat")
  /\ UNCHANGED <<waits, seen, places, answer>>

\* Mutant of StatLock: no deadline.
StatLockForever(p) ==
  /\ pc[p] = "stat"
  /\ IF lock # NoLock /\ lock.stale THEN Goto(p, "steal") ELSE Goto(p, "open")
  /\ UNCHANGED <<lock, waits, seen, places, answer>>

\* Mutant of StatLock: it waits before it looks at the deadline.
StatLockLater(p) ==
  /\ pc[p] = "stat"
  /\ waits' = [waits EXCEPT ![p] = @ + 1]
  /\ IF lock # NoLock /\ lock.stale
     THEN Goto(p, "steal")
     ELSE Goto(p, IF waits[p] = MaxWaits THEN "gaveUp" ELSE "open")
  /\ UNCHANGED <<lock, seen, places, answer>>

\* The lock was there: how old is it?  A file gone meanwhile counts as new.
StatLock(p) ==
  /\ pc[p] = "stat"
  /\ IF lock # NoLock /\ lock.stale
     THEN Goto(p, "steal") /\ UNCHANGED waits
     ELSE IF waits[p] = MaxWaits
     THEN Goto(p, "gaveUp") /\ UNCHANGED waits
     ELSE Goto(p, "open") /\ waits' = [waits EXCEPT ![p] = @ + 1]
  /\ UNCHANGED <<lock, seen, places, answer>>

\* unlinkSync(lock) by name: whichever file has that name now.
StealLock(p) ==
  /\ pc[p] = "steal"
  /\ lock' = NoLock
  /\ Goto(p, "open")
  /\ UNCHANGED <<waits, seen, places, answer>>

\* The error is swallowed, and the loop goes on without a look at the deadline.
StealFails(p) ==
  /\ UnlinkFails
  /\ pc[p] = "steal"
  /\ lock # NoLock
  /\ Goto(p, "open")
  /\ UNCHANGED <<lock, waits, seen, places, answer>>

\* Mutant of ReadJournal: the journal may hold one more than the limit.
ReadOneMore(p) ==
  /\ pc[p] = "read"
  /\ seen' = [seen EXCEPT ![p] = places]
  /\ IF places <= Limit
     THEN Goto(p, "append") /\ UNCHANGED answer
     ELSE Goto(p, "unlock") /\ answer' = [answer EXCEPT ![p] = "refused"]
  /\ UNCHANGED <<lock, waits, places>>

\* withinLimit(journal.entries())
ReadJournal(p) ==
  /\ pc[p] = "read"
  /\ seen' = [seen EXCEPT ![p] = places]
  /\ IF places < Limit
     THEN Goto(p, "append") /\ UNCHANGED answer
     ELSE Goto(p, "unlock") /\ answer' = [answer EXCEPT ![p] = "refused"]
  /\ UNCHANGED <<lock, waits, places>>

\* journal.append of the reserved line
AppendPlace(p) ==
  /\ pc[p] = "append"
  /\ places' = places + 1
  /\ answer' = [answer EXCEPT ![p] = "held"]
  /\ Goto(p, "unlock")
  /\ UNCHANGED <<lock, waits, seen>>

\* The finally: unlinkSync(lock), whoever made it; an error is swallowed.
Unlock(p) ==
  /\ pc[p] = "unlock"
  /\ lock' = NoLock \/ (UnlinkFails /\ lock' = lock)
  /\ Goto(p, "done")
  /\ UNCHANGED <<waits, seen, places, answer>>

LockCrash(p) ==
  /\ pc[p] \notin Ended
  /\ Cardinality({q \in Procs : pc[q] = "dead"}) < MaxCrashes
  /\ Goto(p, "dead")
  /\ UNCHANGED <<lock, waits, seen, places, answer>>

\* LOCK_STALE_MS pass over the lock.
LockAges ==
  /\ lock # NoLock
  /\ ~ lock.stale
  /\ pc[lock.by] \in Ended
  /\ lock' = [lock EXCEPT !.stale = TRUE]
  /\ UNCHANGED <<pc, waits, seen, places, answer>>

LockStep(p) ==
  \/ OpenLock(p) \/ StatLock(p) \/ StealLock(p) \/ StealFails(p)
  \/ ReadJournal(p) \/ AppendPlace(p) \/ Unlock(p)

LockNext ==
  \/ LockAges
  \/ \E p \in Procs : LockStep(p) \/ LockCrash(p)

LockSpec == LockInit /\ [][LockNext]_lockVars

\* A living process goes on with its loop; nobody is owed a crash or a delay.
LockFairSpec == LockSpec /\ \A p \in Procs : WF_lockVars(LockStep(p))

-----------------------------------------------------------------------------

LockTypeOK ==
  /\ lock \in {NoLock} \cup [made : {TRUE}, by : Procs, stale : BOOLEAN]
  /\ pc \in [Procs -> {"open", "stat", "steal", "read", "append", "unlock"} \cup Ended]
  /\ waits \in [Procs -> 0 .. MaxWaits]
  /\ seen \in [Procs -> Nat]
  /\ places \in Nat
  /\ answer \in [Procs -> {"none", "held", "refused"}]

\* locked "runs body with the journal to itself, across processes" (journal.ts): no two
\* processes are between reading the journal and having appended to it.
MutualExclusion ==
  \A p, q \in Procs : InBody(p) /\ InBody(q) => p = q

\* "Two sends at the limit must not both read 'one left'" (journal.ts).
NeverOver == places <= Limit

\* What a process read in the journal is still true when it appends its line.
SeenIsCurrent ==
  \A p \in Procs : pc[p] = "append" => seen[p] = places

\* What holds between any two steps while no process dies and every lock can be removed: the lock file is there exactly
\* while a process is between opening and unlinking it, and what that process knows is true.
HolderOwnsLock ==
  /\ \A p \in Procs : pc[p] \in {"read", "append", "unlock"} => lock = LockBy(p)
  /\ lock # NoLock => \E p \in Procs : pc[p] \in {"read", "append", "unlock"}

NobodyDied == \A p \in Procs : pc[p] \notin {"dead", "steal"}

UnansweredUntilTheEnd ==
  \A p \in Procs : pc[p] \in {"open", "stat", "read", "append"} => answer[p] = "none"

RoomForTheHolder == \A p \in Procs : pc[p] = "append" => seen[p] = places /\ places < Limit

LockInv ==
  LockTypeOK /\ NobodyDied /\ HolderOwnsLock /\ UnansweredUntilTheEnd /\ RoomForTheHolder /\ NeverOver

\* The lock file makes check and append one step of a counter of places.
Counter == INSTANCE PlaceCounter WITH Procs <- Procs, Limit <- Limit, places <- places, answer <- answer

ImplementsCounter == Counter!Spec
=============================================================================
