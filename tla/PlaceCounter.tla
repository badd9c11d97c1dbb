---------------------------- MODULE PlaceCounter ----------------------------
(***************************************************************************)
(* What SendJournal.locked promises the guard: the journal as a counter of *)
(* places that a process reads and takes from in one step, so "two sends   *)
(* at the limit must not both read 'one left'" (src/src/sends/journal.ts). *)
(* A process may also end with no answer: it died, or could not wait.      *)
(***************************************************************************)
EXTENDS Naturals

CONSTANTS Procs, Limit

VARIABLES places, answer

vars == <<places, answer>>

Init ==
  /\ places = 0
  /\ answer = [p \in Procs |-> "none"]

Take(p) ==
  /\ answer[p] = "none"
  /\ places < Limit
  /\ places' = places + 1
  /\ answer' = [answer EXCEPT ![p] = "held"]

TurnAway(p) ==
  /\ answer[p] = "none"
  /\ places >= Limit
  /\ answer' = [answer EXCEPT ![p] = "refused"]
  /\ UNCHANGED places

Next == \E p \in Procs : Take(p) \/ TurnAway(p)

Spec == Init /\ [][Next]_vars

\* The limit of the profile is never passed.
NeverOver == places <= Limit
=============================================================================
