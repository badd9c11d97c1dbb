------------------------------ MODULE MCWaits ------------------------------
(***************************************************************************)
(* What a command waits for, checked in one run: the lock of the send       *)
(* journal, and the login of `max serve`.  They share nothing: a behaviour  *)
(* moves one of the two.                                                    *)
(***************************************************************************)
EXTENDS JournalLock, MaxServer

VARIABLE part

vars == << part, lockVars, serverVars >>

Init ==
  /\ part \in {"lock", "server"}
  /\ LockInit /\ ServerInit
  /\ part = "lock" => longList   \* one account is enough for a server that does not move

Next ==
  /\ UNCHANGED part
  /\ \/ part = "lock" /\ LockNext /\ UNCHANGED serverVars
     \/ part = "server" /\ ServerNext /\ UNCHANGED lockVars

Spec == Init /\ [][Next]_vars

\* The fairness of LockFairSpec and of ServerFairSpec, of the part that moves.
FairSpec ==
  /\ Spec
  /\ \A p \in Procs : WF_vars(part = "lock" /\ LockStep(p) /\ UNCHANGED << part, serverVars >>)
  /\ \A i \in Ids :
       /\ WF_vars(part = "server" /\ LoginSettles(i) /\ UNCHANGED << part, lockVars >>)
       /\ WF_vars(part = "server" /\ RestSettles(i) /\ UNCHANGED << part, lockVars >>)
       /\ WF_vars(part = "server" /\ RetryFires(i) /\ UNCHANGED << part, lockVars >>)
  /\ WF_vars(part = "server" /\ RefreshFires /\ UNCHANGED << part, lockVars >>)
  /\ WF_vars(part = "server" /\ StopEnds /\ UNCHANGED << part, lockVars >>)

\* Every check of a send ends: with an answer, with "the send journal stayed locked", or dead -- but for
\* one that finds the same stale lock for ever and cannot remove it, for it never comes to look at the
\* deadline (SendJournal.locked, src/src/sends/journal.ts).
EveryCheckEnds == \A p \in Procs : (part = "lock" ~> pc[p] \in Ended) \/ []<><<StealFails(p)>>_vars
=============================================================================
