--------------------------- MODULE MCJournalLock ---------------------------
(* JournalLock on small instances. *)
EXTENDS JournalLock, TLC

Symmetry == Permutations(Procs)
=============================================================================
