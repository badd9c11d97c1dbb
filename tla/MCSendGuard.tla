---------------------------- MODULE MCSendGuard ----------------------------
(* SendGuard on small instances. *)
EXTENDS SendGuard, TLC

Symmetry == Permutations(Attempts)
=============================================================================
