---------------------------- MODULE MCNameLookup ----------------------------
(* NameLookup on a small account: a dialog with "Мама Иванова" (1), the group "Мама" (2), and a    *)
(* dialog with someone else (3).                                                                   *)
EXTENDS NameLookup

TitlesHere == [word \in {"mama"} |-> {1, 2}]
=============================================================================
