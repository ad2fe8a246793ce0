---------------------------- MODULE MCNavigation ----------------------------
(* Navigation with a stack of three pages and the two users.                  *)
EXTENDS Navigation

Patient == [hurried |-> FALSE, missing |-> FALSE, last |-> 6]
Hurried == [hurried |-> TRUE, missing |-> TRUE, last |-> 4]
MCWorlds == {Patient, Hurried}

\* Nothing but the haste.
MCHurried == {[Hurried EXCEPT !.missing = FALSE]}
=============================================================================
