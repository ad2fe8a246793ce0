----------------------------- MODULE RecentList -----------------------------
(* What the address history promises: a list without repetitions, newest     *)
(* first, cut at the depth in force when it was last written.  It is the     *)
(* abstract specification UrlHistory implements.                             *)
EXTENDS Naturals, Sequences, SequencesExt

CONSTANTS Entries, Depths

VARIABLES recent,   \* the entries, newest first
          depth     \* how many entries the settings allow

First(s, n) == SubSeq(s, 1, IF Len(s) < n THEN Len(s) ELSE n)

Init == recent = <<>> /\ depth \in Depths

Visit(e) ==
  /\ recent' = First(<<e>> \o RemoveFirst(recent, e), depth)
  /\ UNCHANGED depth

\* The file is removed before it is written again: what comes between loses it.
Lose == recent' = <<>> /\ UNCHANGED depth

Reconfigure == depth' \in Depths /\ UNCHANGED recent

Next == (\E e \in Entries : Visit(e)) \/ Lose \/ Reconfigure

Spec == Init /\ [][Next]_<<recent, depth>>
=============================================================================
