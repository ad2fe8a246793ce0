------------------------------ MODULE UrlStack ------------------------------
(***************************************************************************)
(* The page stack of BalletMini (BalletMini/urlstack.c): an array of       *)
(* PageSTACK_SIZE + 1 slots and the index stack_top of the first slot      *)
(* above the page on screen.  A slot holds the id of the page (its cache   *)
(* file is "<id>.oms"; 0 means "no page"), the position the page was left  *)
(* at, and the block with what the user typed into its form.  Slots above  *)
(* stack_top hold the pages the user can go forward to.                    *)
(*                                                                         *)
(* The module has no variables: each function of urlstack.c is an operator *)
(* on the array s and the top t, so that PageStack, which runs them in     *)
(* sequence, and Navigation, which runs them on two threads, share them.   *)
(*                                                                         *)
(* Abstractions.  view_line and pos_cur_ref are always written together    *)
(* and are one field "view_line".  user_text and user_list are allocated,  *)
(* written and freed in the same way and are one block "form".             *)
(***************************************************************************)
EXTENDS Naturals

CONSTANTS PageSTACK_SIZE,   \* "Max cache size" of the configuration
          Blocks,           \* the heap blocks forms can live in
          NULL              \* the null pointer

ASSUME SizeAssumption == PageSTACK_SIZE \in Nat /\ PageSTACK_SIZE >= 2
ASSUME NullAssumption == NULL \notin Blocks

Slots == 0 .. PageSTACK_SIZE

\* What zeromem leaves in a slot.
EmptySlot == [id |-> 0, view_line |-> 0, form |-> NULL]

InitUrlStack == [n \in Slots |-> EmptySlot]

\* killpage(n) for every n in K.  The files and the blocks of the killed
\* slots are given back by the caller: see KilledBy.
killpage(s, K) == [n \in Slots |-> IF n \in K THEN EmptySlot ELSE s[n]]

\* mutant: no zeromem of the slot that was moved
ShiftDownDirty(s) == [n \in Slots |-> IF n < PageSTACK_SIZE - 1 THEN s[n + 1] ELSE s[n]]

\* The memmove and zeromem of a push on a full stack.
ShiftDown(s) ==
  [n \in Slots |-> IF n < PageSTACK_SIZE - 1 THEN s[n + 1]
                   ELSE IF n = PageSTACK_SIZE - 1 THEN EmptySlot
                   ELSE s[n]]

Full(t) == t = PageSTACK_SIZE

\* The array and the top once "kill the surplus" has been done.
MadeRoom(s, t) == IF Full(t) THEN ShiftDown(killpage(s, {0})) ELSE s
RoomTop(t) == IF Full(t) THEN t - 1 ELSE t

\* mutants: the page just above the top stays, or all of them do
ForwardPagesAbove(s, t) == {n \in (t + 1) .. (PageSTACK_SIZE - 1) : s[n].id # 0}
ForwardPagesKept(s, t) == {}

\* The pages a push removes above the top: "no way to go forward".
ForwardPages(s, t) == {n \in t .. (PageSTACK_SIZE - 1) : s[n].id # 0}

PushPageToStack(s, t, now) ==
  LET r == MadeRoom(s, t)
  IN  [killpage(r, ForwardPages(r, RoomTop(t))) EXCEPT ![RoomTop(t)].id = now]

PushTopFull(t) == t + 1                     \* mutant: no stack_top--
PushTop(t) == RoomTop(t) + 1

\* mutant: killpage(0) comes after the memmove
KilledAfterMove(s, t) ==
  LET r == MadeRoom(s, t)
  IN  {r[n] : n \in ForwardPages(r, RoomTop(t))}
      \cup (IF Full(t) THEN {s[1]} ELSE {})

\* The contents of the slots that a push kills.
KilledBy(s, t) ==
  LET r == MadeRoom(s, t)
  IN  {r[n] : n \in ForwardPages(r, RoomTop(t))}
      \cup (IF Full(t) THEN {s[0]} ELSE {})

PopPageFromStack(t) == IF t = 0 THEN 0 ELSE t - 1

CheckPageStackTop(s, t) == s[t].id # 0

\* ForwardPageFromStack returns NULL, and leaves the top alone, at the end of
\* the array or when the slot at the top is empty.
CanForward(s, t) == t # PageSTACK_SIZE /\ s[t].id # 0
ForwardPageFromStack(s, t) == IF CanForward(s, t) THEN t + 1 ELSE t

UpPageStackPast(t) == t + 1                 \* mutant: no bound
UpPageStack(t) == IF t = PageSTACK_SIZE THEN t ELSE t + 1

setPageParamsTop(s, t, line) == [s EXCEPT ![t].view_line = line]   \* mutant: off by one
setPageParams(s, t, line) == [s EXCEPT ![t - 1].view_line = line]

\* setUserText and setUserList: the first value allocates the block b, a
\* later one overwrites it.
setUserData(s, t, b) == [s EXCEPT ![t - 1].form = b]

FreePageStack(s) == {s[n] : n \in {m \in 0 .. (PageSTACK_SIZE - 1) : s[m].id # 0}}
=============================================================================
