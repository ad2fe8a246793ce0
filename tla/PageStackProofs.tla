--------------------------- MODULE PageStackProofs ---------------------------
(***************************************************************************)
(* Proofs about the page stack (PageStack), for every size of the array,   *)
(* every set of blocks, documents and positions, and every bound of the    *)
(* clock.                                                                  *)
(***************************************************************************)
EXTENDS PageStack, SequenceTheorems, FiniteSetTheorems, WellFoundedInduction, TLAPS

-----------------------------------------------------------------------------
(* What the operators of UrlStack compute, slot by slot.                     *)

\* setPageParams changes nothing but the position of one slot.
LEMMA SavedShape ==
  ASSUME TypeOK
  PROVE  /\ Saved \in [Slots -> Slot]
         /\ \A n \in Slots : Saved[n].id = PageSTACK[n].id /\ Saved[n].form = PageSTACK[n].form
<1>1. stack_top - 1 \in Slots /\ PageSTACK \in [Slots -> Slot] /\ line \in Lines \cup {0}
  BY SizeAssumption DEF TypeOK, Slots
<1> QED  BY <1>1 DEF Saved, setPageParams, Slot

\* A push writes the slot below the new top, kills what is above it and keeps
\* what is below, moved down by one when the stack was full.
LEMMA PushShape ==
  ASSUME NEW s \in [Slots -> Slot], NEW t \in 0 .. PageSTACK_SIZE, NEW now \in Ids,
         NEW p, p = PushPageToStack(s, t, now)
  PROVE  /\ p \in [Slots -> Slot]
         /\ RoomTop(t) \in 0 .. (PageSTACK_SIZE - 1)
         /\ \A n \in Slots : n < RoomTop(t) => p[n] = IF Full(t) THEN s[n + 1] ELSE s[n]
         /\ p[RoomTop(t)].id = now
         /\ p[RoomTop(t)].form = IF Full(t) \/ s[t].id # 0 THEN NULL ELSE s[t].form
         /\ \A n \in Slots : (n > RoomTop(t) /\ n < PageSTACK_SIZE)
                                => p[n] = IF s[n].id # 0 THEN EmptySlot ELSE s[n]
         /\ p[PageSTACK_SIZE] = s[PageSTACK_SIZE]
<1> DEFINE r == MadeRoom(s, t)
           k == killpage(r, ForwardPages(r, RoomTop(t)))
<1>1. EmptySlot \in Slot /\ EmptySlot.id = 0 /\ EmptySlot.form = NULL
  BY DEF EmptySlot, Slot
<1>2. RoomTop(t) \in 0 .. (PageSTACK_SIZE - 1) /\ RoomTop(t) \in Slots
  BY SizeAssumption DEF RoomTop, Full, Slots
<1>3. /\ r \in [Slots -> Slot]
      /\ ~Full(t) => r = s
      /\ Full(t) => /\ \A n \in Slots : n < PageSTACK_SIZE - 1 => r[n] = s[n + 1]
                    /\ r[PageSTACK_SIZE - 1] = EmptySlot
      /\ r[PageSTACK_SIZE] = s[PageSTACK_SIZE]
  <2>1. CASE ~Full(t)
    BY <2>1, SizeAssumption DEF MadeRoom
  <2>2. CASE Full(t)
    <3> DEFINE q == killpage(s, {0})
    <3>1. q \in [Slots -> Slot] /\ \A n \in Slots : n # 0 => q[n] = s[n]
      BY <1>1 DEF killpage
    <3>2. r = ShiftDown(q)
      BY <2>2 DEF MadeRoom
    <3>3. \A n \in Slots : n < PageSTACK_SIZE - 1 => n + 1 \in Slots /\ n + 1 # 0
      BY SizeAssumption DEF Slots
    <3> HIDE DEF q
    <3>4. r \in [Slots -> Slot]
      BY <3>1, <3>2, <3>3, <1>1 DEF ShiftDown
    <3>5. PageSTACK_SIZE \in Slots /\ PageSTACK_SIZE - 1 \in Slots /\ PageSTACK_SIZE # 0
      BY SizeAssumption DEF Slots
    <3> QED  BY <2>2, <3>1, <3>2, <3>3, <3>4, <3>5, SizeAssumption DEF ShiftDown
  <2> QED  BY <2>1, <2>2
<1> HIDE DEF r
<1>4. /\ k \in [Slots -> Slot]
      /\ \A n \in Slots : k[n] = IF n \in RoomTop(t) .. (PageSTACK_SIZE - 1) /\ r[n].id # 0
                                 THEN EmptySlot ELSE r[n]
  BY <1>1, <1>3 DEF killpage, ForwardPages
<1>5. p = [k EXCEPT ![RoomTop(t)].id = now]
  BY DEF PushPageToStack, r
<1> HIDE DEF k
<1>6. p \in [Slots -> Slot] /\ \A n \in Slots : n # RoomTop(t) => p[n] = k[n]
  BY <1>2, <1>4, <1>5 DEF Slot
<1>7. p[RoomTop(t)].id = now /\ p[RoomTop(t)].form = k[RoomTop(t)].form
  BY <1>2, <1>4, <1>5 DEF Slot
<1>8. \A n \in Slots : n < RoomTop(t) => p[n] = IF Full(t) THEN s[n + 1] ELSE s[n]
  BY <1>2, <1>3, <1>4, <1>6, SizeAssumption DEF Slots, RoomTop
<1>9. p[RoomTop(t)].form = IF Full(t) \/ s[t].id # 0 THEN NULL ELSE s[t].form
  BY <1>1, <1>2, <1>3, <1>4, <1>7, SizeAssumption DEF RoomTop, Full, Slots
<1>10. \A n \in Slots : (n > RoomTop(t) /\ n < PageSTACK_SIZE)
                           => p[n] = IF s[n].id # 0 THEN EmptySlot ELSE s[n]
  BY <1>2, <1>3, <1>4, <1>6, SizeAssumption DEF RoomTop, Full, Slots
<1>11. p[PageSTACK_SIZE] = s[PageSTACK_SIZE]
  BY <1>2, <1>3, <1>4, <1>6, SizeAssumption DEF Slots
<1> QED  BY <1>2, <1>6, <1>7, <1>8, <1>9, <1>10, <1>11

\* A push kills the oldest page when the stack is full, and the pages ahead
\* when it is not.
LEMMA KilledSlots ==
  ASSUME NEW s, NEW t \in 0 .. PageSTACK_SIZE
  PROVE  KilledBy(s, t) = IF Full(t) THEN {s[0]}
                          ELSE {s[n] : n \in {m \in t .. (PageSTACK_SIZE - 1) : s[m].id # 0}}
<1>1. CASE ~Full(t)
  BY <1>1 DEF KilledBy, MadeRoom, RoomTop, ForwardPages
<1>2. CASE Full(t)
  <2>1. MadeRoom(s, t)[PageSTACK_SIZE - 1] = EmptySlot
    BY <1>2, SizeAssumption DEF MadeRoom, ShiftDown, Slots
  <2>2. RoomTop(t) = PageSTACK_SIZE - 1
    BY <1>2 DEF RoomTop, Full
  <2>3. ForwardPages(MadeRoom(s, t), RoomTop(t)) = {}
    BY <2>1, <2>2, SizeAssumption DEF ForwardPages, EmptySlot
  <2> QED  BY <1>2, <2>3 DEF KilledBy
<1> QED  BY <1>1, <1>2

-----------------------------------------------------------------------------
(* Types.                                                                    *)

\* A push from a typed state leads to a typed state.
LEMMA PushTypes ==
  ASSUME TypeOK, NEW t \in 0 .. PageSTACK_SIZE, NEW now \in Ids, NEW d \in Docs,
         PushAndLoad(Saved, t, now, d)
  PROVE  /\ PageSTACK' \in [Slots -> Slot]
         /\ stack_top' \in 1 .. PageSTACK_SIZE
         /\ heap' \in [Blocks -> Forms \cup {NULL}]
         /\ disk' \in [Ids -> Docs \cup {NULL}]
         /\ clock' \in Ids
<1>1. PageSTACK' \in [Slots -> Slot]
  BY SavedShape, PushShape DEF PushAndLoad
<1>2. stack_top' \in 1 .. PageSTACK_SIZE
  BY SizeAssumption DEF PushAndLoad, PushTop, RoomTop, Full
<1>3. heap' \in [Blocks -> Forms \cup {NULL}]
  BY DEF PushAndLoad, FreeForms, TypeOK
<1>4. disk' \in [Ids -> Docs \cup {NULL}]
  BY DEF PushAndLoad, Unlinked, TypeOK
<1> QED  BY <1>1, <1>2, <1>3, <1>4 DEF PushAndLoad

\* Going to a cached slot from a typed state leads to a typed state.
LEMMA CachedTypes ==
  ASSUME TypeOK, NEW t \in 0 .. PageSTACK_SIZE, ShowCached(Saved, t)
  PROVE  TypeOK'
<1>1. Saved \in [Slots -> Slot] /\ t \in Slots
  BY SavedShape DEF Slots
<1>2. line' \in Lines \cup {0}
  BY <1>1 DEF ShowCached, Slot
<1>3. stack_top' \in 1 .. PageSTACK_SIZE
  BY SizeAssumption DEF ShowCached, UpPageStack
<1> QED  BY <1>1, <1>2, <1>3 DEF ShowCached, TypeOK

\* Where each navigation leaves the top before the new view is opened.
LEMMA TopInRange ==
  ASSUME TypeOK
  PROVE  /\ stack_top \in 0 .. PageSTACK_SIZE
         /\ PopPageFromStack(stack_top) = stack_top - 1
         /\ stack_top - 1 \in 0 .. PageSTACK_SIZE
         /\ PopPageFromStack(stack_top) > 0
              => /\ PopPageFromStack(PopPageFromStack(stack_top)) = stack_top - 2
                 /\ stack_top - 2 \in 0 .. PageSTACK_SIZE
         /\ CanForward(Saved, stack_top - 1)
              => ForwardPageFromStack(Saved, stack_top - 1) = stack_top
  BY SizeAssumption DEF TypeOK, PopPageFromStack, ForwardPageFromStack

\* The array and its top keep to their types: no operation of urlstack.c
\* reads or writes outside the array.
THEOREM TypeCorrect == Spec => []TypeOK
<1>1. Init => TypeOK
  <2> SUFFICES ASSUME Init PROVE TypeOK
    OBVIOUS
  <2>1. PICK d \in Docs : disk = [i \in Ids |-> IF i = 1 THEN d ELSE NULL]
    BY DEF Init
  <2>2. InitUrlStack \in [Slots -> Slot] /\ 1 \in Ids /\ 0 \in 0 .. PageSTACK_SIZE
    BY SizeAssumption, ClockAssumption DEF InitUrlStack, EmptySlot, Slot, Ids
  <2>3. PageSTACK \in [Slots -> Slot]
    BY <2>2, PushShape DEF Init
  <2> QED  BY <2>1, <2>2, <2>3, SizeAssumption DEF Init, TypeOK
<1>2. TypeOK /\ [Next]_vars => TypeOK'
  <2> SUFFICES ASSUME TypeOK, [Next]_vars PROVE TypeOK'
    OBVIOUS
  <2>1. CASE Visit
    <3>1. PICK now \in NextIds, d \in Docs : PushAndLoad(Saved, stack_top, now, d)
      BY <2>1 DEF Visit
    <3>2. now \in Ids
      BY ClockAssumption DEF NextIds, Ids, TypeOK
    <3> QED  BY <2>1, <3>1, <3>2, PushTypes, TopInRange DEF Visit, TypeOK
  <2>2. CASE Back
    BY <2>2, CachedTypes, TopInRange DEF Back
  <2>3. CASE Forward
    BY <2>3, CachedTypes, TopInRange DEF Forward
  <2>4. CASE Reload
    <3>1. PICK now \in NextIds, d \in Docs : PushAndLoad(Saved, stack_top - 1, now, d)
      BY <2>4, TopInRange DEF Reload
    <3>2. now \in Ids
      BY ClockAssumption DEF NextIds, Ids, TypeOK
    <3>3. line' \in Lines \cup {0}
      <4>1. stack_top - 1 \in Slots
        BY TopInRange DEF Slots
      <4> QED  BY <2>4, <4>1, TopInRange, SavedShape DEF Reload, Slot
    <3> QED  BY <2>4, <3>1, <3>2, <3>3, PushTypes, TopInRange DEF Reload, TypeOK
  <2>5. CASE Scroll
    BY <2>5 DEF Scroll, TypeOK
  <2>6. CASE TypeNew
    <3>1. PICK b \in Blocks, f \in Forms :
            /\ PageSTACK' = setUserData(PageSTACK, stack_top, b)
            /\ heap' = [heap EXCEPT ![b] = f]
      BY <2>6 DEF TypeNew
    <3>2. stack_top - 1 \in Slots
      BY TopInRange DEF Slots
    <3>3. PageSTACK' \in [Slots -> Slot]
      BY <3>1, <3>2 DEF setUserData, TypeOK, Slot
    <3> QED  BY <2>6, <3>1, <3>3 DEF TypeNew, TypeOK
  <2>7. CASE TypeAgain
    BY <2>7 DEF TypeAgain, TypeOK
  <2>8. CASE Quit
    <3>1. PageSTACK' \in [Slots -> Slot]
      BY <2>8 DEF Quit, TypeOK, killpage, EmptySlot, Slot
    <3> QED  BY <2>8, <3>1 DEF Quit, TypeOK, FreeForms, Unlinked
  <2>9. CASE UNCHANGED vars
    BY <2>9 DEF vars, TypeOK
  <2> QED  BY <2>1, <2>2, <2>3, <2>4, <2>5, <2>6, <2>7, <2>8, <2>9 DEF Next
<1> QED  BY <1>1, <1>2, PTL DEF Spec

-----------------------------------------------------------------------------
(* The steps, by what they do to the stack.                                  *)

\* Visit and Reload: a push, onto the page on screen or in its place.
Pushes ==
  /\ running /\ running'
  /\ \E t \in {stack_top - 1, stack_top}, now \in NextIds, d \in Docs :
       PushAndLoad(Saved, t, now, d)

\* Back and Forward: only the top moves, to a slot with a page below it.
Moves ==
  /\ running /\ running'
  /\ PageSTACK' = Saved
  /\ \/ stack_top' = stack_top - 1 /\ stack_top > 1
     \/ stack_top' = stack_top + 1 /\ stack_top < PageSTACK_SIZE /\ PageSTACK[stack_top].id # 0
  /\ UNCHANGED <<heap, disk, clock>>

\* Scroll, TypeAgain and stuttering: the stack and the cache stay.
Stays ==
  /\ UNCHANGED <<PageSTACK, stack_top, disk, clock, running>>
  /\ UNCHANGED heap \/ TypeAgain

\* Every step is a push, a move, a first input, the end, or leaves the stack.
LEMMA StepKinds ==
  ASSUME TypeOK, NoHoles, [Next]_vars
  PROVE  Pushes \/ Moves \/ TypeNew \/ Quit \/ Stays
<1>1. CASE Visit
  BY <1>1 DEF Visit, Pushes
<1>2. CASE Reload
  BY <1>2, TopInRange DEF Reload, Pushes
<1>3. CASE Back
  <2>1. PopPageFromStack(stack_top) > 0 /\ stack_top - 2 \in 0 .. PageSTACK_SIZE
    BY <1>3, TopInRange DEF Back
  <2>2. ShowCached(Saved, stack_top - 2)
    BY <1>3, TopInRange DEF Back
  <2>3. stack_top' = stack_top - 1 /\ stack_top > 1
    BY <2>1, <2>2, TopInRange, SizeAssumption DEF ShowCached, UpPageStack, TypeOK
  <2> QED  BY <1>3, <2>2, <2>3 DEF Back, ShowCached, Moves
<1>4. CASE Forward
  <2>1. PageSTACK[stack_top].id # 0
    BY <1>4 DEF Forward, CheckPageStackTop
  <2>2. stack_top < PageSTACK_SIZE
    BY <2>1, SizeAssumption DEF NoHoles, TypeOK
  <2>3. ShowCached(Saved, stack_top)
    BY <1>4, TopInRange DEF Forward
  <2>4. stack_top' = stack_top + 1
    BY <2>2, <2>3 DEF ShowCached, UpPageStack, TypeOK
  <2> QED  BY <1>4, <2>1, <2>2, <2>3, <2>4 DEF Forward, ShowCached, Moves
<1>5. CASE Scroll
  BY <1>5 DEF Scroll, Stays
<1>6. CASE TypeAgain
  BY <1>6 DEF TypeAgain, Stays
<1>7. CASE UNCHANGED vars
  BY <1>7 DEF vars, Stays
<1> QED  BY <1>1, <1>2, <1>3, <1>4, <1>5, <1>6, <1>7 DEF Next

\* The first input on a page changes nothing but the form of its slot.
LEMMA TypeNewShape ==
  ASSUME TypeOK, TypeNew
  PROVE  \E b \in Blocks, f \in Forms :
           /\ heap[b] = NULL /\ heap' = [heap EXCEPT ![b] = f]
           /\ PageSTACK[stack_top - 1].form = NULL
           /\ PageSTACK'[stack_top - 1].form = b
           /\ \A n \in Slots : PageSTACK'[n].id = PageSTACK[n].id
           /\ \A n \in Slots : n # stack_top - 1 => PageSTACK'[n].form = PageSTACK[n].form
<1>1. PICK b \in Blocks, f \in Forms :
        /\ heap[b] = NULL
        /\ PageSTACK' = setUserData(PageSTACK, stack_top, b)
        /\ heap' = [heap EXCEPT ![b] = f]
  BY DEF TypeNew
<1>2. stack_top - 1 \in Slots
  BY TopInRange DEF Slots
<1>3. /\ PageSTACK'[stack_top - 1].form = b
      /\ \A n \in Slots : PageSTACK'[n].id = PageSTACK[n].id
      /\ \A n \in Slots : n # stack_top - 1 => PageSTACK'[n].form = PageSTACK[n].form
  BY <1>1, <1>2 DEF setUserData, TypeOK, Slot
<1> QED  BY <1>1, <1>3 DEF TypeNew

\* Quit leaves every slot below the spare one empty.
LEMMA QuitShape ==
  ASSUME TypeOK, Quit
  PROVE  /\ \A n \in Slots : n < PageSTACK_SIZE => PageSTACK'[n] = EmptySlot
         /\ PageSTACK'[PageSTACK_SIZE] = PageSTACK[PageSTACK_SIZE]
  BY SizeAssumption DEF Quit, killpage, TypeOK, Slots

-----------------------------------------------------------------------------
(* The pages fill the array from below.                                      *)

\* After a push the slots below the old top, the pushed one, and no other
\* hold a page.
LEMMA PushIds ==
  ASSUME TypeOK, NoHoles, running,
         NEW t \in {stack_top - 1, stack_top}, NEW now \in NextIds, NEW d \in Docs,
         PushAndLoad(Saved, t, now, d)
  PROVE  /\ stack_top' = RoomTop(t) + 1
         /\ RoomTop(t) \in 0 .. (PageSTACK_SIZE - 1)
         /\ \A n \in Slots : n < RoomTop(t) =>
              IF Full(t)
              THEN /\ n + 1 \in Slots
                   /\ PageSTACK'[n].id = PageSTACK[n + 1].id /\ PageSTACK[n + 1].id # 0
                   /\ PageSTACK'[n].form = PageSTACK[n + 1].form
              ELSE /\ PageSTACK'[n].id = PageSTACK[n].id /\ PageSTACK[n].id # 0
                   /\ PageSTACK'[n].form = PageSTACK[n].form
         /\ PageSTACK'[RoomTop(t)].id = now /\ now \in Ids /\ now # 0
         /\ \A n \in Slots : n > RoomTop(t) => PageSTACK'[n].id = 0
<1> DEFINE p == PageSTACK'
<1>1. t \in 0 .. PageSTACK_SIZE
  BY TopInRange
<1>2. now \in Ids /\ now # 0
  BY ClockAssumption DEF NextIds, Ids, TypeOK
<1>3. p = PushPageToStack(Saved, t, now) /\ stack_top' = RoomTop(t) + 1
  BY DEF PushAndLoad, PushTop
<1>4. /\ RoomTop(t) \in 0 .. (PageSTACK_SIZE - 1)
      /\ \A n \in Slots : n < RoomTop(t) => p[n] = IF Full(t) THEN Saved[n + 1] ELSE Saved[n]
      /\ p[RoomTop(t)].id = now
      /\ \A n \in Slots : (n > RoomTop(t) /\ n < PageSTACK_SIZE)
                             => p[n] = IF Saved[n].id # 0 THEN EmptySlot ELSE Saved[n]
      /\ p[PageSTACK_SIZE] = Saved[PageSTACK_SIZE]
  <2> HIDE DEF p
  <2> QED  BY <1>1, <1>2, <1>3, SavedShape, PushShape
<1> HIDE DEF p
<1>5. /\ Saved \in [Slots -> Slot]
      /\ \A n \in Slots : Saved[n].id = PageSTACK[n].id /\ Saved[n].form = PageSTACK[n].form
  BY SavedShape
<1>6. \A n \in Slots : n < stack_top => PageSTACK[n].id # 0
  BY TopInRange DEF NoHoles, Slots, TypeOK
<1>7. ASSUME NEW n \in Slots, n < RoomTop(t)
      PROVE  IF Full(t)
             THEN /\ n + 1 \in Slots
                  /\ p[n].id = PageSTACK[n + 1].id /\ PageSTACK[n + 1].id # 0
                  /\ p[n].form = PageSTACK[n + 1].form
             ELSE /\ p[n].id = PageSTACK[n].id /\ PageSTACK[n].id # 0
                  /\ p[n].form = PageSTACK[n].form
  <2>1. CASE Full(t)
    <3>1. n + 1 \in Slots /\ n + 1 < stack_top
      BY <2>1, <1>7, SizeAssumption DEF Full, RoomTop, Slots, TypeOK
    <3> QED  BY <2>1, <3>1, <1>4, <1>5, <1>6, <1>7
  <2>2. CASE ~Full(t)
    <3>1. n < stack_top
      BY <2>2, <1>7 DEF RoomTop, Slots, TypeOK
    <3> QED  BY <2>2, <3>1, <1>4, <1>5, <1>6, <1>7
  <2> QED  BY <2>1, <2>2
<1>8. ASSUME NEW n \in Slots, n > RoomTop(t)
      PROVE  p[n].id = 0
  <2>1. CASE n < PageSTACK_SIZE
    BY <2>1, <1>4, <1>8 DEF EmptySlot
  <2>2. CASE n = PageSTACK_SIZE
    BY <2>2, <1>4, <1>5 DEF NoHoles
  <2> QED  BY <2>1, <2>2, SizeAssumption DEF Slots
<1> QED  BY <1>2, <1>3, <1>4, <1>7, <1>8 DEF p

\* The first page fills the first slot of an empty array.
LEMMA InitIds ==
  ASSUME Init
  PROVE  /\ stack_top = 1 /\ clock = 1 /\ running
         /\ PageSTACK[0].id = 1
         /\ \A n \in Slots : n # 0 => PageSTACK[n].id = 0
         /\ \A n \in Slots : PageSTACK[n].form = NULL
<1>1. /\ InitUrlStack \in [Slots -> Slot] /\ 1 \in Ids /\ 0 \in 0 .. PageSTACK_SIZE
      /\ \A n \in Slots : InitUrlStack[n].id = 0 /\ InitUrlStack[n].form = NULL
  BY SizeAssumption, ClockAssumption DEF InitUrlStack, EmptySlot, Slot, Ids
<1>2. RoomTop(0) = 0 /\ ~Full(0) /\ 0 \in Slots
  BY SizeAssumption DEF RoomTop, Full, Slots
<1>3. PageSTACK = PushPageToStack(InitUrlStack, 0, 1)
  BY DEF Init
<1>4. /\ PageSTACK[0].id = 1 /\ PageSTACK[0].form = NULL
      /\ \A n \in Slots : (n > 0 /\ n < PageSTACK_SIZE) => PageSTACK[n] = InitUrlStack[n]
      /\ PageSTACK[PageSTACK_SIZE] = InitUrlStack[PageSTACK_SIZE]
  BY <1>1, <1>2, <1>3, PushShape
<1>5. \A n \in Slots : n = 0 \/ (n > 0 /\ n < PageSTACK_SIZE) \/ n = PageSTACK_SIZE
  BY SizeAssumption DEF Slots
<1> QED  BY <1>1, <1>4, <1>5 DEF Init

\* The pages are the first slots, the page on screen is one of them, and the
\* spare slot stays empty.
THEOREM StackHasNoHoles == Spec => []NoHoles
<1>1. Init => NoHoles
  BY InitIds, SizeAssumption DEF NoHoles, Slots
<1>2. TypeOK /\ NoHoles /\ [Next]_vars => NoHoles'
  <2> SUFFICES ASSUME TypeOK, NoHoles, [Next]_vars PROVE NoHoles'
    OBVIOUS
  <2>1. CASE Pushes
    <3>1. PICK t \in {stack_top - 1, stack_top}, now \in NextIds, d \in Docs :
            PushAndLoad(Saved, t, now, d)
      BY <2>1 DEF Pushes
    <3>2. /\ RoomTop(t) \in 0 .. (PageSTACK_SIZE - 1) /\ stack_top' = RoomTop(t) + 1
          /\ \A n \in Slots : n <= RoomTop(t) => PageSTACK'[n].id # 0
          /\ \A n \in Slots : n > RoomTop(t) => PageSTACK'[n].id = 0
      BY <2>1, <3>1, PushIds, SizeAssumption DEF Pushes, Slots
    <3> QED  BY <3>2, SizeAssumption DEF NoHoles, Slots
  <2>2. CASE Moves
    <3>1. \A n \in Slots : PageSTACK'[n].id = PageSTACK[n].id
      BY <2>2, SavedShape DEF Moves
    <3>2. PageSTACK[stack_top' - 1].id # 0 /\ stack_top' - 1 \in Slots
      BY <2>2, SizeAssumption DEF Moves, NoHoles, TypeOK, Slots
    <3> QED  BY <3>1, <3>2, SizeAssumption DEF NoHoles, Slots
  <2>3. CASE TypeNew
    <3>1. \A n \in Slots : PageSTACK'[n].id = PageSTACK[n].id
      BY <2>3, TypeNewShape
    <3>2. stack_top' = stack_top /\ running' = running /\ stack_top - 1 \in Slots
      BY <2>3, TopInRange DEF TypeNew, Slots
    <3> QED  BY <3>1, <3>2, SizeAssumption DEF NoHoles, Slots
  <2>4. CASE Quit
    <3>1. \A n \in Slots : PageSTACK'[n].id = 0
      BY <2>4, QuitShape, SizeAssumption DEF NoHoles, EmptySlot, Slots
    <3> QED  BY <2>4, <3>1, SizeAssumption DEF NoHoles, Quit, Slots
  <2>5. CASE Stays
    BY <2>5 DEF Stays, NoHoles
  <2> QED  BY <2>1, <2>2, <2>3, <2>4, <2>5, StepKinds
<1> QED  BY <1>1, <1>2, TypeCorrect, PTL DEF Spec

\* After a push the forms of the slots that stayed are where their pages are,
\* and neither the pushed page nor a slot above it has one.
LEMMA PushForms ==
  ASSUME TypeOK, NoHoles, EmptySlotsOwnNothing, running,
         NEW t \in {stack_top - 1, stack_top}, NEW now \in NextIds, NEW d \in Docs,
         PushAndLoad(Saved, t, now, d)
  PROVE  /\ \A n \in Slots : n >= RoomTop(t) => PageSTACK'[n].form = NULL
         /\ \A n \in Slots : n <= RoomTop(t) => PageSTACK'[n].id # 0
<1> DEFINE p == PageSTACK'
<1>1. t \in 0 .. PageSTACK_SIZE /\ now \in Ids
  BY TopInRange, PushIds
<1>2. p = PushPageToStack(Saved, t, now)
  BY DEF PushAndLoad
<1>3. /\ RoomTop(t) \in 0 .. (PageSTACK_SIZE - 1)
      /\ p[RoomTop(t)].form = IF Full(t) \/ Saved[t].id # 0 THEN NULL ELSE Saved[t].form
      /\ \A n \in Slots : (n > RoomTop(t) /\ n < PageSTACK_SIZE)
                             => p[n] = IF Saved[n].id # 0 THEN EmptySlot ELSE Saved[n]
      /\ p[PageSTACK_SIZE] = Saved[PageSTACK_SIZE]
  <2> HIDE DEF p
  <2> QED  BY <1>1, <1>2, SavedShape, PushShape
<1> HIDE DEF p
<1>4. \A n \in Slots : Saved[n].id = 0 => Saved[n].form = NULL
  BY SavedShape DEF EmptySlotsOwnNothing
<1>5. p[RoomTop(t)].form = NULL
  BY <1>1, <1>3, <1>4 DEF Slots
<1>6. \A n \in Slots : (n > RoomTop(t) /\ n < PageSTACK_SIZE) => p[n].form = NULL
  BY <1>3, <1>4 DEF EmptySlot
<1>7. PageSTACK_SIZE \in Slots /\ Saved[PageSTACK_SIZE].id = 0
  BY SavedShape, SizeAssumption DEF NoHoles, Slots
<1>8. p[PageSTACK_SIZE].form = NULL
  BY <1>3, <1>4, <1>7
<1>9. \A n \in Slots : n >= RoomTop(t) =>
         n = RoomTop(t) \/ (n > RoomTop(t) /\ n < PageSTACK_SIZE) \/ n = PageSTACK_SIZE
  BY <1>3, SizeAssumption DEF Slots
<1>10. \A n \in Slots : n <= RoomTop(t) => p[n].id # 0
  BY PushIds, SizeAssumption DEF p, Slots
<1> QED  BY <1>5, <1>6, <1>8, <1>9, <1>10 DEF p

\* A slot without a page owns no form.
THEOREM EmptySlotsStayEmpty == Spec => []EmptySlotsOwnNothing
<1>1. Init => EmptySlotsOwnNothing
  BY InitIds DEF EmptySlotsOwnNothing
<1>2. TypeOK /\ NoHoles /\ EmptySlotsOwnNothing /\ [Next]_vars => EmptySlotsOwnNothing'
  <2> SUFFICES ASSUME TypeOK, NoHoles, EmptySlotsOwnNothing, [Next]_vars
               PROVE  EmptySlotsOwnNothing'
    OBVIOUS
  <2>1. CASE Pushes
    <3>1. PICK t \in {stack_top - 1, stack_top}, now \in NextIds, d \in Docs :
            PushAndLoad(Saved, t, now, d)
      BY <2>1 DEF Pushes
    <3>2. /\ \A n \in Slots : n >= RoomTop(t) => PageSTACK'[n].form = NULL
          /\ \A n \in Slots : n <= RoomTop(t) => PageSTACK'[n].id # 0
          /\ \A n \in Slots : n >= RoomTop(t) \/ n <= RoomTop(t)
      BY <2>1, <3>1, PushForms, PushIds, SizeAssumption DEF Pushes, Slots
    <3> QED  BY <3>2 DEF EmptySlotsOwnNothing
  <2>2. CASE Moves
    BY <2>2, SavedShape DEF Moves, EmptySlotsOwnNothing
  <2>3. CASE TypeNew
    <3>1. stack_top - 1 \in Slots /\ PageSTACK[stack_top - 1].id # 0
      BY <2>3, TopInRange DEF TypeNew, NoHoles, Slots
    <3> QED  BY <2>3, <3>1, TypeNewShape DEF EmptySlotsOwnNothing
  <2>4. CASE Quit
    BY <2>4, QuitShape, SizeAssumption DEF EmptySlotsOwnNothing, EmptySlot, Slots
  <2>5. CASE Stays
    BY <2>5 DEF Stays, EmptySlotsOwnNothing
  <2> QED  BY <2>1, <2>2, <2>3, <2>4, <2>5, StepKinds
<1> QED  BY <1>1, <1>2, TypeCorrect, StackHasNoHoles, PTL DEF Spec

-----------------------------------------------------------------------------
(* Forms are neither leaked, freed twice nor shared.                         *)

\* The slots a push kills, in terms of the old array.
LEMMA PushKills ==
  ASSUME TypeOK, NEW t \in {stack_top - 1, stack_top}
  PROVE  /\ Full(t) => KilledBy(Saved, t) = {Saved[0]}
         /\ ~Full(t) => KilledBy(Saved, t)
               = {Saved[n] : n \in {m \in t .. (PageSTACK_SIZE - 1) : Saved[m].id # 0}}
  BY SavedShape, KilledSlots, TopInRange

\* A form is freed by a push exactly when its slot is killed.
LEMMA PushFrees ==
  ASSUME TypeOK, NoHoles, EmptySlotsOwnNothing, FormsOwnedOnce, running,
         NEW t \in {stack_top - 1, stack_top}, NEW now \in NextIds, NEW d \in Docs,
         PushAndLoad(Saved, t, now, d),
         NEW m \in Slots, PageSTACK[m].form # NULL
  PROVE  heap'[PageSTACK[m].form]
           = IF (IF Full(t) THEN m = 0 ELSE m >= t) THEN NULL ELSE heap[PageSTACK[m].form]
<1> DEFINE b == PageSTACK[m].form
<1>1. b \in Blocks /\ PageSTACK[m].id # 0
  BY DEF TypeOK, Slot, EmptySlotsOwnNothing
<1>2. heap'[b] = IF \E k \in KilledBy(Saved, t) : k.form = b THEN NULL ELSE heap[b]
  BY <1>1 DEF PushAndLoad, FreeForms
<1>3. \A n \in Slots : Saved[n].form = b <=> n = m
  BY SavedShape DEF FormsOwnedOnce
<1>4. CASE Full(t)
  <2>1. 0 \in Slots /\ KilledBy(Saved, t) = {Saved[0]}
    BY <1>4, PushKills, SizeAssumption DEF Slots
  <2>2. (\E k \in KilledBy(Saved, t) : k.form = b) <=> m = 0
    BY <1>3, <2>1
  <2> QED  BY <1>2, <1>4, <2>2
<1>5. CASE ~Full(t)
  <2> DEFINE K == {n \in t .. (PageSTACK_SIZE - 1) : Saved[n].id # 0}
  <2>1. KilledBy(Saved, t) = {Saved[n] : n \in K}
    BY <1>5, PushKills
  <2>2. K \subseteq Slots
    BY TopInRange, SizeAssumption DEF Slots
  <2>3. m \in K <=> m >= t
    BY <1>1, TopInRange, SavedShape, SizeAssumption DEF Slots, NoHoles
  <2>4. (\E k \in KilledBy(Saved, t) : k.form = b) <=> m \in K
    <3> HIDE DEF K
    <3> QED  BY <1>3, <2>1, <2>2
  <2> QED  BY <1>2, <1>5, <2>3, <2>4
<1> QED  BY <1>4, <1>5

\* Each live block is the form of exactly one slot.
THEOREM FormsHaveOneOwner == Spec => []FormsOwnedOnce
<1>1. Init => FormsOwnedOnce
  BY InitIds DEF Init, FormsOwnedOnce
<1>2. TypeOK /\ NoHoles /\ EmptySlotsOwnNothing /\ FormsOwnedOnce /\ [Next]_vars
        => FormsOwnedOnce'
  <2> SUFFICES ASSUME TypeOK, NoHoles, EmptySlotsOwnNothing, FormsOwnedOnce, [Next]_vars
               PROVE  FormsOwnedOnce'
    OBVIOUS
  <2>1. CASE Pushes
    <3>1. PICK t \in {stack_top - 1, stack_top}, now \in NextIds, d \in Docs :
            PushAndLoad(Saved, t, now, d)
      BY <2>1 DEF Pushes
    <3> DEFINE up == IF Full(t) THEN 1 ELSE 0
    <3>2. RoomTop(t) \in 0 .. (PageSTACK_SIZE - 1) /\ t \in 0 .. PageSTACK_SIZE /\ up \in {0, 1}
      BY <2>1, <3>1, PushIds, TopInRange DEF Pushes
    <3>3. \A n \in Slots : n >= RoomTop(t) => PageSTACK'[n].form = NULL
      BY <2>1, <3>1, PushForms DEF Pushes
    <3>4. \A n \in Slots : n < RoomTop(t) =>
             /\ n + up \in Slots
             /\ PageSTACK'[n].form = PageSTACK[n + up].form
             /\ ~(IF Full(t) THEN n + up = 0 ELSE n + up >= t)
      <4>1. ASSUME NEW n \in Slots, n < RoomTop(t)
            PROVE  /\ n + up \in Slots
                   /\ PageSTACK'[n].form = PageSTACK[n + up].form
        <5>1. CASE Full(t)
          BY <2>1, <3>1, <4>1, <5>1, PushIds DEF Pushes
        <5>2. CASE ~Full(t)
          <6>1. up = 0 /\ n + up = n
            BY <5>2 DEF Slots
          <6> QED  BY <2>1, <3>1, <4>1, <5>2, <6>1, PushIds DEF Pushes
        <5> QED  BY <5>1, <5>2
      <4>2. \A n \in Slots : n < RoomTop(t) => ~(IF Full(t) THEN n + up = 0 ELSE n + up >= t)
        BY <3>2 DEF RoomTop, Slots
      <4> QED  BY <4>1, <4>2
    <3> HIDE DEF up
    <3>5. \A n \in Slots : PageSTACK'[n].form # NULL => n < RoomTop(t)
      BY <3>2, <3>3 DEF Slots
    <3>6. \A n \in Slots : PageSTACK'[n].form # NULL => heap'[PageSTACK'[n].form] # NULL
      <4> SUFFICES ASSUME NEW n \in Slots, PageSTACK'[n].form # NULL
                   PROVE  heap'[PageSTACK'[n].form] # NULL
        OBVIOUS
      <4>1. n + up \in Slots /\ PageSTACK'[n].form = PageSTACK[n + up].form
        BY <3>4, <3>5
      <4>2. heap'[PageSTACK[n + up].form] = heap[PageSTACK[n + up].form]
        BY <2>1, <3>1, <3>4, <3>5, <4>1, PushFrees DEF Pushes
      <4> QED  BY <4>1, <4>2 DEF FormsOwnedOnce
    <3>7. \A m, n \in Slots : (m # n /\ PageSTACK'[n].form # NULL)
                                 => PageSTACK'[m].form # PageSTACK'[n].form
      <4> SUFFICES ASSUME NEW m \in Slots, NEW n \in Slots, m # n,
                          PageSTACK'[n].form # NULL, PageSTACK'[m].form = PageSTACK'[n].form
                   PROVE  FALSE
        OBVIOUS
      <4>1. /\ n + up \in Slots /\ PageSTACK'[n].form = PageSTACK[n + up].form
            /\ m + up \in Slots /\ PageSTACK'[m].form = PageSTACK[m + up].form
        BY <3>4, <3>5
      <4>2. m + up # n + up
        BY <3>2 DEF Slots
      <4> QED  BY <4>1, <4>2 DEF FormsOwnedOnce
    <3>8. ASSUME NEW b \in Blocks, heap'[b] # NULL
          PROVE  \E n \in Slots : PageSTACK'[n].form = b
      <4>1. heap[b] # NULL
        BY <3>1, <3>8 DEF PushAndLoad, FreeForms
      <4>2. PICK m \in Slots : PageSTACK[m].form = b
        BY <4>1 DEF FormsOwnedOnce
      <4>3. ~(IF Full(t) THEN m = 0 ELSE m >= t) /\ PageSTACK[m].id # 0
        BY <2>1, <3>1, <3>8, <4>2, NullAssumption, PushFrees DEF Pushes, EmptySlotsOwnNothing
      <4>4. m # PageSTACK_SIZE
        BY <4>3 DEF NoHoles
      <4>5. m - up \in Slots /\ m - up < RoomTop(t) /\ (m - up) + up = m
        BY <3>2, <4>3, <4>4, SizeAssumption DEF up, RoomTop, Full, Slots
      <4> QED  BY <3>4, <4>2, <4>5
    <3> QED  BY <3>6, <3>7, <3>8 DEF FormsOwnedOnce
  <2>2. CASE Moves
    BY <2>2, SavedShape DEF Moves, FormsOwnedOnce
  <2>3. CASE TypeNew
    <3>1. PICK b \in Blocks, f \in Forms :
            /\ heap[b] = NULL /\ heap' = [heap EXCEPT ![b] = f]
            /\ PageSTACK[stack_top - 1].form = NULL
            /\ PageSTACK'[stack_top - 1].form = b
            /\ \A n \in Slots : n # stack_top - 1 => PageSTACK'[n].form = PageSTACK[n].form
      BY <2>3, TypeNewShape
    <3>2. stack_top - 1 \in Slots /\ heap \in [Blocks -> Forms \cup {NULL}] /\ f # NULL
      BY TopInRange, DataAssumption DEF Slots, TypeOK
    <3>3. \A n \in Slots : PageSTACK[n].form # b /\ PageSTACK[n].form \in Blocks \cup {NULL}
      BY <3>1, NullAssumption DEF FormsOwnedOnce, TypeOK, Slot
    <3> QED  BY <3>1, <3>2, <3>3, NullAssumption DEF FormsOwnedOnce
  <2>4. CASE Quit
    <3>1. \A n \in Slots : PageSTACK'[n].form = NULL
      BY <2>4, QuitShape, SizeAssumption DEF NoHoles, EmptySlotsOwnNothing, EmptySlot, Slots
    <3>2. ASSUME NEW b \in Blocks
          PROVE  heap'[b] = NULL
      <4>1. heap'[b] = IF \E k \in FreePageStack(PageSTACK) : k.form = b THEN NULL ELSE heap[b]
        BY <2>4 DEF Quit, FreeForms
      <4>2. CASE heap[b] # NULL
        <5>1. PICK n \in Slots : PageSTACK[n].form = b
          BY <4>2 DEF FormsOwnedOnce
        <5>2. PageSTACK[n].id # 0 /\ n # PageSTACK_SIZE
          BY <5>1, NullAssumption DEF EmptySlotsOwnNothing, NoHoles
        <5>3. n \in 0 .. (PageSTACK_SIZE - 1)
          BY <5>2, SizeAssumption DEF Slots
        <5> QED  BY <4>1, <5>1, <5>2, <5>3 DEF FreePageStack
      <4> QED  BY <4>1, <4>2
    <3> QED  BY <3>1, <3>2 DEF FormsOwnedOnce
  <2>5. CASE Stays
    <3>1. \A b \in Blocks : heap'[b] = NULL <=> heap[b] = NULL
      <4>1. CASE TypeAgain
        <5> DEFINE c == PageSTACK[stack_top - 1].form
        <5>1. PICK f \in Forms : heap' = [heap EXCEPT ![c] = f]
          BY <4>1 DEF TypeAgain
        <5>2. heap[c] # NULL /\ heap \in [Blocks -> Forms \cup {NULL}] /\ f # NULL
          BY <4>1, TopInRange, DataAssumption DEF TypeAgain, FormsOwnedOnce, TypeOK, Slots
        <5> QED  BY <5>1, <5>2
      <4> QED  BY <4>1, <2>5 DEF Stays
    <3>2. \A n \in Slots : PageSTACK[n].form # NULL => PageSTACK[n].form \in Blocks
      BY DEF TypeOK, Slot
    <3> QED  BY <3>1, <3>2, <2>5 DEF Stays, FormsOwnedOnce
  <2> QED  BY <2>1, <2>2, <2>3, <2>4, <2>5, StepKinds
<1> QED  BY <1>1, <1>2, TypeCorrect, StackHasNoHoles, EmptySlotsStayEmpty, PTL DEF Spec

\* Whatever the user does, the array owns its pages and their forms (urlstack.c):
\* the three theorems above together.
THEOREM StackOwnsItsPages == Spec => []PagesOwned
<1>1. NoHoles /\ EmptySlotsOwnNothing /\ FormsOwnedOnce => PagesOwned
  BY DEF PagesOwned
<1> QED  BY <1>1, StackHasNoHoles, EmptySlotsStayEmpty, FormsHaveOneOwner, PTL

-----------------------------------------------------------------------------
(* Cache files.  The name of a page's file is the second of its push, so     *)
(* these rest on pages being at least a second apart (MinGap = 1).           *)

\* No page of the stack is younger than the last push.
Aged == \A n \in Slots : PageSTACK[n].id <= clock

\* The pages of the stack are in the order they were pushed: no two share an
\* id, hence a cache file.
THEOREM IdsAscend == ASSUME MinGap = 1 PROVE Spec => [](Aged /\ IdsIncrease)
<1>1. Init => Aged /\ IdsIncrease
  BY InitIds, SizeAssumption DEF Aged, IdsIncrease, Slots
<1>2. TypeOK /\ NoHoles /\ Aged /\ IdsIncrease /\ [Next]_vars => (Aged /\ IdsIncrease)'
  <2> SUFFICES ASSUME TypeOK, NoHoles, Aged, IdsIncrease, [Next]_vars
               PROVE  Aged' /\ IdsIncrease'
    OBVIOUS
  <2>1. \A n \in Slots : PageSTACK[n].id \in Nat
    BY ClockAssumption DEF TypeOK, Slot, Ids
  <2>2. CASE Pushes
    <3>1. PICK t \in {stack_top - 1, stack_top}, now \in NextIds, d \in Docs :
            PushAndLoad(Saved, t, now, d)
      BY <2>2 DEF Pushes
    <3>2. clock' = now /\ clock \in Nat /\ now \in Nat /\ now > clock
      BY <3>1, ClockAssumption DEF PushAndLoad, NextIds, TypeOK, Ids
    <3> DEFINE up == IF Full(t) THEN 1 ELSE 0
    <3>3. /\ RoomTop(t) \in 0 .. (PageSTACK_SIZE - 1)
          /\ PageSTACK'[RoomTop(t)].id = now
          /\ \A n \in Slots : n > RoomTop(t) => PageSTACK'[n].id = 0
          /\ up \in {0, 1}
      BY <2>2, <3>1, PushIds DEF Pushes
    <3>4. \A n \in Slots : n < RoomTop(t) =>
             n + up \in Slots /\ PageSTACK'[n].id = PageSTACK[n + up].id
      <4> SUFFICES ASSUME NEW n \in Slots, n < RoomTop(t)
                   PROVE  n + up \in Slots /\ PageSTACK'[n].id = PageSTACK[n + up].id
        OBVIOUS
      <4>1. CASE Full(t)
        BY <2>2, <3>1, <4>1, PushIds DEF Pushes
      <4>2. CASE ~Full(t)
        <5>1. up = 0 /\ n + up = n
          BY <4>2 DEF Slots
        <5> QED  BY <2>2, <3>1, <4>2, <5>1, PushIds DEF Pushes
      <4> QED  BY <4>1, <4>2
    <3> HIDE DEF up
    <3>5. \A n \in Slots : n < RoomTop(t) => PageSTACK'[n].id < now
      BY <2>1, <3>2, <3>4 DEF Aged
    <3>6. \A n \in Slots : n < RoomTop(t) \/ n = RoomTop(t) \/ n > RoomTop(t)
      BY <3>3 DEF Slots
    <3>7. Aged'
      BY <2>1, <3>2, <3>3, <3>4, <3>5, <3>6 DEF Aged
    <3>8. ASSUME NEW m \in Slots, NEW n \in Slots, m < n, PageSTACK'[n].id # 0
          PROVE  PageSTACK'[m].id < PageSTACK'[n].id
      <4>1. CASE n = RoomTop(t)
        BY <3>3, <3>5, <3>8, <4>1
      <4>2. CASE n < RoomTop(t)
        <5>1. /\ n + up \in Slots /\ PageSTACK'[n].id = PageSTACK[n + up].id
              /\ m + up \in Slots /\ PageSTACK'[m].id = PageSTACK[m + up].id
              /\ m + up < n + up
          BY <3>3, <3>4, <3>8, <4>2 DEF Slots
        <5> QED  BY <3>8, <5>1 DEF IdsIncrease
      <4> QED  BY <3>3, <3>6, <3>8, <4>1, <4>2
    <3> QED  BY <3>7, <3>8 DEF IdsIncrease
  <2>3. CASE Moves
    BY <2>3, SavedShape DEF Moves, Aged, IdsIncrease
  <2>4. CASE TypeNew
    <3>1. clock' = clock
      BY <2>4 DEF TypeNew
    <3> QED  BY <2>4, <3>1, TypeNewShape DEF Aged, IdsIncrease
  <2>5. CASE Quit
    <3>1. \A n \in Slots : PageSTACK'[n].id = 0
      BY <2>5, QuitShape, SizeAssumption DEF NoHoles, EmptySlot, Slots
    <3>2. clock' = clock /\ clock >= 0
      BY <2>5, ClockAssumption DEF Quit, TypeOK, Ids
    <3> QED  BY <3>1, <3>2 DEF Aged, IdsIncrease
  <2>6. CASE Stays
    BY <2>6 DEF Stays, Aged, IdsIncrease
  <2> QED  BY <2>2, <2>3, <2>4, <2>5, <2>6, StepKinds
<1> QED  BY <1>1, <1>2, TypeCorrect, StackHasNoHoles, PTL DEF Spec

\* The page a push kills in slot m, by its id.
LEMMA PushUnlinks ==
  ASSUME TypeOK, NoHoles, Aged, IdsIncrease, running, MinGap = 1,
         NEW t \in {stack_top - 1, stack_top}, NEW now \in NextIds, NEW d \in Docs,
         PushAndLoad(Saved, t, now, d)
  PROVE  /\ now \in Ids /\ disk'[now] = d
         /\ \A n \in Slots : PageSTACK[n].id # now
         /\ \A i \in Ids : disk'[i] # NULL => i = now \/ disk[i] # NULL
         /\ \A m \in Slots : PageSTACK[m].id # 0 =>
              /\ PageSTACK[m].id \in Ids
              /\ disk'[PageSTACK[m].id]
                   = IF (IF Full(t) THEN m = 0 ELSE m >= t) THEN NULL ELSE disk[PageSTACK[m].id]
<1>1. now \in Ids /\ clock \in Nat /\ now \in Nat /\ now > clock
  BY ClockAssumption DEF NextIds, TypeOK, Ids
<1>2. \A i \in Ids : disk'[i] = IF i = now THEN d
                               ELSE IF \E k \in KilledBy(Saved, t) : k.id = i THEN NULL
                               ELSE disk[i]
  BY <1>1 DEF PushAndLoad, Unlinked
<1>3. \A n \in Slots : PageSTACK[n].id # now
  BY <1>1 DEF Aged
<1>4. ASSUME NEW m \in Slots, PageSTACK[m].id # 0
      PROVE  /\ PageSTACK[m].id \in Ids
             /\ disk'[PageSTACK[m].id]
                  = IF (IF Full(t) THEN m = 0 ELSE m >= t) THEN NULL ELSE disk[PageSTACK[m].id]
  <2> DEFINE i == PageSTACK[m].id
  <2>1. i \in Ids
    BY <1>4 DEF TypeOK, Slot
  <2>2. \A n \in Slots : Saved[n].id = i <=> n = m
    <3>1. \A n \in Slots : n < m \/ n = m \/ m < n
      BY DEF Slots
    <3>2. i \in Nat
      BY <2>1 DEF Ids
    <3> QED  BY <1>4, <3>1, <3>2, SavedShape, ClockAssumption DEF IdsIncrease, TypeOK, Slot, Ids
  <2>3. CASE Full(t)
    <3>1. 0 \in Slots /\ KilledBy(Saved, t) = {Saved[0]}
      BY <2>3, PushKills, SizeAssumption DEF Slots
    <3>2. (\E k \in KilledBy(Saved, t) : k.id = i) <=> m = 0
      BY <2>2, <3>1
    <3> QED  BY <1>2, <1>3, <2>1, <2>3, <3>2
  <2>4. CASE ~Full(t)
    <3> DEFINE K == {n \in t .. (PageSTACK_SIZE - 1) : Saved[n].id # 0}
    <3>1. KilledBy(Saved, t) = {Saved[n] : n \in K}
      BY <2>4, PushKills
    <3>2. K \subseteq Slots
      BY TopInRange, SizeAssumption DEF Slots
    <3>3. m \in K <=> m >= t
      BY <1>4, TopInRange, SavedShape, SizeAssumption DEF Slots, NoHoles
    <3>4. (\E k \in KilledBy(Saved, t) : k.id = i) <=> m \in K
      <4> HIDE DEF K
      <4> QED  BY <2>2, <3>1, <3>2
    <3> QED  BY <1>2, <1>3, <2>1, <2>4, <3>3, <3>4
  <2> QED  BY <2>1, <2>3, <2>4
<1>5. \A i \in Ids : disk'[i] # NULL => i = now \/ disk[i] # NULL
  BY <1>2
<1> QED  BY <1>1, <1>2, <1>3, <1>4, <1>5

\* Where a page that a push keeps was before it.
LEMMA PushKeeps ==
  ASSUME TypeOK, NoHoles, running,
         NEW t \in {stack_top - 1, stack_top}, NEW now \in NextIds, NEW d \in Docs,
         PushAndLoad(Saved, t, now, d),
         NEW n \in Slots, n < RoomTop(t)
  PROVE  \E m \in Slots : /\ PageSTACK'[n].id = PageSTACK[m].id /\ PageSTACK[m].id # 0
                         /\ ~(IF Full(t) THEN m = 0 ELSE m >= t)
<1>1. CASE Full(t)
  <2>1. n + 1 # 0
    BY DEF Slots
  <2> QED  BY <1>1, <2>1, PushIds
<1>2. CASE ~Full(t)
  <2>1. ~(n >= t)
    BY <1>2, TopInRange DEF RoomTop, Slots
  <2> QED  BY <1>2, <2>1, PushIds
<1> QED  BY <1>1, <1>2

\* And where it is afterwards.
LEMMA PushMoves ==
  ASSUME TypeOK, NoHoles, running,
         NEW t \in {stack_top - 1, stack_top}, NEW now \in NextIds, NEW d \in Docs,
         PushAndLoad(Saved, t, now, d),
         NEW m \in Slots, PageSTACK[m].id # 0, ~(IF Full(t) THEN m = 0 ELSE m >= t)
  PROVE  \E n \in Slots : PageSTACK'[n].id = PageSTACK[m].id
<1>1. m # PageSTACK_SIZE
  BY DEF NoHoles
<1>2. CASE Full(t)
  <2>1. m - 1 \in Slots /\ m - 1 < RoomTop(t) /\ (m - 1) + 1 = m
    BY <1>1, <1>2, SizeAssumption DEF RoomTop, Full, Slots
  <2> QED  BY <1>2, <2>1, PushIds
<1>3. CASE ~Full(t)
  <2>1. m < RoomTop(t)
    BY <1>3, TopInRange DEF RoomTop, Slots
  <2> QED  BY <1>3, <2>1, PushIds
<1> QED  BY <1>2, <1>3

\* The cache directory holds the files of the pages of the stack, no other.
THEOREM CacheIsStack == ASSUME MinGap = 1 PROVE Spec => []CacheMatchesStack
<1>1. Init => CacheMatchesStack
  BY InitIds, SizeAssumption, ClockAssumption, DataAssumption
  DEF Init, CacheMatchesStack, Slots, Ids
<1>2. TypeOK /\ NoHoles /\ Aged /\ IdsIncrease /\ CacheMatchesStack /\ [Next]_vars
        => CacheMatchesStack'
  <2> SUFFICES ASSUME TypeOK, NoHoles, Aged, IdsIncrease, CacheMatchesStack, [Next]_vars
               PROVE  CacheMatchesStack'
    OBVIOUS
  <2>1. CASE Pushes
    <3>1. PICK t \in {stack_top - 1, stack_top}, now \in NextIds, d \in Docs :
            PushAndLoad(Saved, t, now, d)
      BY <2>1 DEF Pushes
    <3>2. /\ now \in Ids /\ disk'[now] = d /\ d # NULL
          /\ \A n \in Slots : PageSTACK[n].id # now
          /\ \A i \in Ids : disk'[i] # NULL => i = now \/ disk[i] # NULL
          /\ \A m \in Slots : PageSTACK[m].id # 0 =>
               /\ PageSTACK[m].id \in Ids
               /\ disk'[PageSTACK[m].id]
                    = IF (IF Full(t) THEN m = 0 ELSE m >= t) THEN NULL ELSE disk[PageSTACK[m].id]
      BY <2>1, <3>1, PushUnlinks, DataAssumption DEF Pushes
    <3>3. /\ RoomTop(t) \in Slots /\ PageSTACK'[RoomTop(t)].id = now
          /\ \A n \in Slots : n < RoomTop(t) \/ n = RoomTop(t) \/ PageSTACK'[n].id = 0
      BY <2>1, <3>1, PushIds, SizeAssumption DEF Pushes, Slots
    <3>4. ASSUME NEW i \in Ids, disk'[i] # NULL
          PROVE  \E n \in Slots : PageSTACK'[n].id = i
      <4>1. CASE i = now
        BY <3>3, <4>1
      <4>2. CASE disk[i] # NULL
        <5>1. PICK m \in Slots : PageSTACK[m].id = i
          BY <4>2 DEF CacheMatchesStack
        <5>2. i # 0
          BY DEF Ids
        <5>3. ~(IF Full(t) THEN m = 0 ELSE m >= t)
          BY <3>2, <3>4, <5>1, <5>2
        <5> QED  BY <2>1, <3>1, <5>1, <5>2, <5>3, PushMoves DEF Pushes
      <4> QED  BY <3>2, <3>4, <4>1, <4>2
    <3>5. ASSUME NEW i \in Ids, NEW n \in Slots, PageSTACK'[n].id = i
          PROVE  disk'[i] # NULL
      <4>1. CASE n = RoomTop(t)
        BY <3>2, <3>3, <3>5, <4>1
      <4>2. CASE n < RoomTop(t)
        <5>1. PICK m \in Slots : /\ PageSTACK[m].id = i /\ PageSTACK[m].id # 0
                                 /\ ~(IF Full(t) THEN m = 0 ELSE m >= t)
          BY <2>1, <3>1, <3>5, <4>2, PushKeeps DEF Pushes
        <5> QED  BY <3>2, <5>1 DEF CacheMatchesStack
      <4>3. i # 0
        BY DEF Ids
      <4> QED  BY <3>3, <3>5, <4>1, <4>2, <4>3
    <3> QED  BY <3>4, <3>5 DEF CacheMatchesStack
  <2>2. CASE Moves
    BY <2>2, SavedShape DEF Moves, CacheMatchesStack
  <2>3. CASE TypeNew
    <3>1. disk' = disk
      BY <2>3 DEF TypeNew
    <3> QED  BY <2>3, <3>1, TypeNewShape DEF CacheMatchesStack
  <2>4. CASE Quit
    <3>1. \A n \in Slots : PageSTACK'[n].id = 0
      BY <2>4, QuitShape, SizeAssumption DEF NoHoles, EmptySlot, Slots
    <3>2. ASSUME NEW i \in Ids
          PROVE  i # 0 /\ disk'[i] = NULL
      <4>1. disk'[i] = IF \E k \in FreePageStack(PageSTACK) : k.id = i THEN NULL ELSE disk[i]
        BY <2>4 DEF Quit, Unlinked
      <4>2. i # 0
        BY DEF Ids
      <4>3. CASE disk[i] # NULL
        <5>1. PICK n \in Slots : PageSTACK[n].id = i
          BY <4>3 DEF CacheMatchesStack
        <5>2. n \in 0 .. (PageSTACK_SIZE - 1)
          BY <4>2, <5>1, SizeAssumption DEF NoHoles, Slots
        <5> QED  BY <4>1, <4>2, <5>1, <5>2 DEF FreePageStack
      <4> QED  BY <4>1, <4>2, <4>3
    <3> QED  BY <3>1, <3>2 DEF CacheMatchesStack
  <2>5. CASE Stays
    BY <2>5 DEF Stays, CacheMatchesStack
  <2> QED  BY <2>1, <2>2, <2>3, <2>4, <2>5, StepKinds
<1> QED  BY <1>1, <1>2, TypeCorrect, StackHasNoHoles, IdsAscend, PTL DEF Spec

\* No step changes the document an earlier page will be found with.
THEOREM EarlierPagesKept == ASSUME MinGap = 1 PROVE Spec => CachedPagesKept
<1> DEFINE Kept == \A n \in 0 .. (stack_top' - 2) :
                     LET i == PageSTACK'[n].id IN running' => disk'[i] = disk[i]
<1>1. TypeOK /\ NoHoles /\ Aged /\ IdsIncrease /\ [Next]_vars => [Kept]_vars
  <2> SUFFICES ASSUME TypeOK, NoHoles, Aged, IdsIncrease, [Next]_vars
               PROVE  Kept
    OBVIOUS
  <2>1. CASE Pushes
    <3>1. PICK t \in {stack_top - 1, stack_top}, now \in NextIds, d \in Docs :
            PushAndLoad(Saved, t, now, d)
      BY <2>1 DEF Pushes
    <3>2. /\ stack_top' = RoomTop(t) + 1
          /\ RoomTop(t) \in 0 .. (PageSTACK_SIZE - 1)
      BY <2>1, <3>1, PushIds DEF Pushes
    <3>3. ASSUME NEW n \in 0 .. (stack_top' - 2)
          PROVE  disk'[PageSTACK'[n].id] = disk[PageSTACK'[n].id]
      <4>1. n \in Slots /\ n < RoomTop(t)
        BY <3>2, SizeAssumption DEF Slots
      <4>2. PICK m \in Slots : /\ PageSTACK'[n].id = PageSTACK[m].id /\ PageSTACK[m].id # 0
                               /\ ~(IF Full(t) THEN m = 0 ELSE m >= t)
        BY <2>1, <3>1, <4>1, PushKeeps DEF Pushes
      <4> QED  BY <2>1, <3>1, <4>2, PushUnlinks DEF Pushes
    <3> QED  BY <3>3
  <2>2. CASE Moves
    BY <2>2 DEF Moves
  <2>3. CASE TypeNew
    BY <2>3 DEF TypeNew
  <2>4. CASE Quit
    BY <2>4 DEF Quit
  <2>5. CASE Stays
    BY <2>5 DEF Stays
  <2> QED  BY <2>1, <2>2, <2>3, <2>4, <2>5, StepKinds
<1> QED  BY <1>1, TypeCorrect, StackHasNoHoles, IdsAscend, PTL DEF Spec, CachedPagesKept

-----------------------------------------------------------------------------
(* The history the user sees (BackForward).                                  *)

\* A slot without a page is at the first line.
Blank == \A n \in Slots : PageSTACK[n].id = 0 => PageSTACK[n].view_line = 0

\* The position of a page just pushed.
LEMMA PushedLine ==
  ASSUME TypeOK, Blank, NoHoles, running,
         NEW t \in {stack_top - 1, stack_top}, NEW now \in NextIds, NEW d \in Docs,
         PushAndLoad(Saved, t, now, d)
  PROVE  PageSTACK'[RoomTop(t)].view_line = 0
<1> DEFINE R == RoomTop(t)
           r == MadeRoom(Saved, t)
           k == killpage(r, ForwardPages(r, R))
<1>1. R \in 0 .. (PageSTACK_SIZE - 1) /\ R \in Slots /\ t \in Slots
  BY TopInRange, SizeAssumption DEF RoomTop, Full, Slots
<1>2. Saved \in [Slots -> Slot] /\ now \in Ids \cup {0}
  BY SavedShape, ClockAssumption DEF NextIds, Ids, TypeOK
<1>3. Saved[t].id = 0 => Saved[t].view_line = 0
  <2>1. PageSTACK[stack_top - 1].id # 0 /\ Saved[t].id = PageSTACK[t].id
    BY <1>1, SavedShape DEF NoHoles
  <2>2. t # stack_top - 1 => Saved[t] = PageSTACK[t]
    BY <1>1 DEF Saved, setPageParams, TypeOK
  <2> QED  BY <1>1, <2>1, <2>2 DEF Blank
<1>4. r[R].id = 0 => r[R].view_line = 0
  <2>1. CASE ~ Full(t)
    BY <1>3, <2>1 DEF MadeRoom, RoomTop
  <2>2. CASE Full(t)
    <3>1. R = PageSTACK_SIZE - 1
      BY <2>2 DEF RoomTop, Full
    <3> QED  BY <1>1, <2>2, <3>1 DEF MadeRoom, ShiftDown, EmptySlot
  <2> QED  BY <2>1, <2>2
<1>5. r[R] \in Slot /\ EmptySlot \in Slot /\ EmptySlot.view_line = 0
  <2>1. EmptySlot \in Slot
    BY DEF EmptySlot, Slot
  <2>2. ASSUME ~ Full(t) PROVE r[R] \in Slot
    <3>1. r = Saved
      BY <2>2 DEF MadeRoom
    <3> QED  BY <1>1, <1>2, <3>1
  <2>3. ASSUME Full(t) PROVE r[R] = EmptySlot
    <3>1. R = PageSTACK_SIZE - 1
      BY <2>3 DEF RoomTop, Full
    <3> QED  BY <1>1, <2>3, <3>1 DEF MadeRoom, ShiftDown
  <2> QED  BY <2>1, <2>2, <2>3 DEF EmptySlot
<1> HIDE DEF r
<1>6. k[R] = IF r[R].id # 0 THEN EmptySlot ELSE r[R]
  BY <1>1 DEF killpage, ForwardPages
<1>7. k[R] \in Slot /\ k[R].view_line = 0
  BY <1>4, <1>5, <1>6
<1>8. PageSTACK' = [k EXCEPT ![R].id = now] /\ DOMAIN k = Slots
  BY DEF PushAndLoad, PushPageToStack, killpage, r
<1> HIDE DEF k, R
<1> QED  BY <1>1, <1>7, <1>8 DEF R, Slot

LEMMA StaysBlank == Spec => []Blank
<1>1. Init => Blank
  <2> SUFFICES ASSUME Init, NEW n \in Slots, PageSTACK[n].id = 0
               PROVE  PageSTACK[n].view_line = 0
    BY DEF Blank
  <2>1. n # 0 /\ InitUrlStack \in [Slots -> Slot] /\ 1 \in Ids
    BY InitIds, SizeAssumption, ClockAssumption DEF InitUrlStack, EmptySlot, Slot, Ids, Slots
  <2>2. RoomTop(0) = 0 /\ 0 \in 0 .. PageSTACK_SIZE
    BY SizeAssumption DEF RoomTop, Full
  <2>5. PageSTACK = PushPageToStack(InitUrlStack, 0, 1)
    BY DEF Init
  <2>3. n < PageSTACK_SIZE => PageSTACK[n] = IF InitUrlStack[n].id # 0 THEN EmptySlot
                                              ELSE InitUrlStack[n]
    <3>1. n > RoomTop(0)
      BY <2>1, <2>2 DEF Slots
    <3> QED  BY <2>1, <2>2, <2>5, <3>1, PushShape
  <2>4. PageSTACK[PageSTACK_SIZE] = InitUrlStack[PageSTACK_SIZE]
    BY <2>1, <2>2, PushShape DEF Init
  <2> QED  BY <2>3, <2>4, SizeAssumption DEF InitUrlStack, EmptySlot, Slots
<1>2. TypeOK /\ NoHoles /\ Blank /\ [Next]_vars => Blank'
  <2> SUFFICES ASSUME TypeOK, NoHoles, Blank, [Next]_vars PROVE Blank'
    OBVIOUS
  <2>0. running => \A n \in Slots : Saved[n].id = 0 => Saved[n].view_line = 0
    <3> SUFFICES ASSUME running, NEW n \in Slots, Saved[n].id = 0 PROVE Saved[n].view_line = 0
      OBVIOUS
    <3>1. n # stack_top - 1 /\ PageSTACK[n].id = 0
      BY SavedShape DEF NoHoles
    <3> QED  BY <3>1 DEF Saved, setPageParams, TypeOK, Blank
  <2>1. CASE Pushes
    <3>1. PICK t \in {stack_top - 1, stack_top}, now \in NextIds, d \in Docs :
            PushAndLoad(Saved, t, now, d)
      BY <2>1 DEF Pushes
    <3>2. /\ RoomTop(t) \in 0 .. (PageSTACK_SIZE - 1)
          /\ \A n \in Slots : (n > RoomTop(t) /\ n < PageSTACK_SIZE)
                                => PageSTACK'[n] = IF Saved[n].id # 0 THEN EmptySlot ELSE Saved[n]
          /\ PageSTACK'[PageSTACK_SIZE] = Saved[PageSTACK_SIZE]
      <4>1. t \in 0 .. PageSTACK_SIZE /\ now \in Ids /\ Saved \in [Slots -> Slot]
        BY <2>1, <3>1, TopInRange, SavedShape, PushIds DEF Pushes
      <4> QED  BY <3>1, <4>1, PushShape DEF PushAndLoad
    <3>3. PageSTACK'[RoomTop(t)].view_line = 0
      BY <2>1, <3>1, PushedLine DEF Pushes
    <3>4. \A n \in Slots : n < RoomTop(t) => PageSTACK'[n].id # 0
      BY <2>1, <3>1, PushIds DEF Pushes
    <3>5. \A n \in Slots : n < RoomTop(t) \/ n = RoomTop(t) \/ n = PageSTACK_SIZE
                           \/ (n > RoomTop(t) /\ n < PageSTACK_SIZE)
      BY <3>2, SizeAssumption DEF Slots
    <3> QED  BY <2>0, <2>1, <3>2, <3>3, <3>4, <3>5 DEF Pushes, Blank, EmptySlot
  <2>2. CASE Moves
    BY <2>0, <2>2 DEF Moves, Blank
  <2>3. CASE TypeNew
    <3>1. PICK b \in Blocks : PageSTACK' = setUserData(PageSTACK, stack_top, b)
      BY <2>3 DEF TypeNew
    <3> QED  BY <3>1, TopInRange DEF setUserData, TypeOK, Slot, Slots, Blank
  <2>4. CASE Quit
    <3>1. PageSTACK_SIZE \in Slots
      BY SizeAssumption DEF Slots
    <3> QED  BY <2>4, <3>1, QuitShape, SizeAssumption DEF Blank, EmptySlot, Slots
  <2>5. CASE Stays
    BY <2>5 DEF Stays, Blank
  <2> QED  BY <2>1, <2>2, <2>3, <2>4, <2>5, StepKinds
<1> QED  BY <1>1, <1>2, TypeCorrect, StackHasNoHoles, PTL DEF Spec

\* The pages are the first slots.
LEMMA PagesCounted ==
  ASSUME TypeOK, NoHoles
  PROVE  /\ PageCount \in 0 .. PageSTACK_SIZE
         /\ \A n \in Slots : PageSTACK[n].id # 0 <=> n < PageCount
<1> DEFINE E == {n \in Slots : PageSTACK[n].id = 0}
           Less == {ss \in Nat \X Nat : ss[1] < ss[2]}
<1>1. E # {} /\ E \subseteq Nat
  BY SizeAssumption DEF NoHoles, Slots
<1>2. IsWellFoundedOn(Less, Nat)
  BY NatLessThanWellFounded DEF OpToRel
<1>3. PICK c \in E : \A n \in E : <<n, c>> \notin Less
  <2> HIDE DEF Less, E
  <2> QED  BY <1>1, <1>2, WFMin
<1>4. \A n \in E : c <= n
  <2> SUFFICES ASSUME NEW n \in E, n < c PROVE FALSE
    BY <1>1
  <2>1. <<n, c>> \in Nat \X Nat /\ <<n, c>>[1] < <<n, c>>[2]
    BY <1>1
  <2>2. <<n, c>> \in Less
    BY <2>1
  <2> QED  BY <1>3, <2>2
<1>5. ASSUME NEW n \in Slots PROVE PageSTACK[n].id # 0 <=> n < c
  <2>1. c \in Slots /\ PageSTACK[c].id = 0
    OBVIOUS
  <2>2. CASE n < c
    BY <1>4, <2>1, <2>2 DEF Slots
  <2>3. CASE ~ (n < c)
    <3>1. c < n \/ c = n
      BY <2>1, <2>3 DEF Slots
    <3> QED  BY <2>1, <2>3, <3>1 DEF NoHoles
  <2> QED  BY <2>2, <2>3
<1>6. c \in 0 .. PageSTACK_SIZE
  BY DEF Slots
<1>7. {n \in Slots : PageSTACK[n].id # 0} = 0 .. (c - 1)
  <2> HIDE DEF E
  <2> QED  BY <1>5, <1>6, SizeAssumption DEF Slots
<1>8. PageCount = c
  <2>1. Cardinality(0 .. (c - 1)) = IF 0 > c - 1 THEN 0 ELSE (c - 1) - 0 + 1
    BY <1>6, FS_Interval, SizeAssumption
  <2>2. PageCount = Cardinality(0 .. (c - 1))
    BY <1>7 DEF PageCount
  <2> HIDE DEF E
  <2> QED  BY <1>6, <2>1, <2>2, SizeAssumption
<1> QED  BY <1>5, <1>6, <1>8

\* Sequences written as functions.
LEMMA AppendedSeq ==
  ASSUME NEW S, NEW m \in Nat, NEW f \in [1 .. m -> S], NEW e \in S
  PROVE  Append(f, e) = [k \in 1 .. m + 1 |-> IF k = m + 1 THEN e ELSE f[k]]
<1>1. f \in Seq(S) /\ Len(f) = m
  OBVIOUS
<1> DEFINE g == Append(f, e)
<1>2. /\ g \in Seq(S) /\ Len(g) = m + 1
      /\ \A k \in 1 .. m : g[k] = f[k]
      /\ g[m + 1] = e
  BY <1>1, AppendProperties
<1> HIDE DEF g
<1>3. g = [k \in 1 .. m + 1 |-> g[k]]
  BY <1>2
<1> QED  BY <1>2, <1>3 DEF g

LEMMA TailSeq ==
  ASSUME NEW S, NEW m \in Nat, m > 0, NEW f \in [1 .. m -> S]
  PROVE  /\ Tail(f) = [k \in 1 .. m - 1 |-> f[k + 1]] /\ Head(f) = f[1]
         /\ Tail(f) \in [1 .. m - 1 -> S]
<1>1. f \in Seq(S) /\ Len(f) = m /\ f # <<>>
  OBVIOUS
<1> DEFINE g == Tail(f)
<1>2. /\ g \in Seq(S) /\ Len(g) = m - 1 /\ Head(f) = f[1]
      /\ \A k \in 1 .. m - 1 : g[k] = f[k + 1]
  BY <1>1, HeadTailProperties
<1> HIDE DEF g
<1>3. g = [k \in 1 .. m - 1 |-> g[k]] /\ g \in [1 .. m - 1 -> S]
  BY <1>2
<1> QED  BY <1>2, <1>3 DEF g

LEMMA FrontSeq ==
  ASSUME NEW S, NEW m \in Nat, m > 0, NEW f \in [1 .. m -> S]
  PROVE  Len(f) = m /\ SubSeq(f, 1, Len(f) - 1) = [k \in 1 .. m - 1 |-> f[k]]
<1>1. f \in Seq(S) /\ Len(f) = m
  OBVIOUS
<1> DEFINE g == SubSeq(f, 1, m - 1)
<1>2. g \in Seq(S) /\ Len(g) = m - 1 /\ \A k \in 1 .. m - 1 : g[k] = f[k]
  BY <1>1, SubSeqProperties
<1> HIDE DEF g
<1>3. g = [k \in 1 .. m - 1 |-> g[k]]
  BY <1>2
<1> QED  BY <1>1, <1>2, <1>3 DEF g

LEMMA PrependedSeq ==
  ASSUME NEW S, NEW m \in Nat, NEW f \in [1 .. m -> S], NEW e \in S
  PROVE  <<e>> \o f = [k \in 1 .. m + 1 |-> IF k = 1 THEN e ELSE f[k - 1]]
<1>1. f \in Seq(S) /\ Len(f) = m /\ <<e>> \in Seq(S) /\ Len(<<e>>) = 1 /\ <<e>>[1] = e
  OBVIOUS
<1> DEFINE g == <<e>> \o f
<1>2. g \in Seq(S) /\ Len(g) = m + 1
      /\ \A k \in 1 .. m + 1 : g[k] = IF k = 1 THEN e ELSE f[k - 1]
  BY <1>1, ConcatProperties
<1> HIDE DEF g
<1>3. g = [k \in 1 .. m + 1 |-> g[k]]
  BY <1>2
<1> QED  BY <1>2, <1>3 DEF g

\* The mapping of PageStack to BackForward.
Past   == IF running THEN [k \in 1 .. (stack_top - 1) |-> PageAt(k - 1)] ELSE <<>>
Cur    == IF running THEN PageAt(stack_top - 1) ELSE NULL
Future == IF running THEN [k \in 1 .. (PageCount - stack_top) |-> PageAt(stack_top + k - 1)]
                     ELSE <<>>

Inv == TypeOK /\ PagesOwned /\ Aged /\ IdsIncrease /\ Blank

\* The pages as they will be found: the one on screen with its position.
Left == [Cur EXCEPT !.line = line]
LeftAt(n) == IF n = stack_top - 1 THEN Left ELSE PageAt(n)

PageRecords == [doc : Docs \cup {NULL}, line : Lines \cup {0}, form : Forms \cup {NULL}]

LEMMA PagesTyped ==
  ASSUME Inv, running
  PROVE  /\ PageCount \in 0 .. PageSTACK_SIZE /\ stack_top \in 1 .. PageCount
         /\ \A n \in Slots : PageSTACK[n].id # 0 <=> n < PageCount
         /\ \A n \in 0 .. (PageCount - 1) : PageAt(n) \in PageRecords /\ LeftAt(n) \in PageRecords
         /\ Left \in PageRecords
         /\ Past \in [1 .. (stack_top - 1) -> PageRecords]
         /\ Future \in [1 .. (PageCount - stack_top) -> PageRecords]
         /\ \A n \in Slots : LeftAt(n) = [PageAt(n) EXCEPT !.line = Saved[n].view_line]
<1>1. /\ PageCount \in 0 .. PageSTACK_SIZE
      /\ \A n \in Slots : PageSTACK[n].id # 0 <=> n < PageCount
  BY PagesCounted DEF Inv, PagesOwned
<1>2. stack_top \in 1 .. PageCount
  <2>1. stack_top - 1 \in Slots /\ PageSTACK[stack_top - 1].id # 0
    BY TopInRange DEF Inv, PagesOwned, NoHoles, Slots
  <2> QED  BY <1>1, <2>1, SizeAssumption DEF Inv, TypeOK
<1>3. ASSUME NEW n \in 0 .. (PageCount - 1) PROVE PageAt(n) \in PageRecords
  <2>1. n \in Slots /\ PageSTACK[n] \in Slot /\ PageSTACK[n].id \in Ids
    BY <1>1, SizeAssumption DEF Inv, TypeOK, Slots, Slot
  <2> QED  BY <2>1 DEF PageAt, PageRecords, Inv, TypeOK, Slot
<1>4. Left \in PageRecords
  <2>1. Cur \in PageRecords /\ line \in Lines \cup {0}
    <3>1. stack_top - 1 \in 0 .. (PageCount - 1)
      BY <1>1, <1>2
    <3> QED  BY <1>3, <3>1 DEF Cur, Inv, TypeOK
  <2> QED  BY <2>1 DEF Left, PageRecords
<1>5. \A n \in 0 .. (PageCount - 1) : LeftAt(n) \in PageRecords
  BY <1>3, <1>4 DEF LeftAt
<1>6. /\ Past \in [1 .. (stack_top - 1) -> PageRecords]
      /\ Future \in [1 .. (PageCount - stack_top) -> PageRecords]
  BY <1>1, <1>2, <1>3, SizeAssumption DEF Past, Future
<1>7. ASSUME NEW n \in Slots PROVE LeftAt(n) = [PageAt(n) EXCEPT !.line = Saved[n].view_line]
  <2>1. CASE n = stack_top - 1
    BY <2>1 DEF LeftAt, Left, Cur, Saved, setPageParams, Inv, TypeOK, Slot
  <2>2. CASE n # stack_top - 1
    BY <2>2 DEF LeftAt, PageAt, Saved, setPageParams, Inv, TypeOK
  <2> QED  BY <2>1, <2>2
<1> QED  BY <1>1, <1>2, <1>3, <1>4, <1>5, <1>6, <1>7

\* What a push leaves of the pages, and the page it makes.
LEMMA PushPages ==
  ASSUME Inv, running, MinGap = 1,
         NEW t \in {stack_top - 1, stack_top}, NEW now \in NextIds, NEW d \in Docs,
         PushAndLoad(Saved, t, now, d)
  PROVE  /\ stack_top' = RoomTop(t) + 1 /\ RoomTop(t) \in 0 .. (PageSTACK_SIZE - 1)
         /\ \A n \in 0 .. (RoomTop(t) - 1) :
              PageAt(n)' = LeftAt(IF Full(t) THEN n + 1 ELSE n)
         /\ PageAt(RoomTop(t))' = [doc |-> d, line |-> 0, form |-> NULL]
<1>0. /\ TypeOK /\ NoHoles /\ EmptySlotsOwnNothing /\ FormsOwnedOnce /\ Aged /\ IdsIncrease
      /\ Blank
  BY DEF Inv, PagesOwned
<1>1. stack_top' = RoomTop(t) + 1 /\ RoomTop(t) \in 0 .. (PageSTACK_SIZE - 1)
  BY <1>0, PushIds
<1>2. ASSUME NEW n \in 0 .. (RoomTop(t) - 1)
      PROVE  PageAt(n)' = LeftAt(IF Full(t) THEN n + 1 ELSE n)
  <2> DEFINE m == IF Full(t) THEN n + 1 ELSE n
  <2>1. n \in Slots /\ n < RoomTop(t) /\ m \in Slots
    BY <1>1, SizeAssumption DEF Slots
  <2>2. PageSTACK'[n] = Saved[m]
    <3>1. t \in 0 .. PageSTACK_SIZE /\ now \in Ids /\ Saved \in [Slots -> Slot]
          /\ PageSTACK' = PushPageToStack(Saved, t, now)
      BY <1>0, TopInRange, PushIds, SavedShape DEF PushAndLoad
    <3> QED  BY <2>1, <3>1, PushShape
  <2>3. PageSTACK[m].id # 0 /\ ~ (IF Full(t) THEN m = 0 ELSE m >= t)
    <3>1. CASE Full(t)
      BY <1>0, <2>1, <3>1, PushIds DEF Slots
    <3>2. CASE ~ Full(t)
      <4>1. m < t
        BY <2>1, <3>2 DEF RoomTop
      <4>2. t \in Nat /\ m \in Nat
        BY <1>0, <2>1, TopInRange DEF Slots
      <4> QED  BY <1>0, <2>1, <3>2, <4>1, <4>2, PushIds
    <3> QED  BY <3>1, <3>2
  <2> HIDE DEF m
  <2>4. Saved[m].id = PageSTACK[m].id /\ Saved[m].form = PageSTACK[m].form
    BY <1>0, <2>1, SavedShape
  <2>5. disk'[PageSTACK[m].id] = disk[PageSTACK[m].id]
    BY <1>0, <2>1, <2>3, PushUnlinks
  <2>6. PageSTACK[m].form # NULL => heap'[PageSTACK[m].form] = heap[PageSTACK[m].form]
    BY <1>0, <2>1, <2>3, PushFrees
  <2>7. PageAt(n)' = [PageAt(m) EXCEPT !.line = Saved[m].view_line]
    BY <2>2, <2>4, <2>5, <2>6 DEF PageAt
  <2> QED  BY <2>1, <2>7, PagesTyped DEF m
<1>3. PageAt(RoomTop(t))' = [doc |-> d, line |-> 0, form |-> NULL]
  <2>1. PageSTACK'[RoomTop(t)].id = now /\ now \in Ids /\ disk'[now] = d
    BY <1>0, PushIds, PushUnlinks
  <2>2. PageSTACK'[RoomTop(t)].form = NULL
    BY <1>0, <1>1, PushForms, SizeAssumption DEF Slots
  <2>3. PageSTACK'[RoomTop(t)].view_line = 0
    BY <1>0, PushedLine
  <2> QED  BY <2>1, <2>2, <2>3 DEF PageAt
<1> QED  BY <1>1, <1>2, <1>3

\* The pages fill the array up to PageCount.
Filled ==
  /\ PageCount \in 0 .. PageSTACK_SIZE /\ stack_top \in 1 .. PageCount
  /\ \A n \in Slots : PageSTACK[n].id # 0 <=> n < PageCount

LEMMA PagesFill == Inv /\ running => Filled
BY PagesTyped DEF Filled

\* A push leaves no page ahead.
LEMMA PushCount ==
  ASSUME Inv, Inv', running, running',
         NEW t \in {stack_top - 1, stack_top}, NEW now \in NextIds, NEW d \in Docs,
         PushAndLoad(Saved, t, now, d)
  PROVE  PageCount' = stack_top'
<1>1. Inv' /\ running' => Filled'
  BY PagesFill, PTL
<1>2. /\ \A n \in Slots : n > RoomTop(t) => PageSTACK'[n].id = 0
      /\ stack_top' = RoomTop(t) + 1 /\ RoomTop(t) \in 0 .. (PageSTACK_SIZE - 1)
  BY PushIds DEF Inv, PagesOwned
<1>3. /\ PageCount' \in 0 .. PageSTACK_SIZE /\ stack_top' \in 1 .. PageCount'
      /\ \A n \in Slots : PageSTACK'[n].id # 0 <=> n < PageCount'
  BY <1>1 DEF Filled, Slots
<1>4. RoomTop(t) + 1 \in Slots
  BY <1>2, SizeAssumption DEF Slots
<1> QED  BY <1>2, <1>3, <1>4, SizeAssumption

\* Visit is a push onto the page on screen.
LEMMA VisitMaps == Inv /\ Inv' /\ MinGap = 1 /\ Visit => Browser!Visit
<1> SUFFICES ASSUME Inv, Inv', MinGap = 1, Visit PROVE Browser!Visit
  OBVIOUS
<1>0. PICK t \in {stack_top - 1, stack_top} : t = stack_top
  OBVIOUS
<1>1. PICK now \in NextIds, d \in Docs : PushAndLoad(Saved, t, now, d)
  BY <1>0 DEF Visit
<1>2. running /\ running' /\ line' = 0
  BY DEF Visit
<1>3. /\ stack_top' = RoomTop(t) + 1 /\ RoomTop(t) \in 0 .. (PageSTACK_SIZE - 1)
      /\ \A n \in 0 .. (RoomTop(t) - 1) :
           PageAt(n)' = LeftAt(IF Full(t) THEN n + 1 ELSE n)
      /\ PageAt(RoomTop(t))' = [doc |-> d, line |-> 0, form |-> NULL]
  BY <1>1, <1>2, PushPages
<1>4. PageCount' = stack_top'
  BY <1>1, <1>2, PushCount
<1>5. Cur' = [doc |-> d, line |-> 0, form |-> NULL]
  <2>1. stack_top' - 1 = RoomTop(t)
    BY <1>3
  <2>2. PageAt(stack_top - 1)' = PageAt(RoomTop(t))'
    BY <2>1 DEF PageAt
  <2> QED  BY <1>2, <1>3, <2>2 DEF Cur
<1>6. Future' = <<>>
  BY <1>2, <1>3, <1>4, SizeAssumption DEF Future
<1>7. /\ stack_top \in 1 .. PageSTACK_SIZE
      /\ Past \in [1 .. (t - 1) -> PageRecords] /\ Left \in PageRecords
      /\ Past = [k \in 1 .. (t - 1) |-> PageAt(k - 1)]
      /\ \A k : LeftAt(k) = IF k = t - 1 THEN Left ELSE PageAt(k)
      /\ t \in 1 .. PageSTACK_SIZE
  BY <1>0, <1>2, PagesTyped DEF Inv, TypeOK, Past, LeftAt
<1>8. Past' = [k \in 1 .. RoomTop(t) |-> LeftAt(IF Full(t) THEN k ELSE k - 1)]
  <2>1. Past' = [k \in 1 .. RoomTop(t) |-> PageAt(k - 1)']
    BY <1>2, <1>3 DEF Past
  <2>2. ASSUME NEW k \in 1 .. RoomTop(t)
        PROVE  PageAt(k - 1)' = LeftAt(IF Full(t) THEN k ELSE k - 1)
    <3>1. k - 1 \in 0 .. (RoomTop(t) - 1) /\ (k - 1) + 1 = k
      BY <1>3
    <3> QED  BY <1>3, <3>1
  <2> QED  BY <2>1, <2>2
<1>9. Past' = IF Len(Past) + 1 = PageSTACK_SIZE THEN Append(Tail(Past), Left)
              ELSE Append(Past, Left)
  <2>1. Len(Past) = t - 1
    BY <1>7
  <2>2. CASE Full(t)
    <3>1. /\ t - 1 > 0 /\ t - 1 \in Nat /\ t - 2 \in Nat /\ RoomTop(t) = t - 1
          /\ Len(Past) + 1 = PageSTACK_SIZE
      BY <1>7, <2>1, <2>2, SizeAssumption DEF Full, RoomTop
    <3>2. Tail(Past) = [k \in 1 .. t - 2 |-> Past[k + 1]]
          /\ Tail(Past) \in [1 .. t - 2 -> PageRecords]
      BY <1>7, <3>1, TailSeq
    <3>3. Append(Tail(Past), Left)
            = [k \in 1 .. t - 1 |-> IF k = t - 1 THEN Left ELSE Tail(Past)[k]]
      BY <1>7, <3>1, <3>2, AppendedSeq
    <3>4. ASSUME NEW k \in 1 .. t - 1
          PROVE  LeftAt(k) = IF k = t - 1 THEN Left ELSE Tail(Past)[k]
      <4>1. CASE k = t - 1
        BY <1>7, <4>1
      <4>2. CASE k # t - 1
        <5>1. k \in 1 .. t - 2 /\ k + 1 \in 1 .. t - 1 /\ (k + 1) - 1 = k
          BY <1>7, <3>1, <4>2
        <5> QED  BY <1>7, <3>2, <4>2, <5>1
      <4> QED  BY <4>1, <4>2
    <3> QED  BY <1>8, <2>2, <3>1, <3>3, <3>4
  <2>3. CASE ~ Full(t)
    <3>1. t - 1 \in Nat /\ RoomTop(t) = t /\ Len(Past) + 1 # PageSTACK_SIZE
      BY <1>7, <2>1, <2>3, SizeAssumption DEF Full, RoomTop
    <3>2. Append(Past, Left) = [k \in 1 .. (t - 1) + 1 |-> IF k = (t - 1) + 1 THEN Left ELSE Past[k]]
      BY <1>7, <3>1, AppendedSeq
    <3>3. ASSUME NEW k \in 1 .. t
          PROVE  LeftAt(k - 1) = IF k = (t - 1) + 1 THEN Left ELSE Past[k]
      <4>1. CASE k = t
        BY <1>7, <3>1, <4>1
      <4>2. CASE k # t
        <5>1. k \in 1 .. t - 1 /\ k - 1 # t - 1 /\ k # (t - 1) + 1
          BY <1>7, <3>1, <4>2
        <5> QED  BY <1>7, <5>1
      <4> QED  BY <4>1, <4>2
    <3>4. (t - 1) + 1 = t
      BY <1>7
    <3> QED  BY <1>8, <2>3, <3>1, <3>2, <3>3, <3>4
  <2> QED  BY <2>2, <2>3
<1> QED
  BY <1>2, <1>5, <1>6, <1>9 DEF Browser!Visit, Browser!Entry, Browser!Left, Past, Cur, Future, Left

\* Reload is a push in the place of the page on screen.
LEMMA ReloadMaps == Inv /\ Inv' /\ MinGap = 1 /\ Reload => Browser!Reload
<1> SUFFICES ASSUME Inv, Inv', MinGap = 1, Reload PROVE Browser!Reload
  OBVIOUS
<1>0. PICK t \in {stack_top - 1, stack_top} : t = stack_top - 1
  OBVIOUS
<1>1. PICK now \in NextIds, d \in Docs : PushAndLoad(Saved, t, now, d)
  BY <1>0, TopInRange DEF Reload, Inv
<1>2. running /\ running'
  BY DEF Reload
<1>3. t \in 0 .. (PageSTACK_SIZE - 1) /\ stack_top = t + 1 /\ ~ Full(t) /\ RoomTop(t) = t
  BY <1>0, SizeAssumption DEF Inv, TypeOK, Full, RoomTop
<1>4. /\ stack_top' = t + 1
      /\ \A n \in 0 .. (t - 1) : PageAt(n)' = LeftAt(n)
      /\ PageAt(t)' = [doc |-> d, line |-> 0, form |-> NULL]
  <2>1. /\ stack_top' = RoomTop(t) + 1
        /\ \A n \in 0 .. (RoomTop(t) - 1) : PageAt(n)' = LeftAt(IF Full(t) THEN n + 1 ELSE n)
        /\ PageAt(RoomTop(t))' = [doc |-> d, line |-> 0, form |-> NULL]
    BY <1>1, <1>2, PushPages
  <2>2. PageAt(RoomTop(t))' = PageAt(t)'
    BY <1>3 DEF PageAt
  <2> QED  BY <1>3, <2>1, <2>2
<1>5. Cur' = [doc |-> d, line |-> 0, form |-> NULL]
  <2>1. stack_top' - 1 = t
    BY <1>3, <1>4
  <2>2. PageAt(stack_top - 1)' = PageAt(t)'
    BY <2>1 DEF PageAt
  <2> QED  BY <1>2, <1>4, <2>2 DEF Cur
<1>6. Future' = <<>>
  <2>1. PageCount' = stack_top'
    BY <1>1, <1>2, PushCount
  <2> QED  BY <1>2, <1>3, <1>4, <2>1 DEF Future
<1>7. Past' = Past
  <2>1. Past' = [k \in 1 .. t |-> PageAt(k - 1)'] /\ Past = [k \in 1 .. t |-> PageAt(k - 1)]
    BY <1>2, <1>3, <1>4 DEF Past
  <2>2. ASSUME NEW k \in 1 .. t PROVE PageAt(k - 1)' = PageAt(k - 1)
    <3>1. k - 1 \in 0 .. (t - 1) /\ k - 1 # stack_top - 1
      BY <1>3
    <3> QED  BY <1>4, <3>1 DEF LeftAt
  <2> QED  BY <2>1, <2>2
<1>8. line' = line
  <2>1. line' = Saved[t].view_line
    BY <1>0, TopInRange DEF Reload, Inv
  <2>2. t \in Slots /\ PageSTACK \in [Slots -> Slot]
    BY <1>3, SizeAssumption DEF Inv, TypeOK, Slots
  <2>3. Saved[t].view_line = line
    BY <1>0, <2>2 DEF Saved, setPageParams, Slot
  <2> QED  BY <2>1, <2>3
<1> QED
  BY <1>2, <1>5, <1>6, <1>7, <1>8 DEF Browser!Reload, Browser!Entry, Past, Cur, Future

\* Where a move of the top leaves the pages.
LEMMA MovePages ==
  ASSUME Inv, Moves
  PROVE  /\ PageCount' = PageCount
         /\ \A n \in Slots : PageAt(n)' = LeftAt(n) /\ PageAt(n)'.line = Saved[n].view_line
<1>1. running /\ PageSTACK' = Saved /\ UNCHANGED <<heap, disk>>
  BY DEF Moves
<1>2. \A n \in Slots : Saved[n].id = PageSTACK[n].id /\ Saved[n].form = PageSTACK[n].form
  BY SavedShape DEF Inv
<1>3. PageCount' = PageCount
  <2>1. {n \in Slots : PageSTACK'[n].id # 0} = {n \in Slots : PageSTACK[n].id # 0}
    BY <1>1, <1>2
  <2> QED  BY <2>1 DEF PageCount, Slots
<1>4. ASSUME NEW n \in Slots
      PROVE  PageAt(n)' = LeftAt(n) /\ PageAt(n)'.line = Saved[n].view_line
  <2>1. LeftAt(n) = [PageAt(n) EXCEPT !.line = Saved[n].view_line]
    BY <1>1, PagesTyped
  <2>2. PageAt(n)' = [PageAt(n) EXCEPT !.line = Saved[n].view_line]
    BY <1>1, <1>2 DEF PageAt
  <2>3. PageAt(n)'.line = Saved[n].view_line
    BY <1>1 DEF PageAt
  <2> QED  BY <2>1, <2>2, <2>3
<1> QED  BY <1>3, <1>4

\* Back shows the last of the pages behind.
LEMMA BackMaps == Inv /\ Back => Browser!Back
<1> SUFFICES ASSUME Inv, Back PROVE Browser!Back
  OBVIOUS
<1>0. PICK t \in {stack_top} : t = stack_top
  OBVIOUS
<1>1. /\ t \in 2 .. PageSTACK_SIZE /\ running /\ running'
      /\ stack_top' = t - 1 /\ line' = Saved[t - 2].view_line
      /\ Moves
  <2>1. PopPageFromStack(stack_top) > 0 /\ stack_top - 2 \in 0 .. PageSTACK_SIZE
    BY TopInRange DEF Back, Inv
  <2>2. ShowCached(Saved, stack_top - 2)
    BY TopInRange DEF Back, Inv
  <2>3. stack_top' = stack_top - 1 /\ stack_top > 1
    BY <2>1, <2>2, TopInRange, SizeAssumption DEF ShowCached, UpPageStack, TypeOK, Inv
  <2> QED  BY <1>0, <2>2, <2>3 DEF Back, ShowCached, Moves, Inv, TypeOK
<1>2. /\ PageCount' = PageCount
      /\ \A n \in Slots : PageAt(n)' = LeftAt(n) /\ PageAt(n)'.line = Saved[n].view_line
  BY <1>1, MovePages
<1>3. PICK c \in {PageCount} : c = PageCount
  OBVIOUS
<1>4. /\ c \in t .. PageSTACK_SIZE
      /\ Past \in [1 .. (t - 1) -> PageRecords] /\ Past = [k \in 1 .. (t - 1) |-> PageAt(k - 1)]
      /\ Future \in [1 .. (c - t) -> PageRecords] /\ Future = [k \in 1 .. (c - t) |-> PageAt(t + k - 1)]
      /\ Left \in PageRecords
      /\ \A n : LeftAt(n) = IF n = t - 1 THEN Left ELSE PageAt(n)
  BY <1>0, <1>1, <1>3, PagesTyped DEF Past, Future, LeftAt
<1>5. Past # <<>> /\ Cur' = Past[Len(Past)] /\ line' = Cur'.line
  <2>1. Len(Past) = t - 1 /\ t - 1 \in 1 .. (t - 1) /\ t - 2 \in Slots /\ t - 2 # t - 1
    BY <1>1, <1>4, SizeAssumption DEF Slots
  <2>2. Past[t - 1] = PageAt(t - 2)
    <3>1. (t - 1) - 1 = t - 2
      BY <1>1
    <3> QED  BY <1>4, <2>1, <3>1
  <2>3. Cur' = PageAt(t - 2)'
    <3>1. stack_top' - 1 = t - 2
      BY <1>1
    <3> QED  BY <1>1, <3>1 DEF Cur, PageAt
  <2>4. Past # <<>>
    BY <1>1, <2>1
  <2> QED  BY <1>1, <1>2, <1>4, <2>1, <2>2, <2>3, <2>4
<1>6. Past' = SubSeq(Past, 1, Len(Past) - 1)
  <2>1. t - 1 \in Nat /\ t - 1 > 0 /\ (t - 1) - 1 = t - 2
    BY <1>1
  <2>2. SubSeq(Past, 1, Len(Past) - 1) = [k \in 1 .. t - 2 |-> Past[k]]
    BY <1>4, <2>1, FrontSeq
  <2>3. Past' = [k \in 1 .. t - 2 |-> PageAt(k - 1)']
    BY <1>1 DEF Past
  <2>4. ASSUME NEW k \in 1 .. t - 2 PROVE PageAt(k - 1)' = Past[k]
    <3>1. k - 1 \in Slots /\ k - 1 # t - 1 /\ k \in 1 .. t - 1
      BY <1>1, SizeAssumption DEF Slots
    <3> QED  BY <1>2, <1>4, <3>1
  <2> QED  BY <2>2, <2>3, <2>4
<1>7. Future' = <<Left>> \o Future
  <2>1. c - t \in Nat /\ (c - t) + 1 = c - (t - 1)
    BY <1>1, <1>4
  <2>2. <<Left>> \o Future = [k \in 1 .. (c - t) + 1 |-> IF k = 1 THEN Left ELSE Future[k - 1]]
    BY <1>4, <2>1, PrependedSeq
  <2>3. Future' = [k \in 1 .. (c - t) + 1 |-> PageAt((t - 1) + k - 1)']
    BY <1>1, <1>2, <1>3, <2>1 DEF Future
  <2>4. ASSUME NEW k \in 1 .. (c - t) + 1
        PROVE  PageAt((t - 1) + k - 1)' = IF k = 1 THEN Left ELSE Future[k - 1]
    <3>1. (t - 1) + k - 1 \in Slots /\ ((t - 1) + k - 1 = t - 1 <=> k = 1)
      BY <1>1, <1>4, SizeAssumption DEF Slots
    <3>2. k # 1 => k - 1 \in 1 .. (c - t) /\ t + (k - 1) - 1 = (t - 1) + k - 1
      BY <1>1, <1>4
    <3> QED  BY <1>2, <1>4, <3>1, <3>2
  <2> QED  BY <2>2, <2>3, <2>4
<1> QED
  BY <1>1, <1>5, <1>6, <1>7 DEF Browser!Back, Browser!Left, Past, Cur, Future, Left

\* Forward shows the first of the pages ahead.
LEMMA ForwardMaps == Inv /\ Forward => Browser!Forward
<1> SUFFICES ASSUME Inv, Forward PROVE Browser!Forward
  OBVIOUS
<1>0. PICK t \in {stack_top} : t = stack_top
  OBVIOUS
<1>1. /\ t \in 1 .. (PageSTACK_SIZE - 1) /\ running /\ running'
      /\ stack_top' = t + 1 /\ line' = Saved[t].view_line
      /\ PageSTACK[t].id # 0 /\ Moves
  <2>1. PageSTACK[stack_top].id # 0
    BY DEF Forward, CheckPageStackTop
  <2>2. stack_top < PageSTACK_SIZE
    BY <2>1, SizeAssumption DEF NoHoles, TypeOK, Inv, PagesOwned
  <2>3. ShowCached(Saved, stack_top)
    BY TopInRange DEF Forward, Inv
  <2>4. stack_top' = stack_top + 1
    BY <2>2, <2>3 DEF ShowCached, UpPageStack, TypeOK, Inv
  <2> QED  BY <1>0, <2>1, <2>2, <2>3, <2>4, SizeAssumption DEF Forward, ShowCached, Moves, Inv, TypeOK
<1>2. /\ PageCount' = PageCount
      /\ \A n \in Slots : PageAt(n)' = LeftAt(n) /\ PageAt(n)'.line = Saved[n].view_line
  BY <1>1, MovePages
<1>3. PICK c \in {PageCount} : c = PageCount
  OBVIOUS
<1>4. /\ c \in 0 .. PageSTACK_SIZE /\ \A n \in Slots : PageSTACK[n].id # 0 <=> n < c
      /\ Past \in [1 .. (t - 1) -> PageRecords] /\ Past = [k \in 1 .. (t - 1) |-> PageAt(k - 1)]
      /\ Future \in [1 .. (c - t) -> PageRecords] /\ Future = [k \in 1 .. (c - t) |-> PageAt(t + k - 1)]
      /\ Left \in PageRecords
      /\ \A n : LeftAt(n) = IF n = t - 1 THEN Left ELSE PageAt(n)
  BY <1>0, <1>1, <1>3, PagesTyped DEF Past, Future, LeftAt
<1>5. t < c /\ t \in Slots /\ t # t - 1
  <2>1. t \in Slots
    BY <1>1, SizeAssumption DEF Slots
  <2> QED  BY <1>1, <1>4, <2>1
<1>6. /\ c - t \in Nat /\ c - t > 0 /\ Head(Future) = Future[1]
      /\ Tail(Future) = [k \in 1 .. (c - t) - 1 |-> Future[k + 1]] /\ Future # <<>>
  <2>1. c - t \in Nat /\ c - t > 0
    BY <1>1, <1>4, <1>5, SizeAssumption
  <2>2. Len(Future) = c - t
    BY <1>4, <2>1
  <2> QED  BY <1>4, <2>1, <2>2, TailSeq
<1>7. Cur' = Head(Future) /\ line' = Cur'.line
  <2>1. Future[1] = PageAt(t)
    <3>1. 1 \in 1 .. (c - t) /\ t + 1 - 1 = t
      BY <1>1, <1>6
    <3> QED  BY <1>4, <3>1
  <2>2. Cur' = PageAt(t)'
    <3>1. stack_top' - 1 = t
      BY <1>1
    <3> QED  BY <1>1, <3>1 DEF Cur, PageAt
  <2> QED  BY <1>1, <1>2, <1>4, <1>5, <1>6, <2>1, <2>2
<1>8. Past' = Append(Past, Left)
  <2>1. t - 1 \in Nat /\ (t - 1) + 1 = t
    BY <1>1
  <2>2. Append(Past, Left) = [k \in 1 .. (t - 1) + 1 |-> IF k = (t - 1) + 1 THEN Left ELSE Past[k]]
    BY <1>4, <2>1, AppendedSeq
  <2>3. Past' = [k \in 1 .. t |-> PageAt(k - 1)']
    BY <1>1 DEF Past
  <2>4. ASSUME NEW k \in 1 .. t PROVE PageAt(k - 1)' = IF k = t THEN Left ELSE Past[k]
    <3>1. k - 1 \in Slots /\ (k - 1 = t - 1 <=> k = t) /\ (k # t => k \in 1 .. t - 1)
      BY <1>1, SizeAssumption DEF Slots
    <3> QED  BY <1>2, <1>4, <3>1
  <2> QED  BY <2>1, <2>2, <2>3, <2>4
<1>9. Future' = Tail(Future)
  <2>1. (c - t) - 1 = c - (t + 1)
    BY <1>1, <1>4
  <2>2. Future' = [k \in 1 .. (c - t) - 1 |-> PageAt((t + 1) + k - 1)']
    BY <1>1, <1>2, <1>3, <2>1 DEF Future
  <2>3. ASSUME NEW k \in 1 .. (c - t) - 1 PROVE PageAt((t + 1) + k - 1)' = Future[k + 1]
    <3>1. /\ (t + 1) + k - 1 \in Slots /\ (t + 1) + k - 1 # t - 1
          /\ k + 1 \in 1 .. (c - t) /\ t + (k + 1) - 1 = (t + 1) + k - 1
      BY <1>1, <1>4, <1>5, SizeAssumption DEF Slots
    <3> QED  BY <1>2, <1>4, <3>1
  <2> QED  BY <1>6, <2>2, <2>3
<1> QED
  BY <1>1, <1>6, <1>7, <1>8, <1>9 DEF Browser!Forward, Browser!Left, Past, Cur, Future, Left

\* Scrolling moves the page on screen and no other.
LEMMA ScrollMaps == Inv /\ Scroll => Browser!Scroll
<1> SUFFICES ASSUME Inv, Scroll PROVE Browser!Scroll
  OBVIOUS
<1>1. UNCHANGED <<PageSTACK, stack_top, heap, disk, running>> /\ running /\ line' \in Lines
  BY DEF Scroll
<1>2. Past' = Past /\ Cur' = Cur /\ Future' = Future
  BY <1>1 DEF Past, Cur, Future, PageAt, PageCount, Slots
<1> QED  BY <1>1, <1>2 DEF Browser!Scroll, Past, Cur, Future

\* An input changes the form of the page on screen, and of no other.
LEMMA TypedPages ==
  ASSUME Inv, TypeNew \/ TypeAgain
  PROVE  \E f \in Forms :
           /\ PageAt(stack_top - 1)' = [PageAt(stack_top - 1) EXCEPT !.form = f]
           /\ \A n \in Slots : n # stack_top - 1 => PageAt(n)' = PageAt(n)
           /\ \A n \in Slots : PageSTACK'[n].id = PageSTACK[n].id
<1>0. /\ PageSTACK \in [Slots -> Slot] /\ heap \in [Blocks -> Forms \cup {NULL}]
      /\ stack_top - 1 \in Slots /\ FormsOwnedOnce
      /\ UNCHANGED <<stack_top, disk>>
  BY TopInRange DEF Inv, TypeOK, PagesOwned, Slots, TypeNew, TypeAgain
<1>1. CASE TypeNew
  <2>1. PICK b \in Blocks, f \in Forms :
          /\ heap[b] = NULL
          /\ PageSTACK' = setUserData(PageSTACK, stack_top, b)
          /\ heap' = [heap EXCEPT ![b] = f]
    BY <1>1 DEF TypeNew
  <2>2. /\ PageSTACK'[stack_top - 1] = [PageSTACK[stack_top - 1] EXCEPT !.form = b]
        /\ \A n \in Slots : n # stack_top - 1 => PageSTACK'[n] = PageSTACK[n]
    BY <1>0, <2>1 DEF setUserData
  <2>3. PageSTACK'[stack_top - 1].id = PageSTACK[stack_top - 1].id
        /\ PageSTACK'[stack_top - 1].view_line = PageSTACK[stack_top - 1].view_line
        /\ PageSTACK'[stack_top - 1].form = b /\ b # NULL /\ heap'[b] = f
    BY <1>0, <2>1, <2>2, NullAssumption DEF Slot
  <2>4. PageAt(stack_top - 1)' = [PageAt(stack_top - 1) EXCEPT !.form = f]
    BY <1>0, <2>3 DEF PageAt
  <2>5. ASSUME NEW n \in Slots, n # stack_top - 1 PROVE PageAt(n)' = PageAt(n)
    <3>1. PageSTACK[n].form # NULL => heap'[PageSTACK[n].form] = heap[PageSTACK[n].form]
      BY <1>0, <2>1 DEF FormsOwnedOnce, Slot
    <3> QED  BY <1>0, <2>2, <2>5, <3>1 DEF PageAt
  <2>6. \A n \in Slots : PageSTACK'[n].id = PageSTACK[n].id
    BY <2>2, <2>3
  <2> QED  BY <2>4, <2>5, <2>6
<1>2. CASE TypeAgain
  <2>1. PICK f \in Forms : heap' = [heap EXCEPT ![PageSTACK[stack_top - 1].form] = f]
    BY <1>2 DEF TypeAgain
  <2>2. PageSTACK' = PageSTACK /\ PageSTACK[stack_top - 1].form # NULL
    BY <1>2 DEF TypeAgain
  <2>3. PageAt(stack_top - 1)' = [PageAt(stack_top - 1) EXCEPT !.form = f]
    <3>1. heap'[PageSTACK[stack_top - 1].form] = f
      BY <1>0, <2>1, <2>2 DEF Slot
    <3> QED  BY <1>0, <2>2, <3>1 DEF PageAt
  <2>4. ASSUME NEW n \in Slots, n # stack_top - 1 PROVE PageAt(n)' = PageAt(n)
    <3>1. PageSTACK[n].form # NULL => heap'[PageSTACK[n].form] = heap[PageSTACK[n].form]
      BY <1>0, <2>1, <2>4 DEF FormsOwnedOnce, Slot
    <3> QED  BY <1>0, <2>2, <3>1 DEF PageAt
  <2> QED  BY <2>2, <2>3, <2>4
<1> QED  BY <1>1, <1>2

LEMMA TypeMaps == Inv /\ (TypeNew \/ TypeAgain) => Browser!Type
<1> SUFFICES ASSUME Inv, TypeNew \/ TypeAgain PROVE Browser!Type
  OBVIOUS
<1>1. running /\ UNCHANGED <<stack_top, line, running>>
  BY DEF TypeNew, TypeAgain
<1>2. PICK f \in Forms :
        /\ PageAt(stack_top - 1)' = [PageAt(stack_top - 1) EXCEPT !.form = f]
        /\ \A n \in Slots : n # stack_top - 1 => PageAt(n)' = PageAt(n)
        /\ \A n \in Slots : PageSTACK'[n].id = PageSTACK[n].id
  BY TypedPages
<1>3. Cur' = [Cur EXCEPT !.form = f]
  BY <1>1, <1>2 DEF Cur
<1>4. PageCount' = PageCount
  <2>1. {n \in Slots : PageSTACK'[n].id # 0} = {n \in Slots : PageSTACK[n].id # 0}
    BY <1>2
  <2> QED  BY <2>1 DEF PageCount, Slots
<1>5. stack_top \in 1 .. PageSTACK_SIZE /\ PageCount \in 0 .. PageSTACK_SIZE
  BY <1>1, PagesTyped DEF Inv, TypeOK
<1>6. Past' = Past
  <2>1. ASSUME NEW k \in 1 .. (stack_top - 1) PROVE PageAt(k - 1)' = PageAt(k - 1)
    <3>1. k - 1 \in Slots /\ k - 1 # stack_top - 1
      BY <1>5, SizeAssumption DEF Slots
    <3> QED  BY <1>2, <3>1
  <2>2. Past' = [k \in 1 .. (stack_top - 1) |-> PageAt(k - 1)']
    BY <1>1 DEF Past
  <2> QED  BY <1>1, <2>1, <2>2 DEF Past
<1>7. Future' = Future
  <2>1. ASSUME NEW k \in 1 .. (PageCount - stack_top)
        PROVE  PageAt(stack_top + k - 1)' = PageAt(stack_top + k - 1)
    <3>1. PICK m \in Slots : m = stack_top + k - 1 /\ m # stack_top - 1
      BY <1>5, SizeAssumption DEF Slots
    <3>2. PageAt(m)' = PageAt(m)
      BY <1>2, <3>1
    <3> QED  BY <1>1, <3>1, <3>2 DEF PageAt
  <2>2. Future' = [k \in 1 .. (PageCount - stack_top) |-> PageAt(stack_top + k - 1)']
    BY <1>1, <1>4 DEF Future
  <2> QED  BY <1>1, <2>1, <2>2 DEF Future
<1> QED
  BY <1>1, <1>3, <1>6, <1>7 DEF Browser!Type, Past, Cur, Future

LEMMA QuitMaps == Quit => Browser!Quit
BY DEF Quit, Browser!Quit

LEMMA InitLine == Init => PageSTACK[0].view_line = 0
<1> SUFFICES ASSUME Init PROVE PageSTACK[0].view_line = 0
  OBVIOUS
<1>1. /\ RoomTop(0) = 0 /\ ~ Full(0) /\ 0 \in Slots /\ 1 \in Ids
      /\ ForwardPages(InitUrlStack, 0) = {}
  BY SizeAssumption, ClockAssumption
  DEF RoomTop, Full, Slots, Ids, ForwardPages, InitUrlStack, EmptySlot
<1>2. PageSTACK = [killpage(InitUrlStack, {}) EXCEPT ![0].id = 1]
  BY <1>1 DEF Init, PushPageToStack, MadeRoom
<1>3. killpage(InitUrlStack, {}) = [n \in Slots |-> EmptySlot]
  BY DEF killpage, InitUrlStack
<1> QED  BY <1>1, <1>2, <1>3 DEF EmptySlot

LEMMA InitMaps == Init => Browser!Init
<1> SUFFICES ASSUME Init PROVE Browser!Init
  OBVIOUS
<1>1. PICK d \in Docs : disk = [i \in Ids |-> IF i = 1 THEN d ELSE NULL]
  BY DEF Init
<1>2. /\ PageSTACK[0].id = 1 /\ PageSTACK[0].form = NULL
      /\ \A n \in Slots : n # 0 => PageSTACK[n].id = 0
  BY InitIds, SizeAssumption DEF Slots
<1>3. stack_top = 1 /\ line = 0 /\ running = TRUE /\ 1 \in Ids /\ 0 \in Slots
  BY ClockAssumption, SizeAssumption DEF Init, Ids, Slots
<1>4. PageSTACK[0].view_line = 0
  BY InitLine
<1>5. PageCount = 1
  <2>1. {n \in Slots : PageSTACK[n].id # 0} = {0}
    BY <1>2, <1>3
  <2> QED  BY <2>1, FS_Singleton DEF PageCount
<1>6. Cur = [doc |-> d, line |-> 0, form |-> NULL] /\ Past = <<>> /\ Future = <<>>
  <2>1. Cur = PageAt(0) /\ Past = [k \in 1 .. 0 |-> PageAt(k - 1)]
        /\ Future = [k \in 1 .. 0 |-> PageAt(stack_top + k - 1)]
    BY <1>3, <1>5 DEF Cur, Past, Future
  <2> QED  BY <1>1, <1>2, <1>3, <1>4, <2>1 DEF PageAt
<1> QED
  BY <1>3, <1>6 DEF Browser!Init, Browser!Entry, Past, Cur, Future

\* A user who goes back and forward sees a browser's history: the array with
\* its memmove, the cache directory and the heap implement BackForward step by
\* step, when pages are at least a second apart.
THEOREM StackIsBrowser == ASSUME MinGap = 1 PROVE Spec => ImplementsBackForward
<1>1. Init => Browser!Init
  BY InitMaps
<1>2. Inv /\ Inv' /\ [Next]_vars => [Browser!Next]_(Browser!vars)
  <2> SUFFICES ASSUME Inv, Inv', [Next]_vars
               PROVE  Browser!Next \/ UNCHANGED Browser!vars
    OBVIOUS
  <2>1. CASE Visit
    BY <2>1, VisitMaps DEF Browser!Next
  <2>2. CASE Back
    BY <2>2, BackMaps DEF Browser!Next
  <2>3. CASE Forward
    BY <2>3, ForwardMaps DEF Browser!Next
  <2>4. CASE Reload
    BY <2>4, ReloadMaps DEF Browser!Next
  <2>5. CASE Scroll
    BY <2>5, ScrollMaps DEF Browser!Next
  <2>6. CASE TypeNew \/ TypeAgain
    BY <2>6, TypeMaps DEF Browser!Next
  <2>7. CASE Quit
    BY <2>7, QuitMaps DEF Browser!Next
  <2>8. CASE UNCHANGED vars
    <3>1. Past' = Past /\ Cur' = Cur /\ Future' = Future /\ line' = line /\ running' = running
      BY <2>8 DEF vars, Past, Cur, Future, PageAt, PageCount, Slots
    <3> QED  BY <3>1 DEF Browser!vars, Past, Cur, Future
  <2> QED  BY <2>1, <2>2, <2>3, <2>4, <2>5, <2>6, <2>7, <2>8 DEF Next
<1>3. Spec => []Inv
  BY TypeCorrect, StackOwnsItsPages, IdsAscend, StaysBlank, PTL DEF Inv
<1> QED  BY <1>1, <1>2, <1>3, PTL DEF Spec, Browser!Spec, ImplementsBackForward
=============================================================================
