-------------------------- MODULE NavigationProofs --------------------------
(***************************************************************************)
(* Proofs about Navigation, for every size of the stack, every bound of    *)
(* the clock and every set of worlds: however the keys, the two threads    *)
(* and the network interleave.                                             *)
(***************************************************************************)
EXTENDS Navigation, SequenceTheorems, TLAPS

-----------------------------------------------------------------------------
(* What the operators of UrlStack compute, slot by slot.                     *)

\* Slots whose ids, positions and forms are in I, L and F.
SlotOf(I, L, F) == [id : I, view_line : L, form : F]

\* A push writes the slot below the new top, kills what is above it and keeps
\* what is below, moved down by one when the stack was full.
LEMMA PushSlots ==
  ASSUME NEW I, NEW L, NEW F, 0 \in I, 0 \in L, NULL \in F,
         NEW s \in [Slots -> SlotOf(I, L, F)], NEW t \in 0 .. PageSTACK_SIZE, NEW now \in I,
         NEW p, p = PushPageToStack(s, t, now)
  PROVE  /\ p \in [Slots -> SlotOf(I, L, F)]
         /\ RoomTop(t) \in 0 .. (PageSTACK_SIZE - 1)
         /\ \A n \in Slots : n < RoomTop(t) => p[n] = IF Full(t) THEN s[n + 1] ELSE s[n]
         /\ p[RoomTop(t)].id = now
         /\ p[RoomTop(t)].form = IF Full(t) \/ s[t].id # 0 THEN NULL ELSE s[t].form
         /\ \A n \in Slots : (n > RoomTop(t) /\ n < PageSTACK_SIZE)
                                => p[n] = IF s[n].id # 0 THEN EmptySlot ELSE s[n]
         /\ p[PageSTACK_SIZE] = s[PageSTACK_SIZE]
<1> DEFINE r == MadeRoom(s, t)
           k == killpage(r, ForwardPages(r, RoomTop(t)))
<1>1. EmptySlot \in SlotOf(I, L, F) /\ EmptySlot.id = 0 /\ EmptySlot.form = NULL
  BY DEF EmptySlot, SlotOf
<1>2. RoomTop(t) \in 0 .. (PageSTACK_SIZE - 1) /\ RoomTop(t) \in Slots
  BY SizeAssumption DEF RoomTop, Full, Slots
<1>3. /\ r \in [Slots -> SlotOf(I, L, F)]
      /\ ~Full(t) => r = s
      /\ Full(t) => /\ \A n \in Slots : n < PageSTACK_SIZE - 1 => r[n] = s[n + 1]
                    /\ r[PageSTACK_SIZE - 1] = EmptySlot
      /\ r[PageSTACK_SIZE] = s[PageSTACK_SIZE]
  <2>1. CASE ~Full(t)
    BY <2>1, SizeAssumption DEF MadeRoom
  <2>2. CASE Full(t)
    <3> DEFINE q == killpage(s, {0})
    <3>1. q \in [Slots -> SlotOf(I, L, F)] /\ \A n \in Slots : n # 0 => q[n] = s[n]
      BY <1>1 DEF killpage
    <3>2. r = ShiftDown(q)
      BY <2>2 DEF MadeRoom
    <3>3. \A n \in Slots : n < PageSTACK_SIZE - 1 => n + 1 \in Slots /\ n + 1 # 0
      BY SizeAssumption DEF Slots
    <3> HIDE DEF q
    <3>4. r \in [Slots -> SlotOf(I, L, F)]
      BY <3>1, <3>2, <3>3, <1>1 DEF ShiftDown
    <3>5. PageSTACK_SIZE \in Slots /\ PageSTACK_SIZE - 1 \in Slots /\ PageSTACK_SIZE # 0
      BY SizeAssumption DEF Slots
    <3> QED  BY <2>2, <3>1, <3>2, <3>3, <3>4, <3>5, SizeAssumption DEF ShiftDown
  <2> QED  BY <2>1, <2>2
<1> HIDE DEF r
<1>4. /\ k \in [Slots -> SlotOf(I, L, F)]
      /\ \A n \in Slots : k[n] = IF n \in RoomTop(t) .. (PageSTACK_SIZE - 1) /\ r[n].id # 0
                                 THEN EmptySlot ELSE r[n]
  BY <1>1, <1>3 DEF killpage, ForwardPages
<1>5. p = [k EXCEPT ![RoomTop(t)].id = now]
  BY DEF PushPageToStack, r
<1> HIDE DEF k
<1>6. p \in [Slots -> SlotOf(I, L, F)] /\ \A n \in Slots : n # RoomTop(t) => p[n] = k[n]
  BY <1>2, <1>4, <1>5 DEF SlotOf
<1>7. p[RoomTop(t)].id = now /\ p[RoomTop(t)].form = k[RoomTop(t)].form
  BY <1>2, <1>4, <1>5 DEF SlotOf
<1>8. \A n \in Slots : n < RoomTop(t) => p[n] = IF Full(t) THEN s[n + 1] ELSE s[n]
  BY <1>2, <1>3, <1>4, <1>6, SizeAssumption DEF Slots, RoomTop
<1>9. p[RoomTop(t)].form = IF Full(t) \/ s[t].id # 0 THEN NULL ELSE s[t].form
  BY <1>1, <1>2, <1>3, <1>4, <1>7, SizeAssumption DEF RoomTop, Full, Slots
<1>10. \A n \in Slots : (n > RoomTop(t) /\ n < PageSTACK_SIZE)
                           => p[n] = IF s[n].id # 0 THEN EmptySlot ELSE s[n]
  BY <1>2, <1>3, <1>4, <1>6, SizeAssumption DEF RoomTop, Full, Slots
<1>11. p[PageSTACK_SIZE] = s[PageSTACK_SIZE]
  BY <1>2, <1>3, <1>4, <1>6, SizeAssumption DEF Slots
<1> QED  BY <1>2, <1>6, <1>7, <1>8, <1>9, <1>10, <1>11

\* A push kills the oldest page when the stack is full, and the pages ahead
\* when it is not.
LEMMA KilledSlots ==
  ASSUME NEW s, NEW t \in 0 .. PageSTACK_SIZE
  PROVE  KilledBy(s, t) = IF Full(t) THEN {s[0]}
                          ELSE {s[n] : n \in {m \in t .. (PageSTACK_SIZE - 1) : s[m].id # 0}}
<1>1. CASE ~Full(t)
  BY <1>1 DEF KilledBy, MadeRoom, RoomTop, ForwardPages
<1>2. CASE Full(t)
  <2>1. MadeRoom(s, t)[PageSTACK_SIZE - 1] = EmptySlot
    BY <1>2, SizeAssumption DEF MadeRoom, ShiftDown, Slots
  <2>2. RoomTop(t) = PageSTACK_SIZE - 1
    BY <1>2 DEF RoomTop, Full
  <2>3. ForwardPages(MadeRoom(s, t), RoomTop(t)) = {}
    BY <2>1, <2>2, SizeAssumption DEF ForwardPages, EmptySlot
  <2> QED  BY <1>2, <2>3 DEF KilledBy
<1> QED  BY <1>1, <1>2

-----------------------------------------------------------------------------

NavSlot == SlotOf(Ids \cup {0}, {0}, {NULL})

\* What the two queues carry: StartGetFile comes with the page just pushed or,
\* for a cached one, with nothing; GotoFile with a page of the stack or 0xFA.
Job ==
  [proc : {"StartGetFile"}, arg : Ids \cup {NULL}]
    \cup [proc : {"GotoFile"}, arg : Ids \cup {0, Bookmark}]
    \cup [proc : {"GotoLink", "StopINET"}, arg : {NULL}]
Codes == {"go", "bookmark", "reload", "back", "forward", "quit"}
Message ==
  [kind : {"GOTO_FILE"}, arg : Ids \cup {0, Bookmark}]
    \cup [kind : {"GOTO_URL", "DATA_END"}, arg : {NULL}]
    \cup [kind : {"GUI_DESTROYED"}, arg : Codes]

StackTypes ==
  /\ PageSTACK \in [Slots -> NavSlot]
  /\ stack_top \in 0 .. PageSTACK_SIZE
  /\ disk \in [Ids -> BOOLEAN]
  /\ got \subseteq Ids
  /\ clock \in Ids

ViewTypes ==
  /\ view \in Ids \cup {0, NULL}
  /\ view_url \in Ids \cup {NULL, NoFile, LocalFile}
  /\ view_url_mode \in {"FILE", "URL"}
  /\ STOPPED \in BOOLEAN
  /\ loading \in Ids \cup {NULL}

QueueTypes ==
  /\ helperq \in Seq(Job)
  /\ mmiq \in Seq(Message)
  /\ hp \in {"idle", "reading"}
  /\ running \in BOOLEAN
  /\ corrupt \in BOOLEAN

HistoryTypes ==
  /\ trail \in Seq(Ids)
  /\ Len(trail) <= PageSTACK_SIZE
  /\ pos \in 0 .. Len(trail)
  /\ world \in Worlds

\* The spare slot is empty, no page is from the future, and the pages are in
\* the order of their pushes.
InOrder ==
  /\ PageSTACK[PageSTACK_SIZE].id = 0
  /\ \A n \in Slots : PageSTACK[n].id <= clock
  /\ IdsIncrease

IInv == StackTypes /\ ViewTypes /\ QueueTypes /\ HistoryTypes /\ InOrder

-----------------------------------------------------------------------------
(* The queues.                                                               *)

\* The job at the head of the queue is one of those it carries.
LEMMA HeadJob ==
  ASSUME QueueTypes, NEW p, Starts(p)
  PROVE  /\ helperq # <<>> /\ Head(helperq) \in Job /\ Head(helperq).proc = p
         /\ Tail(helperq) \in Seq(Job) /\ hp = "idle" /\ running
         /\ p = "StartGetFile" => Arg \in Ids \cup {NULL}
         /\ p = "GotoFile" => Arg \in Ids \cup {0, Bookmark}
         /\ p \in {"GotoLink", "StopINET"} => Arg = NULL
<1>1. helperq # <<>> /\ Head(helperq).proc = p /\ hp = "idle" /\ running
  BY DEF Starts
<1>2. Head(helperq) \in Job /\ Tail(helperq) \in Seq(Job)
  BY <1>1 DEF QueueTypes
<1> QED  BY <1>1, <1>2 DEF Job, Arg

LEMMA HeadMessage ==
  ASSUME QueueTypes, NEW k, Handles(k)
  PROVE  /\ mmiq # <<>> /\ Head(mmiq) \in Message /\ Head(mmiq).kind = k
         /\ Tail(mmiq) \in Seq(Message) /\ running
         /\ k = "GOTO_FILE" => Head(mmiq).arg \in Ids \cup {0, Bookmark}
         /\ k = "GUI_DESTROYED" => Head(mmiq).arg \in Codes
<1>1. mmiq # <<>> /\ Head(mmiq).kind = k /\ running
  BY DEF Handles
<1>2. Head(mmiq) \in Message /\ Tail(mmiq) \in Seq(Message)
  BY <1>1 DEF QueueTypes
<1> QED  BY <1>1, <1>2 DEF Message

\* A job or a message of the right shape keeps its queue typed.
LEMMA SubprocTypes ==
  ASSUME QueueTypes, NEW proc, NEW arg, [proc |-> proc, arg |-> arg] \in Job,
         SUBPROC(proc, arg)
  PROVE  helperq' \in Seq(Job)
BY DEF QueueTypes, SUBPROC

LEMMA PostTypes ==
  ASSUME QueueTypes, NEW kind, NEW arg, [kind |-> kind, arg |-> arg] \in Message,
         Post(kind, arg)
  PROVE  mmiq' \in Seq(Message)
BY DEF QueueTypes, Post

-----------------------------------------------------------------------------
(* Types and order.                                                          *)

\* A step of HELPER, which pushes no page.
LEMMA HelperKeeps ==
  ASSUME IInv, Helper, UNCHANGED world
  PROVE  IInv'
<1> USE DEF IInv
<1>1. CASE StartGetFile
  <2>1. Starts("StartGetFile") /\ Arg \in Ids \cup {NULL} /\ Tail(helperq) \in Seq(Job)
    BY <1>1, HeadJob DEF StartGetFile
  <2>2. QueueTypes' /\ ViewTypes' /\ HistoryTypes' /\ InOrder'
    BY <1>1, <2>1 DEF StartGetFile, Dequeue, QueueTypes, ViewTypes, HistoryTypes, InOrder,
                      IdsIncrease
  <2>3. disk' \in [Ids -> BOOLEAN] /\ got' \subseteq Ids
    <3>1. \/ UNCHANGED <<disk, got>>
          \/ Arg \in Ids /\ disk' = [disk EXCEPT ![Arg] = TRUE] /\ got' = got \cup {Arg}
      BY <1>1, <2>1 DEF StartGetFile, MayWrite, Written
    <3> QED  BY <3>1 DEF StackTypes
  <2>4. StackTypes'
    BY <1>1, <2>3, SizeAssumption DEF StartGetFile, StackTypes, UpPageStack
  <2> QED  BY <2>2, <2>4
<1>2. CASE StartGetFileFails
  <2>1. Starts("StartGetFile") /\ Tail(helperq) \in Seq(Job)
    BY <1>2, HeadJob DEF StartGetFileFails
  <2>2. QueueTypes' /\ ViewTypes' /\ HistoryTypes' /\ InOrder'
    BY <1>2, <2>1 DEF StartGetFileFails, Dequeue, QueueTypes, ViewTypes, HistoryTypes,
                      InOrder, IdsIncrease
  <2>3. StackTypes'
    BY <1>2, SizeAssumption DEF StartGetFileFails, StackTypes, UpPageStack
  <2> QED  BY <2>2, <2>3
<1>3. CASE FileRead
  <2>1. mmiq' \in Seq(Message)
    BY <1>3, PostTypes DEF FileRead, Message
  <2> QED  BY <1>3, <2>1 DEF FileRead, StackTypes, QueueTypes, ViewTypes, HistoryTypes,
                             InOrder, IdsIncrease
<1>4. CASE StartINET
  <2>1. Starts("StartGetFile") /\ Arg \in Ids \cup {NULL} /\ Tail(helperq) \in Seq(Job)
    BY <1>4, HeadJob DEF StartINET
  <2>2. QueueTypes' /\ HistoryTypes' /\ InOrder'
    BY <1>4, <2>1 DEF StartINET, Dequeue, QueueTypes, HistoryTypes, InOrder, IdsIncrease
  <2>3. ViewTypes'
    BY <1>4, <2>1 DEF StartINET, ViewTypes
  <2>4. StackTypes'
    BY <1>4, <2>1 DEF StartINET, StackTypes
  <2> QED  BY <2>2, <2>3, <2>4
<1>5. CASE StopINET
  <2>1. Tail(helperq) \in Seq(Job)
    BY <1>5, HeadJob DEF StopINET
  <2> QED  BY <1>5, <2>1 DEF StopINET, Dequeue, StackTypes, QueueTypes, ViewTypes,
                             HistoryTypes, InOrder, IdsIncrease
<1>6. CASE Goto
  <2>1. Tail(helperq) \in Seq(Job)
    BY <1>6, HeadJob DEF Goto
  <2>2. mmiq' \in Seq(Message)
    <3>1. CASE Starts("GotoFile") /\ Post("GOTO_FILE", Arg)
      BY <3>1, HeadJob, PostTypes DEF Message
    <3>2. CASE Starts("GotoLink") /\ Post("GOTO_URL", Arg)
      BY <3>2, HeadJob, PostTypes DEF Message
    <3> QED  BY <1>6, <3>1, <3>2 DEF Goto
  <2> QED  BY <1>6, <2>1, <2>2 DEF Goto, Dequeue, StackTypes, QueueTypes, ViewTypes,
                                   HistoryTypes, InOrder, IdsIncrease
<1> QED  BY <1>1, <1>2, <1>3, <1>4, <1>5, <1>6 DEF Helper

\* A push writes the slot at the top, keeps what is below, moved down by one when
\* the stack was full, and leaves no page above.
LEMMA PushedSlots ==
  ASSUME StackTypes, InOrder, clock < MaxClock, clock' = clock + 1,
         PageSTACK' = PushPageToStack(PageSTACK, stack_top, clock'),
         stack_top' = PushTop(stack_top)
  PROVE  /\ PageSTACK' \in [Slots -> NavSlot]
         /\ clock' \in Ids
         /\ RoomTop(stack_top) \in 0 .. (PageSTACK_SIZE - 1)
         /\ stack_top' = RoomTop(stack_top) + 1
         /\ PageSTACK'[RoomTop(stack_top)].id = clock'
         /\ \A n \in Slots : n < RoomTop(stack_top) =>
              /\ Full(stack_top) => n + 1 \in Slots
              /\ PageSTACK'[n] = IF Full(stack_top) THEN PageSTACK[n + 1] ELSE PageSTACK[n]
         /\ \A n \in Slots : n > RoomTop(stack_top) => PageSTACK'[n].id = 0
         /\ PageSTACK'[PageSTACK_SIZE].id = 0
<1> DEFINE t == stack_top
           p == PageSTACK'
           I == Ids \cup {0}  L == {0}  F == {NULL}
<1>1. clock' \in Ids
  BY ClockAssumption DEF Ids, StackTypes
<1>2. t \in 0 .. PageSTACK_SIZE /\ PageSTACK \in [Slots -> NavSlot]
  BY DEF StackTypes
<1>3. /\ p \in [Slots -> NavSlot]
      /\ RoomTop(t) \in 0 .. (PageSTACK_SIZE - 1)
      /\ \A n \in Slots : n < RoomTop(t) => p[n] = IF Full(t) THEN PageSTACK[n + 1] ELSE PageSTACK[n]
      /\ p[RoomTop(t)].id = clock'
      /\ \A n \in Slots : (n > RoomTop(t) /\ n < PageSTACK_SIZE)
                             => p[n] = IF PageSTACK[n].id # 0 THEN EmptySlot ELSE PageSTACK[n]
      /\ p[PageSTACK_SIZE] = PageSTACK[PageSTACK_SIZE]
  <2>1. 0 \in I /\ 0 \in L /\ NULL \in F /\ clock' \in I
    BY <1>1
  <2>2. PageSTACK \in [Slots -> SlotOf(I, L, F)] /\ NavSlot = SlotOf(I, L, F)
    BY <1>2 DEF NavSlot
  <2>3. p = PushPageToStack(PageSTACK, t, clock')
    OBVIOUS
  <2> HIDE DEF I, L, F, p, t
  <2> QED  BY <1>2, <2>1, <2>2, <2>3, PushSlots
<1>4. stack_top' = RoomTop(t) + 1
  BY DEF PushTop
<1> HIDE DEF p
<1>5. \A n \in Slots : n > RoomTop(t) => p[n].id = 0
  <2> SUFFICES ASSUME NEW n \in Slots, n > RoomTop(t)  PROVE p[n].id = 0
    OBVIOUS
  <2>1. CASE n = PageSTACK_SIZE
    BY <2>1, <1>3 DEF InOrder
  <2>2. CASE n < PageSTACK_SIZE
    BY <2>2, <1>3 DEF EmptySlot
  <2> QED  BY <2>1, <2>2, SizeAssumption DEF Slots
<1>6. \A n \in Slots : (n < RoomTop(t) /\ Full(t)) => n + 1 \in Slots
  BY SizeAssumption DEF Slots, Full, RoomTop
<1>7. p[PageSTACK_SIZE].id = 0
  BY <1>3 DEF InOrder
<1> QED  BY <1>1, <1>3, <1>4, <1>5, <1>6, <1>7 DEF p

\* The pages of an array after a push are in order when they were before.
LEMMA PushInOrder ==
  ASSUME StackTypes, InOrder, clock < MaxClock, clock' = clock + 1,
         PageSTACK' = PushPageToStack(PageSTACK, stack_top, clock'),
         stack_top' = PushTop(stack_top)
  PROVE  InOrder'
<1> DEFINE t == stack_top
           p == PageSTACK'
<1>1. /\ p \in [Slots -> NavSlot]
      /\ RoomTop(t) \in 0 .. (PageSTACK_SIZE - 1)
      /\ p[RoomTop(t)].id = clock'
      /\ \A n \in Slots : n < RoomTop(t) =>
           /\ Full(t) => n + 1 \in Slots
           /\ p[n] = IF Full(t) THEN PageSTACK[n + 1] ELSE PageSTACK[n]
      /\ \A n \in Slots : n > RoomTop(t) => p[n].id = 0
      /\ p[PageSTACK_SIZE].id = 0
  BY PushedSlots
<1>2. clock \in Nat /\ clock' = clock + 1
  BY DEF StackTypes, Ids
<1> HIDE DEF p
<1>3. \A n \in Slots : PageSTACK[n].id \in Nat /\ p[n].id \in Nat
  BY <1>1 DEF StackTypes, NavSlot, SlotOf, Ids
<1>4. \A n \in Slots : n < RoomTop(t) => p[n].id <= clock
  BY <1>1 DEF InOrder
<1>5. \A n \in Slots : p[n].id <= clock'
  <2> SUFFICES ASSUME NEW n \in Slots  PROVE p[n].id <= clock'
    OBVIOUS
  <2>1. n < RoomTop(t) \/ n = RoomTop(t) \/ n > RoomTop(t)
    BY <1>1, SizeAssumption DEF Slots
  <2> QED  BY <2>1, <1>1, <1>2, <1>3, <1>4
<1>6. ASSUME NEW m \in Slots, NEW n \in Slots, m < n, p[m].id # 0, p[n].id # 0
      PROVE  p[m].id < p[n].id
  <2>1. n <= RoomTop(t) /\ m < RoomTop(t)
    BY <1>1, <1>6, SizeAssumption DEF Slots
  <2>2. CASE n = RoomTop(t)
    BY <2>1, <2>2, <1>1, <1>2, <1>3, <1>4
  <2>3. CASE n < RoomTop(t)
    <3>1. CASE Full(t)
      <4>1. m + 1 \in Slots /\ n + 1 \in Slots /\ m + 1 < n + 1
        BY <2>1, <2>3, <3>1, <1>1, <1>6, SizeAssumption DEF Slots
      <4>2. p[m] = PageSTACK[m + 1] /\ p[n] = PageSTACK[n + 1]
        BY <2>1, <2>3, <3>1, <1>1
      <4> QED  BY <4>1, <4>2, <1>6 DEF InOrder, IdsIncrease
    <3>2. CASE ~Full(t)
      <4>1. p[m] = PageSTACK[m] /\ p[n] = PageSTACK[n]
        BY <2>1, <2>3, <3>2, <1>1
      <4> QED  BY <4>1, <1>6 DEF InOrder, IdsIncrease
    <3> QED  BY <3>1, <3>2
  <2> QED  BY <2>1, <2>2, <2>3, <1>1, SizeAssumption DEF Slots
<1> QED  BY <1>1, <1>5, <1>6 DEF p, InOrder, IdsIncrease

\* The user's history stays a history.
LEMMA RememberTypes ==
  ASSUME HistoryTypes, NEW id \in Ids, Remember(id), UNCHANGED world
  PROVE  HistoryTypes'
<1> DEFINE before == SubSeq(trail, 1, pos)
           kept == Append(before, id)
<1>1. before \in Seq(Ids) /\ Len(before) = pos
  BY DEF HistoryTypes
<1>2. pos \in Nat /\ pos <= PageSTACK_SIZE
  BY SizeAssumption DEF HistoryTypes
<1> HIDE DEF before
<1>3. kept \in Seq(Ids) /\ Len(kept) = pos + 1
  BY <1>1
<1>4. trail' = (IF Len(kept) > PageSTACK_SIZE THEN Tail(kept) ELSE kept) /\ pos' = Len(trail')
  BY DEF Remember, kept, before
<1> HIDE DEF kept
<1>5. trail' \in Seq(Ids) /\ Len(trail') <= PageSTACK_SIZE
  BY <1>2, <1>3, <1>4, SizeAssumption
<1>6. pos' \in 0 .. Len(trail')
  BY <1>4, <1>5
<1> QED  BY <1>5, <1>6 DEF HistoryTypes

\* method1 of a new view pushes its page.
LEMMA OpenPushedKeeps ==
  ASSUME IInv, NEW url \in {NULL, NoFile, LocalFile}, NEW mode \in {"FILE", "URL"},
         OpenPushed(url, mode), Consume, mmiq # <<>>,
         UNCHANGED <<got, loading, hp, running, corrupt, world>>
  PROVE  IInv'
<1> USE DEF IInv
<1>1. clock < MaxClock /\ clock' = clock + 1
  <2>1. LastPush \in 1 .. MaxClock
    BY WorldsAssumption DEF LastPush, HistoryTypes
  <2> QED  BY <2>1, ClockAssumption DEF OpenPushed, StackTypes, Ids
<1>2. /\ PageSTACK' \in [Slots -> NavSlot]
      /\ stack_top' \in 0 .. PageSTACK_SIZE
      /\ clock' \in Ids
      /\ InOrder'
  BY <1>1, PushedSlots, PushInOrder, SizeAssumption DEF OpenPushed
<1>3. disk' \in [Ids -> BOOLEAN] /\ got' \subseteq Ids
  BY DEF OpenPushed, StackTypes
<1>4. HistoryTypes'
  BY <1>2, RememberTypes DEF OpenPushed
<1>5. helperq' \in Seq(Job)
  <2>1. [proc |-> "StartGetFile", arg |-> clock'] \in Job
    BY <1>2 DEF Job
  <2> QED  BY <2>1, SubprocTypes DEF OpenPushed
<1>6. mmiq' \in Seq(Message)
  BY DEF Consume, QueueTypes
<1>7. ViewTypes'
  BY <1>2 DEF OpenPushed, ViewTypes
<1> QED  BY <1>2, <1>3, <1>4, <1>5, <1>6, <1>7 DEF StackTypes, QueueTypes

\* MSG_GUI_DESTROYED moves the top, inside the array, and queues a job or closes
\* the browser.
LEMMA DestroyedKeeps ==
  ASSUME IInv, NEW code, OnDestroyed(code), UNCHANGED world,
         stack_top' \in 0 .. PageSTACK_SIZE, running' \in BOOLEAN,
         helperq' \in Seq(Job)
  PROVE  IInv'
<1> USE DEF IInv
<1>1. Tail(mmiq) \in Seq(Message)
  BY HeadMessage DEF OnDestroyed
<1> QED  BY <1>1 DEF OnDestroyed, Consume, StackTypes, ViewTypes, QueueTypes, HistoryTypes,
                     InOrder, IdsIncrease

\* The id of a slot can be handed to GotoFile.
LEMMA GotoFileTypes ==
  ASSUME StackTypes, QueueTypes, NEW n \in Slots, SUBPROC("GotoFile", PageSTACK[n].id)
  PROVE  helperq' \in Seq(Job)
<1>1. PageSTACK[n].id \in Ids \cup {0}
  BY DEF StackTypes, NavSlot, SlotOf
<1>2. [proc |-> "GotoFile", arg |-> PageSTACK[n].id] \in Job
  BY <1>1 DEF Job
<1> QED  BY <1>2, SubprocTypes

\* A step of the MMI thread's message handlers.
LEMMA MmiKeeps ==
  ASSUME IInv, Mmi, UNCHANGED world
  PROVE  IInv'
<1> USE DEF IInv
<1>1. CASE OnGotoUrl
  <2>1. mmiq # <<>>
    BY <1>1 DEF OnGotoUrl, Handles
  <2> QED  BY <1>1, <2>1, OpenPushedKeeps DEF OnGotoUrl
<1>2. CASE OnGotoLocalFile
  <2>1. mmiq # <<>>
    BY <1>2 DEF OnGotoLocalFile, Handles
  <2>2. \E f \in {NoFile, LocalFile} : OpenPushed(f, "FILE")
    BY <1>2 DEF OnGotoLocalFile
  <2> QED  BY <1>2, <2>1, <2>2, OpenPushedKeeps DEF OnGotoLocalFile
<1>3. CASE OnGotoCached
  <2>1. Handles("GOTO_FILE") /\ Head(mmiq).arg # Bookmark
    BY <1>3 DEF OnGotoCached
  <2>2. Head(mmiq).arg \in Ids \cup {0} /\ Tail(mmiq) \in Seq(Message)
    BY <2>1, HeadMessage
  <2>3. [proc |-> "StartGetFile", arg |-> NULL] \in Job
    BY DEF Job
  <2>4. helperq' \in Seq(Job)
    BY <1>3, <2>3, SubprocTypes DEF OnGotoCached
  <2> QED  BY <1>3, <2>2, <2>4 DEF OnGotoCached, Consume, StackTypes, ViewTypes, QueueTypes,
                                   HistoryTypes, InOrder, IdsIncrease, NoFile
<1>4. CASE OnDataEnd
  <2>1. Tail(mmiq) \in Seq(Message)
    BY <1>4, HeadMessage DEF OnDataEnd
  <2> QED  BY <1>4, <2>1 DEF OnDataEnd, Consume, StackTypes, ViewTypes, QueueTypes,
                             HistoryTypes, InOrder, IdsIncrease
<1>5. stack_top \in 0 .. PageSTACK_SIZE /\ running \in BOOLEAN /\ helperq \in Seq(Job)
  BY DEF StackTypes, QueueTypes
<1>6. [proc |-> "GotoLink", arg |-> NULL] \in Job /\ [proc |-> "GotoFile", arg |-> Bookmark] \in Job
  BY DEF Job
<1>7. CASE OnDestroyedGo
  <2>1. helperq' \in Seq(Job)
    BY <1>6, <1>7, SubprocTypes DEF OnDestroyedGo
  <2> QED  BY <1>5, <1>7, <2>1, DestroyedKeeps DEF OnDestroyedGo
<1>8. CASE OnDestroyedBookmark
  <2>1. helperq' \in Seq(Job)
    BY <1>6, <1>8, SubprocTypes DEF OnDestroyedBookmark
  <2> QED  BY <1>5, <1>8, <2>1, DestroyedKeeps DEF OnDestroyedBookmark
<1>9. CASE OnDestroyedReload
  <2>1. helperq' \in Seq(Job)
    BY <1>6, <1>9, SubprocTypes DEF OnDestroyedReload
  <2>2. stack_top' \in 0 .. PageSTACK_SIZE
    BY <1>5, <1>9, SizeAssumption DEF OnDestroyedReload, PopPageFromStack
  <2> QED  BY <1>5, <1>9, <2>1, <2>2, DestroyedKeeps DEF OnDestroyedReload
<1>10. CASE OnDestroyedBack
  <2> DEFINE t == PopPageFromStack(stack_top)
  <2>1. /\ stack_top' = PopPageFromStack(t)
        /\ IF t = 0 THEN running' = FALSE /\ UNCHANGED helperq
           ELSE SUBPROC("GotoFile", PageSTACK[stack_top'].id) /\ UNCHANGED running
    BY <1>10 DEF OnDestroyedBack
  <2>2. t \in 0 .. PageSTACK_SIZE /\ stack_top' \in 0 .. PageSTACK_SIZE
    BY <1>5, <2>1, SizeAssumption DEF PopPageFromStack
  <2>3. helperq' \in Seq(Job) /\ running' \in BOOLEAN
    BY <1>5, <2>1, <2>2, GotoFileTypes DEF Slots
  <2> QED  BY <1>10, <2>2, <2>3, DestroyedKeeps DEF OnDestroyedBack
<1>11. CASE OnDestroyedForward
  <2> DEFINE t == PopPageFromStack(stack_top)
  <2>1. /\ stack_top' = ForwardPageFromStack(PageSTACK, t)
        /\ IF CanForward(PageSTACK, t)
           THEN SUBPROC("GotoFile", PageSTACK[stack_top'].id) /\ UNCHANGED running
           ELSE running' = FALSE /\ UNCHANGED helperq
    BY <1>11 DEF OnDestroyedForward
  <2>2. t \in 0 .. PageSTACK_SIZE /\ stack_top' \in 0 .. PageSTACK_SIZE
    BY <1>5, <2>1, SizeAssumption DEF PopPageFromStack, ForwardPageFromStack, CanForward
  <2>3. helperq' \in Seq(Job) /\ running' \in BOOLEAN
    BY <1>5, <2>1, <2>2, GotoFileTypes DEF Slots
  <2> QED  BY <1>11, <2>2, <2>3, DestroyedKeeps DEF OnDestroyedForward
<1>12. CASE OnDestroyedQuit
  BY <1>5, <1>12, DestroyedKeeps DEF OnDestroyedQuit
<1> QED  BY <1>1, <1>2, <1>3, <1>4, <1>7, <1>8, <1>9, <1>10, <1>11, <1>12 DEF Mmi

\* A key closes the view or stops the page.
LEMMA KeysKeep ==
  ASSUME IInv, Keys, UNCHANGED world
  PROVE  IInv'
<1> USE DEF IInv
<1>1. [proc |-> "StopINET", arg |-> NULL] \in Job
  BY DEF Job
<1>2. pos \in 0 .. Len(trail) /\ Len(trail) \in Nat
  BY DEF HistoryTypes
<1>3. ASSUME NEW code \in Codes, CloseView(code), UNCHANGED trail, pos' \in 0 .. Len(trail)
      PROVE  IInv'
  <2>1. helperq' \in Seq(Job)
    BY <1>1, <1>3, SubprocTypes DEF CloseView
  <2>2. mmiq' \in Seq(Message)
    <3>1. [kind |-> "GUI_DESTROYED", arg |-> code] \in Message
      BY DEF Message
    <3> QED  BY <1>3, <3>1, PostTypes DEF CloseView
  <2> QED  BY <1>3, <2>1, <2>2 DEF CloseView, StackTypes, ViewTypes, QueueTypes, HistoryTypes,
                                   InOrder, IdsIncrease
<1>4. CASE KeyStop
  <2>1. helperq' \in Seq(Job)
    BY <1>1, <1>4, SubprocTypes DEF KeyStop, QueueTypes
  <2> QED  BY <1>4, <2>1 DEF KeyStop, StackTypes, ViewTypes, QueueTypes, HistoryTypes,
                             InOrder, IdsIncrease
<1>5. CASE KeyMenu
  BY <1>5 DEF KeyMenu, StackTypes, ViewTypes, QueueTypes, HistoryTypes, InOrder, IdsIncrease
<1>6. CASE KeyGo
  BY <1>2, <1>3, <1>6 DEF KeyGo, Codes
<1>7. CASE KeyBookmark
  BY <1>2, <1>3, <1>7 DEF KeyBookmark, Codes
<1>8. CASE KeyReload
  BY <1>2, <1>3, <1>8 DEF KeyReload, Codes
<1>9. CASE KeyBack
  BY <1>2, <1>3, <1>9 DEF KeyBack, Codes
<1>10. CASE KeyForward
  BY <1>2, <1>3, <1>10 DEF KeyForward, Codes
<1>11. CASE KeyQuit
  BY <1>2, <1>3, <1>11 DEF KeyQuit, Codes
<1> QED  BY <1>4, <1>5, <1>6, <1>7, <1>8, <1>9, <1>10, <1>11 DEF Keys

LEMMA NetworkKeeps ==
  ASSUME IInv, Network, UNCHANGED world
  PROVE  IInv'
<1> USE DEF IInv
<1>1. CASE DataArrives
  BY <1>1 DEF DataArrives, Written, StackTypes, ViewTypes, QueueTypes, HistoryTypes, InOrder,
              IdsIncrease
<1>2. CASE PageArrives
  <2>1. mmiq' \in Seq(Message)
    BY <1>2, PostTypes DEF PageArrives, Message
  <2> QED  BY <1>2, <2>1 DEF PageArrives, StackTypes, ViewTypes, QueueTypes, HistoryTypes,
                             InOrder, IdsIncrease
<1> QED  BY <1>1, <1>2 DEF Network

\* The first page is in the first slot, and no other page anywhere.
LEMMA InitArray ==
  ASSUME Init
  PROVE  /\ PageSTACK \in [Slots -> NavSlot]
         /\ PageSTACK[0].id = 1
         /\ \A n \in Slots : n > 0 => PageSTACK[n].id = 0
<1> DEFINE I == Ids \cup {0}  L == {0}  F == {NULL}
<1>1. InitUrlStack \in [Slots -> SlotOf(I, L, F)] /\ \A n \in Slots : InitUrlStack[n].id = 0
  BY DEF InitUrlStack, EmptySlot, SlotOf
<1>2. 1 \in Ids /\ 1 \in I /\ 0 \in I /\ 0 \in L /\ NULL \in F /\ 0 \in 0 .. PageSTACK_SIZE
  BY ClockAssumption, SizeAssumption DEF Ids
<1>3. NavSlot = SlotOf(I, L, F)
  BY DEF NavSlot
<1>4. PageSTACK = PushPageToStack(InitUrlStack, 0, 1) /\ clock = 1 /\ stack_top = 1
  BY DEF Init
<1>5. RoomTop(0) = 0 /\ ~Full(0)
  BY SizeAssumption DEF RoomTop, Full
<1> HIDE DEF I, L, F
<1>6. /\ PageSTACK \in [Slots -> NavSlot]
      /\ PageSTACK[0].id = 1
      /\ \A n \in Slots : (n > 0 /\ n < PageSTACK_SIZE)
            => PageSTACK[n] = IF InitUrlStack[n].id # 0 THEN EmptySlot ELSE InitUrlStack[n]
      /\ PageSTACK[PageSTACK_SIZE] = InitUrlStack[PageSTACK_SIZE]
  BY <1>1, <1>2, <1>3, <1>4, <1>5, PushSlots
<1>7. \A n \in Slots : n > 0 => PageSTACK[n].id = 0
  BY <1>1, <1>6, SizeAssumption DEF Slots
<1> QED  BY <1>6, <1>7

LEMMA InitKeeps == Init => IInv
<1> SUFFICES ASSUME Init  PROVE IInv
  OBVIOUS
<1>1. 1 \in Ids /\ clock = 1 /\ stack_top = 1
  BY ClockAssumption DEF Ids, Init
<1>2. InOrder
  BY <1>1, InitArray, SizeAssumption DEF InOrder, IdsIncrease, Slots
<1>3. StackTypes
  <2>1. disk \in [Ids -> BOOLEAN] /\ got \subseteq Ids
    BY DEF Init
  <2> QED  BY <1>1, <2>1, InitArray, SizeAssumption DEF StackTypes
<1>4. [proc |-> "StartGetFile", arg |-> 1] \in Job
  BY <1>1 DEF Job
<1>5. QueueTypes
  <2>1. helperq = <<[proc |-> "StartGetFile", arg |-> 1]>> /\ helperq \in Seq(Job)
    BY <1>4 DEF Init
  <2>2. mmiq = <<>> /\ mmiq \in Seq(Message)
    BY DEF Init
  <2> QED  BY <2>1, <2>2 DEF Init, QueueTypes
<1>6. ViewTypes
  BY <1>1 DEF Init, ViewTypes
<1>7. HistoryTypes
  <2>1. trail = <<1>> /\ pos = 1 /\ world \in Worlds
    BY DEF Init
  <2>2. <<1>> \in Seq(Ids) /\ Len(<<1>>) = 1
    BY <1>1
  <2> QED  BY <2>1, <2>2, SizeAssumption DEF HistoryTypes
<1> QED  BY <1>2, <1>3, <1>5, <1>6, <1>7 DEF IInv

LEMMA Invariant == Spec => []IInv
<1>1. IInv /\ [Next]_<<vars, world>> => IInv'
  <2> SUFFICES ASSUME IInv, [Next]_<<vars, world>>  PROVE IInv'
    OBVIOUS
  <2>1. CASE UNCHANGED <<vars, world>>
    BY <2>1 DEF vars, IInv, StackTypes, ViewTypes, QueueTypes, HistoryTypes, InOrder,
                IdsIncrease
  <2>2. CASE Next
    BY <2>2, HelperKeeps, MmiKeeps, KeysKeep, NetworkKeeps DEF Next
  <2> QED  BY <2>1, <2>2
<1> QED  BY <1>1, InitKeeps, PTL DEF Spec

\* In every world the variables keep to their types and stack_top stays inside
\* the array: no push, pop or check of urlstack.c leaves it, however the keys
\* race with the UpPageStack of HELPER.
THEOREM TypeCorrect == Spec => []TypeOK
<1>1. IInv => TypeOK
  <2> SUFFICES ASSUME IInv  PROVE TypeOK
    OBVIOUS
  <2>1. \A n \in Slots : PageSTACK[n].id \in Ids \cup {0}
    BY DEF IInv, StackTypes, NavSlot, SlotOf
  <2>2. \A i \in DOMAIN helperq : helperq[i] \in Job
    BY DEF IInv, QueueTypes
  <2>3. \A j \in Job : j.arg \in Ids \cup {0, NULL, Bookmark}
    BY DEF Job
  <2>4. pos \in 0 .. PageSTACK_SIZE
    BY SizeAssumption DEF IInv, HistoryTypes
  <2> QED  BY <2>1, <2>2, <2>3, <2>4 DEF IInv, StackTypes, ViewTypes, QueueTypes, TypeOK
<1> QED  BY <1>1, Invariant, PTL

\* In every world the pages of the array are in the order they were pushed, so
\* no two slots share a cache file (PushPageToStack, urlstack.c:165).
THEOREM PagesInOrder == Spec => []IdsIncrease
<1>1. IInv => IdsIncrease
  BY DEF IInv, InOrder
<1> QED  BY <1>1, Invariant, PTL

-----------------------------------------------------------------------------
(* The patient user.                                                         *)
(*                                                                           *)
(* He presses no key before the page is at rest, so at any moment one thing  *)
(* is under way: the phases below follow a navigation through the two        *)
(* queues.  In each the array holds the user's history, slot by slot, and    *)
(* the cache files are those of its pages that ever got one; what changes is *)
(* where the top is beside the cursor.                                       *)

StopJob == [proc |-> "StopINET", arg |-> NULL]
JobOf(proc, arg) == [proc |-> proc, arg |-> arg]

\* The only message on its way.  (Its kind comes first: the values of two kinds
\* need not be comparable.)
OnlyMessage(kind, arg) ==
  mmiq # <<>> /\ Head(mmiq).kind = kind /\ mmiq = <<[kind |-> kind, arg |-> arg]>>

\* The array is the history.
Placed == \A n \in Slots : PageSTACK[n].id = IF n < Len(trail) THEN trail[n + 1] ELSE 0

\* The cache files are those of the history, as far as a page ever got one.
InTrail(i) == \E n \in 1 .. Len(trail) : trail[n] = i
Files == got \subseteq 1 .. clock /\ \A i \in Ids : disk[i] <=> i \in got /\ InTrail(i)

\* The page at the cursor is on screen and at the top.
OnTop == pos \in 1 .. Len(trail) /\ stack_top = pos /\ view = trail[pos]

\* (The Stop key has its StopINET under way.)
Rest ==
  /\ helperq = <<>> \/ helperq = <<StopJob>>
  /\ hp = "idle" /\ loading = NULL
  /\ mmiq = <<>> \/ OnlyMessage("DATA_END", NULL)
  /\ OnTop

\* The key has moved the cursor, the message that moves the top is under way.
Moved(code) ==
  /\ stack_top \in 1 .. Len(trail)
  /\ code \in {"go", "bookmark"} => pos = stack_top
  /\ code \in {"reload", "back"} => pos = stack_top - 1
  /\ code = "forward" => pos = stack_top + 1 /\ pos <= Len(trail)

Closed ==
  /\ helperq = <<>> \/ helperq = <<StopJob>>
  /\ hp = "idle" /\ loading = NULL /\ view = NULL
  /\ \E code \in Codes : OnlyMessage("GUI_DESTROYED", code) /\ Moved(code)

\* Where the top is for a page to push, and for a cached one.
Target(arg) ==
  IF arg \in Ids THEN /\ pos \in 1 .. Len(trail) /\ stack_top = pos - 1 /\ arg = trail[pos]
  ELSE stack_top = pos

Heading ==
  /\ hp = "idle" /\ loading = NULL /\ view = NULL
  /\ \E proc \in {"GotoLink", "GotoFile"}, arg \in Ids \cup {NULL, Bookmark} :
       /\ proc = "GotoLink" <=> arg = NULL
       /\ Target(arg)
       /\ \/ /\ mmiq = <<>>
             /\ helperq = <<JobOf(proc, arg)>> \/ helperq = <<StopJob, JobOf(proc, arg)>>
          \/ /\ helperq = <<>>
             /\ OnlyMessage(IF proc = "GotoLink" THEN "GOTO_URL" ELSE "GOTO_FILE", arg)

\* The view is there, StartGetFile not yet: the page is new and has no file, or
\* one of the history and still goes up.
Opened ==
  /\ hp = "idle" /\ loading = NULL /\ mmiq = <<>>
  /\ pos \in 1 .. Len(trail) /\ view = trail[pos]
  /\ \/ /\ helperq = <<JobOf("StartGetFile", view)>>
        /\ stack_top = pos
        /\ view \notin got
        /\ \/ view_url_mode = "URL" /\ view_url = view
           \/ view_url_mode = "FILE" /\ view_url = LocalFile
     \/ /\ helperq = <<JobOf("StartGetFile", NULL)>>
        /\ stack_top = pos - 1
        /\ view_url_mode = "FILE" /\ view_url = view

Loading ==
  /\ helperq = <<>> /\ hp = "idle" /\ mmiq = <<>>
  /\ OnTop /\ loading = view

Reading ==
  /\ helperq = <<>> /\ hp = "reading" /\ mmiq = <<>> /\ loading = NULL
  /\ OnTop

Phase == Rest \/ Closed \/ Heading \/ Opened \/ Loading \/ Reading
Ended == ~running /\ view = NULL

OnTheWay == Placed /\ ~corrupt /\ (Ended \/ (running /\ Files /\ Phase))

PatientInv == PatientUser => OnTheWay

-----------------------------------------------------------------------------
(* What a step needs, and what a queue of one or two becomes.                *)

LEMMA ShortQueues ==
  ASSUME NEW a, NEW b
  PROVE  /\ <<a>> # <<>> /\ Head(<<a>>) = a /\ Tail(<<a>>) = <<>> /\ Append(<<>>, a) = <<a>>
         /\ <<a, b>> # <<>> /\ Head(<<a, b>>) = a /\ Tail(<<a, b>>) = <<b>>
         /\ Append(<<a>>, b) = <<a, b>>
<1> DEFINE S == {a, b}  s == Append(<<a>>, b)  t == <<a, b>>
<1>1. <<a>> # <<>> /\ Head(<<a>>) = a
  OBVIOUS
<1>2. Tail(<<a>>) = <<>>
  OBVIOUS
<1>3. Append(<<>>, a) = <<a>>
  OBVIOUS
<1>4. <<a, b>> # <<>> /\ Head(<<a, b>>) = a
  OBVIOUS
<1>5. Tail(<<a, b>>) = <<b>>
  OBVIOUS
<1>6. s = t
  <2>1. <<a>> \in Seq(S) /\ t \in Seq(S) /\ Len(<<a>>) = 1 /\ Len(t) = 2
    OBVIOUS
  <2>2. s \in Seq(S) /\ Len(s) = 2 /\ s[1] = a /\ s[2] = b
    BY <2>1, AppendProperties
  <2>3. t[1] = a /\ t[2] = b
    OBVIOUS
  <2>4. \A i \in 1 .. 2 : i = 1 \/ i = 2
    OBVIOUS
  <2> HIDE DEF s, t, S
  <2>5. \A i \in 1 .. Len(s) : s[i] = t[i]
    BY <2>1, <2>2, <2>3, <2>4
  <2> QED  BY <2>1, <2>2, <2>5, SeqEqual
<1> QED  BY <1>1, <1>2, <1>3, <1>4, <1>5, <1>6 DEF s, t

\* HELPER needs a job, or the file it reads.
LEMMA HelperNeeds ==
  ASSUME Helper
  PROVE  /\ running
         /\ FileRead \/ (helperq # <<>> /\ hp = "idle")
         /\ StartGetFile \/ StartGetFileFails \/ StartINET => Head(helperq).proc = "StartGetFile"
         /\ StopINET => Head(helperq).proc = "StopINET"
         /\ Goto => Head(helperq).proc \in {"GotoFile", "GotoLink"}
         /\ FileRead => hp = "reading"
BY DEF Helper, StartGetFile, StartGetFileFails, StartINET, StopINET, Goto, FileRead, Starts

Destroyed ==
  \/ OnDestroyedGo \/ OnDestroyedBookmark \/ OnDestroyedReload
  \/ OnDestroyedBack \/ OnDestroyedForward \/ OnDestroyedQuit

\* A handler of the MMI thread needs its message.
LEMMA MmiNeeds ==
  ASSUME Mmi
  PROVE  /\ running /\ mmiq # <<>>
         /\ OnGotoUrl => Head(mmiq).kind = "GOTO_URL"
         /\ OnGotoLocalFile => Head(mmiq).kind = "GOTO_FILE" /\ Head(mmiq).arg = Bookmark
         /\ OnGotoCached => Head(mmiq).kind = "GOTO_FILE" /\ Head(mmiq).arg # Bookmark
         /\ OnDataEnd => Head(mmiq).kind = "DATA_END"
         /\ Destroyed => Head(mmiq).kind = "GUI_DESTROYED"
         /\ OnGotoUrl \/ OnGotoLocalFile \/ OnGotoCached \/ OnDataEnd \/ Destroyed
<1>1. Destroyed => \E code : OnDestroyed(code)
  BY DEF Destroyed, OnDestroyedGo, OnDestroyedBookmark, OnDestroyedReload, OnDestroyedBack,
         OnDestroyedForward, OnDestroyedQuit
<1>2. Destroyed => Handles("GUI_DESTROYED")
  BY <1>1 DEF OnDestroyed
<1> QED  BY <1>2 DEF Mmi, OnGotoUrl, OnGotoLocalFile, OnGotoCached, OnDataEnd, Destroyed, Handles

\* A key needs a view on screen, and the patient user's a page at rest.
LEMMA KeysNeed ==
  ASSUME Keys
  PROVE  running /\ view # NULL /\ (~HurriedUser => AtRest)
BY DEF Keys, KeyGo, KeyBookmark, KeyReload, KeyBack, KeyForward, KeyStop, KeyMenu, KeyQuit,
       CloseView, MayPress

LEMMA NetworkNeeds ==
  ASSUME Network
  PROVE  running /\ loading # NULL
BY DEF Network, DataArrives, PageArrives

\* The ids of the history are page ids, which no other value of an argument is.
LEMMA IdsAreIds ==
  ASSUME HistoryTypes
  PROVE  /\ \A n \in 1 .. Len(trail) : trail[n] \in Ids
         /\ NULL \notin Ids /\ Bookmark \notin Ids /\ NULL # Bookmark /\ 0 \notin Ids
         /\ NULL # LocalFile /\ LocalFile \notin Ids
<1>1. \A n \in 1 .. Len(trail) : trail[n] \in Ids
  BY DEF HistoryTypes
<1> QED  BY <1>1, NullIdAssumption, ClockAssumption DEF Ids, Bookmark, LocalFile

\* A new page, pushed where the cursor is, goes into the array as it goes into the
\* history, and killpage removes the files of the pages that go and no others.
LEMMA PushPlaces ==
  ASSUME IInv, Placed, stack_top = pos, Files, NEW url, NEW mode,
         OpenPushed(url, mode), UNCHANGED got
  PROVE  /\ Placed'
         /\ pos' \in 1 .. Len(trail') /\ trail'[pos'] = clock' /\ stack_top' = pos'
         /\ Files' /\ clock' \notin got'
<1> USE DEF IInv
<1> DEFINE before == SubSeq(trail, 1, pos)
           kept == Append(before, clock')
           p == PageSTACK'
           N == PageSTACK_SIZE
<1>1. /\ trail \in Seq(Ids) /\ Len(trail) \in Nat /\ Len(trail) <= N
      /\ pos \in Nat /\ pos <= Len(trail) /\ N \in Nat /\ N >= 2
      /\ PageSTACK \in [Slots -> NavSlot] /\ disk \in [Ids -> BOOLEAN]
  BY SizeAssumption DEF HistoryTypes, StackTypes
<1>2. clock < MaxClock /\ clock' = clock + 1
  <2>1. LastPush \in 1 .. MaxClock
    BY WorldsAssumption DEF LastPush, HistoryTypes
  <2> QED  BY <2>1, ClockAssumption DEF OpenPushed, StackTypes, Ids
<1>3. /\ clock' \in Ids
      /\ RoomTop(pos) \in 0 .. (N - 1) /\ stack_top' = RoomTop(pos) + 1
      /\ p[RoomTop(pos)].id = clock'
      /\ \A n \in Slots : n < RoomTop(pos) =>
           /\ Full(pos) => n + 1 \in Slots
           /\ p[n] = IF Full(pos) THEN PageSTACK[n + 1] ELSE PageSTACK[n]
      /\ \A n \in Slots : n > RoomTop(pos) => p[n].id = 0
  BY <1>2, PushedSlots DEF OpenPushed
<1> HIDE DEF p
<1>4. Full(pos) <=> pos = N
  BY DEF Full
<1>5. RoomTop(pos) = IF pos = N THEN pos - 1 ELSE pos
  BY DEF RoomTop, Full
<1>6. /\ before \in Seq(Ids) /\ Len(before) = pos
      /\ \A k \in 1 .. pos : before[k] = trail[k]
  BY <1>1
<1> HIDE DEF before
<1>7. /\ kept \in Seq(Ids) /\ Len(kept) = pos + 1
      /\ \A k \in 1 .. pos : kept[k] = trail[k]
      /\ kept[pos + 1] = clock'
  BY <1>1, <1>3, <1>6
<1>8. trail' = (IF Len(kept) > N THEN Tail(kept) ELSE kept) /\ pos' = Len(trail')
  BY DEF OpenPushed, Remember, kept, before
<1> HIDE DEF kept
<1>9. \A n \in 0 .. (Len(trail) - 1) : n \in Slots /\ PageSTACK[n].id = trail[n + 1]
  BY <1>1 DEF Placed, Slots
<1>10. \A k \in 1 .. Len(trail) :
          /\ k - 1 \in Slots /\ PageSTACK[k - 1].id = trail[k]
          /\ trail[k] \in Ids /\ trail[k] # 0
  <2> SUFFICES ASSUME NEW k \in 1 .. Len(trail)
               PROVE  /\ k - 1 \in Slots /\ PageSTACK[k - 1].id = trail[k]
                      /\ trail[k] \in Ids /\ trail[k] # 0
    OBVIOUS
  <2>1. k - 1 \in 0 .. (Len(trail) - 1) /\ (k - 1) + 1 = k
    BY <1>1
  <2> QED  BY <2>1, <1>9, IdsAreIds
<1>11. disk' = [i \in Ids |-> disk[i] /\ \A k \in KilledBy(PageSTACK, pos) : k.id # i]
  BY DEF OpenPushed
<1>12. \A n \in Slots : PageSTACK[n].id \in Nat
  BY <1>1 DEF NavSlot, SlotOf, Ids
<1>13. KilledBy(PageSTACK, pos) =
         IF pos = N THEN {PageSTACK[0]}
         ELSE {PageSTACK[n] : n \in {m \in pos .. (N - 1) : PageSTACK[m].id # 0}}
  <2>1. pos \in 0 .. N
    BY <1>1
  <2> QED  BY <2>1, <1>4, KilledSlots
<1>14. /\ got' = got /\ clock' \notin got' /\ got' \subseteq 1 .. clock'
       /\ \A i \in Ids : disk[i] <=> i \in got /\ InTrail(i)
  <2>1. clock \in Nat
    BY DEF StackTypes, Ids
  <2> QED  BY <1>2, <2>1 DEF Files
<1>15. \A j, k \in 1 .. Len(trail) : j < k => trail[j] # trail[k]
  <2> SUFFICES ASSUME NEW j \in 1 .. Len(trail), NEW k \in 1 .. Len(trail), j < k
               PROVE  trail[j] # trail[k]
    OBVIOUS
  <2>1. j - 1 < k - 1
    BY <1>1
  <2> QED  BY <2>1, <1>10, <1>12 DEF InOrder, IdsIncrease
<1>16. CASE pos = N
  <2>1. trail' = Tail(kept) /\ pos' = N /\ Len(trail') = N
    BY <1>1, <1>7, <1>8, <1>16
  <2>2. \A k \in 1 .. N : trail'[k] = kept[k + 1]
    BY <1>1, <1>7, <1>16, <2>1
  <2>3. trail'[N] = clock' /\ \A k \in 1 .. (N - 1) : trail'[k] = trail[k + 1]
    BY <1>1, <1>7, <1>16, <2>2
  <2>4. stack_top' = N /\ RoomTop(pos) = N - 1
    BY <1>1, <1>3, <1>5, <1>16
  <2>5. Len(trail) = N
    BY <1>1, <1>16
  <2>6. ASSUME NEW n \in Slots  PROVE p[n].id = IF n < N THEN trail'[n + 1] ELSE 0
    <3>1. CASE n = N
      BY <1>1, <1>3, <2>4, <3>1
    <3>2. CASE n = N - 1
      BY <1>1, <1>3, <2>3, <2>4, <3>2
    <3>3. CASE n < N - 1
      <4>1. p[n] = PageSTACK[n + 1]
        BY <1>3, <1>4, <1>16, <2>4, <3>3
      <4>2. n + 1 \in 0 .. (Len(trail) - 1) /\ n + 1 \in 1 .. (N - 1)
        BY <1>1, <2>5, <3>3 DEF Slots
      <4>3. PageSTACK[n + 1].id = trail[(n + 1) + 1] /\ trail'[n + 1] = trail[(n + 1) + 1]
        BY <4>2, <1>9, <2>3
      <4> QED  BY <4>1, <4>3, <3>3, <1>1 DEF Slots
    <3>4. n = N \/ n = N - 1 \/ n < N - 1
      BY <1>1 DEF Slots
    <3> QED  BY <3>1, <3>2, <3>3, <3>4
  <2>7. ASSUME NEW i \in Ids, i # clock'
        PROVE  InTrail(i)' <=> InTrail(i) /\ trail[1] # i
    <3>1. ASSUME NEW k \in 1 .. N, trail'[k] = i
          PROVE  InTrail(i) /\ trail[1] # i
      <4>1. k \in 1 .. (N - 1) /\ i = trail[k + 1]
        BY <2>3, <2>7, <3>1, <1>1
      <4>2. k + 1 \in 1 .. Len(trail) /\ 1 \in 1 .. Len(trail) /\ 1 < k + 1
        BY <4>1, <1>1, <2>5
      <4>3. trail[1] # trail[k + 1]
        BY <4>2, <1>15
      <4> QED  BY <4>1, <4>2, <4>3 DEF InTrail
    <3>2. ASSUME NEW k \in 1 .. Len(trail), trail[k] = i, trail[1] # i
          PROVE  InTrail(i)'
      <4>1. k - 1 \in 1 .. (N - 1) /\ (k - 1) + 1 = k /\ k - 1 \in 1 .. N
        BY <3>2, <1>1, <2>5
      <4>2. trail'[k - 1] = i
        BY <4>1, <2>3, <3>2
      <4> QED  BY <4>1, <4>2, <2>1 DEF InTrail
    <3> QED  BY <3>1, <3>2, <2>1 DEF InTrail
  <2>8. ASSUME NEW i \in Ids
        PROVE  (\A q \in KilledBy(PageSTACK, pos) : q.id # i) <=> trail[1] # i
    <3>1. 1 \in 1 .. Len(trail) /\ 1 - 1 = 0
      BY <1>1, <2>5
    <3>2. PageSTACK[0].id = trail[1]
      BY <3>1, <1>10
    <3> QED  BY <3>2, <1>13, <1>16
  <2>9. Files'
    BY <2>7, <2>8, <1>11, <1>14 DEF Files
  <2> QED  BY <1>1, <1>14, <2>1, <2>3, <2>4, <2>6, <2>9 DEF Placed, p, Slots
<1>17. CASE pos < N
  <2>1. trail' = kept /\ pos' = pos + 1 /\ Len(trail') = pos + 1
    BY <1>1, <1>7, <1>8, <1>17
  <2>2. trail'[pos + 1] = clock' /\ \A k \in 1 .. pos : trail'[k] = trail[k]
    BY <1>7, <2>1
  <2>3. stack_top' = pos + 1 /\ RoomTop(pos) = pos
    BY <1>1, <1>3, <1>5, <1>17
  <2>4. \A n \in Slots : p[n].id = IF n < pos + 1 THEN trail'[n + 1] ELSE 0
    <3> SUFFICES ASSUME NEW n \in Slots
                 PROVE  p[n].id = IF n < pos + 1 THEN trail'[n + 1] ELSE 0
      OBVIOUS
    <3>1. CASE n > pos
      BY <1>1, <1>3, <2>3, <3>1 DEF Slots
    <3>2. CASE n = pos
      BY <1>1, <1>3, <2>2, <2>3, <3>2
    <3>3. CASE n < pos
      <4>1. p[n] = PageSTACK[n]
        BY <1>1, <1>3, <1>4, <1>17, <2>3, <3>3
      <4>2. n \in 0 .. (Len(trail) - 1) /\ n + 1 \in 1 .. pos
        BY <1>1, <3>3 DEF Slots
      <4>3. PageSTACK[n].id = trail[n + 1] /\ trail'[n + 1] = trail[n + 1]
        BY <4>2, <1>9, <2>2
      <4> QED  BY <4>1, <4>3, <3>3, <1>1 DEF Slots
    <3> QED  BY <3>1, <3>2, <3>3, <1>1 DEF Slots
  <2>5. ASSUME NEW i \in Ids, i # clock'
        PROVE  InTrail(i)' <=> \E k \in 1 .. pos : trail[k] = i
    <3>1. ASSUME NEW k \in 1 .. (pos + 1), trail'[k] = i
          PROVE  \E j \in 1 .. pos : trail[j] = i
      BY <2>2, <2>5, <3>1, <1>1
    <3>2. ASSUME NEW k \in 1 .. pos, trail[k] = i
          PROVE  InTrail(i)'
      <4>1. k \in 1 .. (pos + 1) /\ trail'[k] = i
        BY <2>2, <3>2, <1>1
      <4> QED  BY <4>1, <2>1 DEF InTrail
    <3> QED  BY <3>1, <3>2, <2>1 DEF InTrail
  <2>6. ASSUME NEW i \in Ids, NEW k \in 1 .. pos, trail[k] = i
        PROVE  \A q \in KilledBy(PageSTACK, pos) : q.id # i
    <3>1. k \in 1 .. Len(trail) /\ k - 1 < pos
      BY <1>1
    <3>2. k - 1 \in Slots /\ PageSTACK[k - 1].id = i /\ i # 0
      BY <3>1, <2>6, <1>10
    <3>3. ASSUME NEW m \in pos .. (N - 1), PageSTACK[m].id # 0
          PROVE  PageSTACK[m].id # i
      <4>1. m \in Slots /\ k - 1 < m
        BY <1>1, <3>1 DEF Slots
      <4> QED  BY <4>1, <3>2, <3>3, <1>12 DEF InOrder, IdsIncrease
    <3> QED  BY <3>3, <1>13, <1>17, <1>1
  <2>7. ASSUME NEW i \in Ids, InTrail(i), \A q \in KilledBy(PageSTACK, pos) : q.id # i
        PROVE  \E k \in 1 .. pos : trail[k] = i
    <3>1. PICK k \in 1 .. Len(trail) : trail[k] = i
      BY <2>7 DEF InTrail
    <3>2. CASE k > pos
      <4>1. k - 1 \in pos .. (N - 1) /\ PageSTACK[k - 1].id = i /\ i # 0
        BY <3>1, <3>2, <1>1, <1>10
      <4>2. PageSTACK[k - 1] \in KilledBy(PageSTACK, pos)
        BY <4>1, <1>13, <1>17, <1>1
      <4> QED  BY <4>1, <4>2, <2>7
    <3> QED  BY <3>1, <3>2, <1>1
  <2>8. ASSUME NEW i \in Ids, i # clock'
        PROVE  InTrail(i)' <=> InTrail(i) /\ \A q \in KilledBy(PageSTACK, pos) : q.id # i
    <3>1. (\E k \in 1 .. pos : trail[k] = i) => InTrail(i)
      BY <1>1 DEF InTrail
    <3> QED  BY <3>1, <2>5, <2>6, <2>7, <2>8
  <2>9. Files'
    BY <2>8, <1>11, <1>14 DEF Files
  <2> QED  BY <1>1, <1>14, <2>1, <2>2, <2>3, <2>4, <2>9 DEF Placed, p
<1> QED  BY <1>1, <1>16, <1>17

-----------------------------------------------------------------------------
(* One step of each phase.                                                   *)

\* What leaves the array, the history and the cache files alone keeps their
\* relations.
LEMMA StillPlaced ==
  ASSUME UNCHANGED <<PageSTACK, trail>>
  PROVE  /\ Placed => Placed'
         /\ UNCHANGED <<disk, got, clock>> /\ Files => Files'
BY DEF Placed, Files, InTrail

\* The pages of the history have been pushed by now.
LEMMA TrailPast ==
  ASSUME IInv, Placed, NEW n \in 1 .. Len(trail)
  PROVE  trail[n] \in Ids /\ trail[n] \in 1 .. clock
<1>1. trail[n] \in Ids /\ Len(trail) \in Nat /\ Len(trail) <= PageSTACK_SIZE
  BY DEF IInv, HistoryTypes
<1>2. n - 1 \in Slots /\ n - 1 < Len(trail) /\ (n - 1) + 1 = n
  BY <1>1, SizeAssumption DEF Slots
<1>3. PageSTACK[n - 1].id = trail[n] /\ PageSTACK[n - 1].id <= clock
  BY <1>2 DEF Placed, IInv, InOrder
<1>4. clock \in Nat
  BY DEF IInv, StackTypes, Ids
<1> QED  BY <1>1, <1>3, <1>4 DEF Ids

\* A page of the history gets its file.
LEMMA WrittenFiles ==
  ASSUME IInv, Placed, Files, NEW n \in 1 .. Len(trail), MayWrite(trail[n]),
         UNCHANGED <<trail, clock>>
  PROVE  Files'
<1>1. trail[n] \in Ids /\ trail[n] \in 1 .. clock
  BY TrailPast
<1>2. CASE UNCHANGED <<disk, got>>
  BY <1>2 DEF Files, InTrail
<1>3. CASE Written(trail[n])
  <2>1. disk \in [Ids -> BOOLEAN]
    BY DEF IInv, StackTypes
  <2>2. ASSUME NEW i \in Ids  PROVE disk'[i] <=> i \in got' /\ InTrail(i)'
    <3>1. InTrail(i)' <=> InTrail(i)
      BY DEF InTrail
    <3>2. InTrail(trail[n])
      BY DEF InTrail
    <3>3. CASE i = trail[n]
      BY <1>1, <1>3, <2>1, <3>1, <3>2, <3>3 DEF Written
    <3>4. CASE i # trail[n]
      BY <1>3, <2>1, <3>1, <3>4 DEF Written, Files
    <3> QED  BY <3>3, <3>4
  <2> QED  BY <1>1, <1>3, <2>2 DEF Written, Files
<1> QED  BY <1>2, <1>3 DEF MayWrite

\* At rest, a key closes the view, or stops a page that was never asked for.
LEMMA RestSteps ==
  ASSUME IInv, Placed, Files, ~corrupt, running, Rest, ~HurriedUser,
         Helper \/ Mmi \/ Keys \/ Network
  PROVE  OnTheWay'
<1> USE DEF IInv
<1>1. /\ helperq = <<>> \/ helperq = <<StopJob>>
      /\ hp = "idle" /\ loading = NULL
      /\ mmiq = <<>> \/ OnlyMessage("DATA_END", NULL)
      /\ OnTop
  BY DEF Rest
<1>2. ~Network
  BY <1>1, NetworkNeeds
<1>3. CASE Helper
  <2>1. StopINET /\ helperq = <<StopJob>>
    <3>1. helperq = <<StopJob>> /\ Head(helperq).proc = "StopINET"
      BY <1>1, <1>3, HelperNeeds, ShortQueues DEF StopJob
    <3> QED  BY <1>1, <1>3, <3>1, HelperNeeds DEF Helper
  <2>2. /\ helperq' = <<>> /\ loading' = NULL
        /\ UNCHANGED <<PageSTACK, stack_top, disk, got, clock, view, hp, mmiq, running, corrupt,
                       trail, pos>>
    BY <2>1, ShortQueues DEF StopINET, Dequeue
  <2>3. Rest'
    BY <1>1, <2>2 DEF Rest, OnTop, OnlyMessage
  <2> QED  BY <2>2, <2>3, StillPlaced DEF OnTheWay, Phase
<1>4. CASE Mmi
  <2>1. OnDataEnd /\ mmiq = <<[kind |-> "DATA_END", arg |-> NULL]>>
    BY <1>1, <1>4, MmiNeeds DEF OnlyMessage
  <2>2. mmiq' = <<>> /\ UNCHANGED <<PageSTACK, stack_top, disk, got, clock, view, loading,
                                    helperq, hp, running, corrupt, trail, pos>>
    BY <2>1, ShortQueues DEF OnDataEnd, Consume
  <2> QED  BY <1>1, <2>2, StillPlaced DEF OnTheWay, Phase, Rest, OnTop
<1>5. CASE Keys
  <2>1. AtRest /\ mmiq = <<>> /\ helperq = <<>>
    BY <1>5, KeysNeed DEF AtRest
  <2>2. ASSUME KeyStop \/ KeyMenu  PROVE OnTheWay'
    <3>1. /\ helperq' = <<>> \/ helperq' = <<StopJob>>
          /\ UNCHANGED <<PageSTACK, stack_top, disk, got, clock, view, loading, hp, mmiq,
                         running, corrupt, trail, pos>>
      BY <2>1, <2>2, ShortQueues DEF KeyStop, KeyMenu, SUBPROC, StopJob
    <3>2. Rest'
      BY <1>1, <2>1, <3>1 DEF Rest, OnTop
    <3> QED  BY <3>1, <3>2, StillPlaced DEF OnTheWay, Phase
  <2>3. /\ pos \in 1 .. Len(trail) /\ stack_top = pos /\ Len(trail) \in Nat
        /\ Len(trail) <= PageSTACK_SIZE /\ pos \in Slots
    BY <1>1, SizeAssumption DEF OnTop, HistoryTypes, Slots
  <2>4. ASSUME NEW code \in Codes, CloseView(code), UNCHANGED trail, Moved(code)'
        PROVE  OnTheWay'
    <3>1. /\ helperq' = <<StopJob>> /\ OnlyMessage("GUI_DESTROYED", code)'
          /\ view' = NULL
          /\ UNCHANGED <<PageSTACK, stack_top, disk, got, clock, loading, hp, running>>
      BY <1>1, <2>1, <2>4, ShortQueues DEF CloseView, SUBPROC, Post, StopJob, OnlyMessage
    <3>2. ~corrupt'
      <4>1. corrupt' = (corrupt \/ stack_top = 0) /\ stack_top # 0
        BY <2>3, <2>4 DEF CloseView
      <4> QED  BY <4>1, Zenon
    <3>3. Closed'
      BY <1>1, <2>4, <3>1 DEF Closed
    <3> QED  BY <2>4, <3>1, <3>2, <3>3, StillPlaced DEF OnTheWay, Phase
  <2>5. CASE KeyGo
    BY <2>3, <2>4, <2>5 DEF KeyGo, Codes, Moved, CloseView
  <2>6. CASE KeyBookmark
    BY <2>3, <2>4, <2>6 DEF KeyBookmark, Codes, Moved, CloseView
  <2>7. CASE KeyReload
    BY <2>3, <2>4, <2>7 DEF KeyReload, Codes, Moved, CloseView
  <2>8. CASE KeyBack
    BY <2>3, <2>4, <2>8 DEF KeyBack, Codes, Moved, CloseView
  <2>9. CASE KeyForward
    <3>1. PageSTACK[pos].id # 0
      BY <2>3, <2>9 DEF KeyForward, CheckPageStackTop
    <3>2. pos < Len(trail)
      BY <2>3, <3>1 DEF Placed
    <3> QED  BY <2>3, <2>4, <2>9, <3>2 DEF KeyForward, Codes, Moved, CloseView
  <2>10. CASE KeyQuit
    BY <2>3, <2>4, <2>10 DEF KeyQuit, Codes, Moved, CloseView
  <2> QED  BY <1>5, <2>2, <2>5, <2>6, <2>7, <2>8, <2>9, <2>10 DEF Keys
<1> QED  BY <1>2, <1>3, <1>4, <1>5

\* The view is closed: HELPER stops what loads, and the MMI thread moves the top
\* under the page the cursor is on, or above the last one kept.
LEMMA ClosedSteps ==
  ASSUME IInv, Placed, Files, ~corrupt, running, Closed, ~HurriedUser,
         Helper \/ Mmi \/ Keys \/ Network
  PROVE  OnTheWay'
<1> USE DEF IInv
<1>1. /\ helperq = <<>> \/ helperq = <<StopJob>>
      /\ hp = "idle" /\ loading = NULL /\ view = NULL
  BY DEF Closed
<1>2. PICK code \in Codes : OnlyMessage("GUI_DESTROYED", code) /\ Moved(code)
  BY DEF Closed
<1>3. ~Keys /\ ~Network
  BY <1>1, KeysNeed, NetworkNeeds
<1>4. CASE Helper
  <2>1. StopINET /\ helperq = <<StopJob>>
    <3>1. helperq = <<StopJob>> /\ Head(helperq).proc = "StopINET"
      BY <1>1, <1>4, HelperNeeds, ShortQueues DEF StopJob
    <3> QED  BY <1>1, <1>4, <3>1, HelperNeeds DEF Helper
  <2>2. /\ helperq' = <<>> /\ loading' = NULL
        /\ UNCHANGED <<PageSTACK, stack_top, disk, got, clock, view, hp, mmiq, running, corrupt,
                       trail, pos>>
    BY <2>1, ShortQueues DEF StopINET, Dequeue
  <2>3. OnlyMessage("GUI_DESTROYED", code)' /\ Moved(code)'
    BY <1>2, <2>2 DEF OnlyMessage, Moved
  <2>4. Closed'
    BY <1>1, <2>2, <2>3, StillPlaced DEF Closed
  <2> QED  BY <2>2, <2>4, StillPlaced DEF OnTheWay, Phase
<1>5. CASE Mmi
  <2>1. Destroyed /\ Head(mmiq).arg = code /\ Tail(mmiq) = <<>>
    <3>1. Head(mmiq).kind = "GUI_DESTROYED" /\ Head(mmiq).arg = code /\ Tail(mmiq) = <<>>
      BY <1>2, ShortQueues DEF OnlyMessage
    <3> QED  BY <1>5, <3>1, MmiNeeds
  <2>2. /\ stack_top \in 1 .. Len(trail) /\ Len(trail) \in Nat
        /\ Len(trail) <= PageSTACK_SIZE /\ PageSTACK_SIZE \in Nat
    BY <1>2, SizeAssumption DEF Moved, HistoryTypes
  <2>3. ASSUME NEW c, OnDestroyed(c)
        PROVE  /\ c = code /\ mmiq' = <<>>
               /\ UNCHANGED <<PageSTACK, disk, got, clock, view, loading, hp, corrupt, trail, pos>>
    BY <2>1, <2>3 DEF OnDestroyed, Consume
  <2>4. ASSUME NEW c, OnDestroyed(c), UNCHANGED running,
               NEW proc \in {"GotoLink", "GotoFile"}, NEW arg \in Ids \cup {NULL, Bookmark},
               proc = "GotoLink" <=> arg = NULL, SUBPROC(proc, arg), Target(arg)'
        PROVE  OnTheWay'
    <3>1. helperq' = <<JobOf(proc, arg)>> \/ helperq' = <<StopJob, JobOf(proc, arg)>>
      BY <1>1, <2>4, ShortQueues DEF SUBPROC, JobOf
    <3>2. Heading'
      BY <1>1, <2>3, <2>4, <3>1, StillPlaced DEF Heading
    <3> QED  BY <2>3, <2>4, <3>2, StillPlaced DEF OnTheWay, Phase
  <2>5. ASSUME NEW c, OnDestroyed(c), running' = FALSE
        PROVE  OnTheWay'
    BY <1>1, <2>3, <2>5, StillPlaced DEF OnTheWay, Ended
  <2>6. NULL \notin Ids /\ Bookmark \notin Ids /\ NULL # Bookmark
    BY IdsAreIds
  <2>7. \A n \in 0 .. (Len(trail) - 1) : n \in Slots /\ PageSTACK[n].id = trail[n + 1]
                                         /\ trail[n + 1] \in Ids
    BY <2>2, IdsAreIds DEF Placed, Slots
  <2>8. CASE OnDestroyedGo
    <3>1. OnDestroyed("go") /\ pos = stack_top
      BY <1>2, <2>3, <2>8 DEF OnDestroyedGo, Moved
    <3> QED  BY <2>3, <2>4, <2>6, <2>8, <3>1 DEF OnDestroyedGo, Target
  <2>9. CASE OnDestroyedBookmark
    <3>1. OnDestroyed("bookmark") /\ pos = stack_top
      BY <1>2, <2>3, <2>9 DEF OnDestroyedBookmark, Moved
    <3> QED  BY <2>3, <2>4, <2>6, <2>9, <3>1 DEF OnDestroyedBookmark, Target
  <2>10. CASE OnDestroyedReload
    <3>1. OnDestroyed("reload") /\ pos = stack_top - 1
      BY <1>2, <2>3, <2>10 DEF OnDestroyedReload, Moved
    <3>2. stack_top' = pos
      BY <2>2, <2>10, <3>1 DEF OnDestroyedReload, PopPageFromStack
    <3> QED  BY <2>3, <2>4, <2>6, <2>10, <3>1, <3>2 DEF OnDestroyedReload, Target
  <2>11. CASE OnDestroyedBack
    <3>1. OnDestroyed("back") /\ pos = stack_top - 1
      BY <1>2, <2>3, <2>11 DEF OnDestroyedBack, Moved
    <3>2. PopPageFromStack(stack_top) = pos
      BY <2>2, <3>1 DEF PopPageFromStack
    <3>3. CASE pos = 0
      BY <2>5, <2>11, <3>1, <3>2, <3>3 DEF OnDestroyedBack
    <3>4. CASE pos # 0
      <4>1. /\ stack_top' = pos - 1 /\ SUBPROC("GotoFile", PageSTACK[pos - 1].id)
            /\ UNCHANGED running
        BY <2>11, <3>1, <3>2, <3>4 DEF OnDestroyedBack, PopPageFromStack
      <4>2. /\ pos \in 1 .. Len(trail) /\ pos - 1 \in 0 .. (Len(trail) - 1)
            /\ (pos - 1) + 1 = pos
        BY <2>2, <3>1, <3>4
      <4>3. PageSTACK[pos - 1].id = trail[pos] /\ trail[pos] \in Ids
        BY <2>7, <4>2
      <4>4. Target(trail[pos])'
        BY <2>3, <3>1, <4>1, <4>2, <4>3 DEF Target
      <4> QED  BY <2>3, <2>4, <2>6, <3>1, <4>1, <4>3, <4>4
    <3> QED  BY <3>3, <3>4
  <2>12. CASE OnDestroyedForward
    <3>1. OnDestroyed("forward") /\ pos = stack_top + 1 /\ pos <= Len(trail)
      BY <1>2, <2>3, <2>12 DEF OnDestroyedForward, Moved
    <3>2. PopPageFromStack(stack_top) = stack_top - 1
      BY <2>2 DEF PopPageFromStack
    <3>3. stack_top - 1 \in 0 .. (Len(trail) - 1) /\ pos - 1 \in 0 .. (Len(trail) - 1)
      BY <2>2, <3>1
    <3>4. CanForward(PageSTACK, stack_top - 1)
      <4>1. PageSTACK[stack_top - 1].id \in Ids
        BY <2>7, <3>3
      <4> QED  BY <2>2, <3>3, <4>1, IdsAreIds DEF CanForward
    <3>5. /\ stack_top' = stack_top /\ SUBPROC("GotoFile", PageSTACK[stack_top].id)
          /\ UNCHANGED running
      BY <2>2, <2>12, <3>2, <3>4 DEF OnDestroyedForward, ForwardPageFromStack
    <3>6. PageSTACK[stack_top].id = trail[pos] /\ trail[pos] \in Ids /\ stack_top = pos - 1
      BY <2>2, <2>7, <3>1, <3>3
    <3>7. Target(trail[pos])'
      BY <2>2, <2>3, <3>1, <3>5, <3>6 DEF Target
    <3> QED  BY <2>3, <2>4, <2>6, <3>1, <3>5, <3>6, <3>7
  <2>13. CASE OnDestroyedQuit
    BY <2>5, <2>13 DEF OnDestroyedQuit
  <2> QED  BY <2>1, <2>8, <2>9, <2>10, <2>11, <2>12, <2>13 DEF Destroyed
<1> QED  BY <1>3, <1>4, <1>5

\* HELPER passes the target on, and the MMI thread opens the next view.
LEMMA HeadingSteps ==
  ASSUME IInv, Placed, Files, ~corrupt, running, Heading, PatientUser,
         Helper \/ Mmi \/ Keys \/ Network
  PROVE  OnTheWay'
<1> USE DEF IInv
<1>1. /\ hp = "idle" /\ loading = NULL /\ view = NULL
  BY DEF Heading
<1>2. PICK proc \in {"GotoLink", "GotoFile"}, arg \in Ids \cup {NULL, Bookmark} :
        /\ proc = "GotoLink" <=> arg = NULL
        /\ Target(arg)
        /\ \/ /\ mmiq = <<>>
              /\ helperq = <<JobOf(proc, arg)>> \/ helperq = <<StopJob, JobOf(proc, arg)>>
           \/ /\ helperq = <<>>
              /\ OnlyMessage(IF proc = "GotoLink" THEN "GOTO_URL" ELSE "GOTO_FILE", arg)
  BY DEF Heading
<1>3. ~Keys /\ ~Network
  BY <1>1, KeysNeed, NetworkNeeds
<1>4. NULL \notin Ids /\ Bookmark \notin Ids /\ NULL # Bookmark
  BY IdsAreIds
<1>5. CASE Helper
  <2>1. helperq # <<>>
    BY <1>1, <1>5, HelperNeeds
  <2>2. mmiq = <<>> /\ (helperq = <<JobOf(proc, arg)>> \/ helperq = <<StopJob, JobOf(proc, arg)>>)
    BY <1>2, <2>1
  <2>3. CASE helperq = <<StopJob, JobOf(proc, arg)>>
    <3>1. Head(helperq).proc = "StopINET" /\ Tail(helperq) = <<JobOf(proc, arg)>>
      BY <2>3, ShortQueues DEF StopJob
    <3>2. StopINET
      BY <1>1, <1>5, <3>1, HelperNeeds DEF Helper
    <3>3. /\ helperq' = <<JobOf(proc, arg)>> /\ loading' = NULL
          /\ UNCHANGED <<PageSTACK, stack_top, disk, got, clock, view, hp, mmiq, running, corrupt,
                       trail, pos>>
      BY <3>1, <3>2 DEF StopINET, Dequeue
    <3>4. Target(arg)'
      BY <1>2, <3>3 DEF Target
    <3>5. Heading'
      BY <1>1, <1>2, <2>2, <3>3, <3>4, StillPlaced DEF Heading
    <3> QED  BY <3>3, <3>5, StillPlaced DEF OnTheWay, Phase
  <2>4. CASE helperq = <<JobOf(proc, arg)>>
    <3>1. /\ Head(helperq).proc = proc /\ Arg = arg /\ Tail(helperq) = <<>>
      BY <2>4, ShortQueues DEF JobOf, Arg
    <3>2. Goto
      BY <1>1, <1>5, <3>1, HelperNeeds DEF Helper
    <3> DEFINE kind == IF proc = "GotoLink" THEN "GOTO_URL" ELSE "GOTO_FILE"
    <3>3. /\ helperq' = <<>> /\ mmiq' = <<[kind |-> kind, arg |-> arg]>>
          /\ UNCHANGED <<PageSTACK, stack_top, disk, got, clock, view, loading, hp, running,
                         corrupt, trail, pos>>
      BY <2>2, <3>1, <3>2, ShortQueues DEF Goto, Dequeue, Starts, Post
    <3>4. OnlyMessage(kind, arg)'
      BY <3>3, ShortQueues DEF OnlyMessage
    <3>5. Target(arg)'
      BY <1>2, <3>3 DEF Target
    <3>6. Heading'
      BY <1>1, <1>2, <3>3, <3>4, <3>5, StillPlaced DEF Heading
    <3> QED  BY <3>3, <3>6, StillPlaced DEF OnTheWay, Phase
  <2> QED  BY <2>2, <2>3, <2>4
<1>6. CASE Mmi
  <2> DEFINE kind == IF proc = "GotoLink" THEN "GOTO_URL" ELSE "GOTO_FILE"
  <2>1. helperq = <<>> /\ OnlyMessage(kind, arg)
    BY <1>2, <1>6, MmiNeeds
  <2>2. Head(mmiq).kind = kind /\ Head(mmiq).arg = arg /\ Tail(mmiq) = <<>>
    BY <2>1, ShortQueues DEF OnlyMessage
  <2>3. ASSUME NEW url \in {NULL, LocalFile}, NEW mode \in {"FILE", "URL"},
               mode = "URL" <=> url = NULL, OpenPushed(url, mode), Consume,
               UNCHANGED <<got, loading, hp, running, corrupt>>, arg \notin Ids
        PROVE  OnTheWay'
    <3>1. stack_top = pos
      BY <1>2, <2>3 DEF Target
    <3>2. /\ Placed'
          /\ pos' \in 1 .. Len(trail') /\ trail'[pos'] = clock' /\ stack_top' = pos'
          /\ Files' /\ clock' \notin got'
      BY <1>1, <2>3, <3>1, PushPlaces
    <3>3. /\ helperq' = <<JobOf("StartGetFile", clock')>> /\ mmiq' = <<>>
          /\ view' = clock' /\ view_url_mode' = mode
          /\ view_url' = IF url = NULL THEN clock' ELSE url
      BY <2>1, <2>2, <2>3, ShortQueues DEF OpenPushed, SUBPROC, Consume, JobOf
    <3>4. NULL # LocalFile
      BY IdsAreIds
    <3>5. Opened'
      BY <1>1, <2>3, <3>2, <3>3, <3>4 DEF Opened, JobOf
    <3> QED  BY <2>3, <3>2, <3>5 DEF OnTheWay, Phase
  <2>4. CASE OnGotoUrl
    <3>1. arg \notin Ids
      BY <1>2, <1>4, <1>6, <2>2, <2>4, MmiNeeds
    <3> QED  BY <2>3, <2>4, <3>1 DEF OnGotoUrl
  <2>5. CASE OnGotoLocalFile
    <3>1. arg \notin Ids
      BY <1>4, <1>6, <2>2, <2>5, MmiNeeds
    <3>2. /\ OpenPushed(LocalFile, "FILE") /\ Consume
          /\ UNCHANGED <<got, loading, hp, running, corrupt>>
      BY <2>5 DEF OnGotoLocalFile, PatientUser
    <3> QED  BY <2>3, <3>1, <3>2, IdsAreIds
  <2>6. CASE OnGotoCached
    <3>1. arg \in Ids
      BY <1>2, <1>6, <2>2, <2>6, MmiNeeds
    <3>2. pos \in 1 .. Len(trail) /\ stack_top = pos - 1 /\ arg = trail[pos]
      BY <1>2, <3>1 DEF Target
    <3>3. /\ helperq' = <<JobOf("StartGetFile", NULL)>> /\ mmiq' = <<>>
          /\ view' = arg /\ view_url' = arg /\ view_url_mode' = "FILE"
          /\ UNCHANGED <<PageSTACK, stack_top, disk, got, clock, loading, hp, running, corrupt,
                         trail, pos>>
      BY <2>1, <2>2, <2>6, ShortQueues DEF OnGotoCached, SUBPROC, Consume, JobOf
    <3>4. Opened'
      BY <1>1, <3>2, <3>3, StillPlaced DEF Opened
    <3> QED  BY <3>3, <3>4, StillPlaced DEF OnTheWay, Phase
  <2> QED  BY <1>6, <2>2, <2>4, <2>5, <2>6, MmiNeeds
<1> QED  BY <1>3, <1>5, <1>6

\* HELPER runs StartGetFile: a cached page goes up to the top, whether its file
\* is there or not; a new page gets its file, or not, or is asked for, or not.
LEMMA OpenedSteps ==
  ASSUME IInv, Placed, Files, ~corrupt, running, Opened, ~HurriedUser,
         Helper \/ Mmi \/ Keys \/ Network
  PROVE  OnTheWay'
<1> USE DEF IInv
<1>1. /\ hp = "idle" /\ loading = NULL /\ mmiq = <<>>
      /\ pos \in 1 .. Len(trail) /\ view = trail[pos]
  BY DEF Opened
<1>2. view \in Ids /\ view # NULL /\ NULL \notin Ids /\ LocalFile # NULL
  BY <1>1, IdsAreIds
<1>3. PICK arg \in {view, NULL} :
        /\ helperq = <<JobOf("StartGetFile", arg)>>
        /\ arg = view => /\ stack_top = pos /\ view \notin got
                         /\ \/ view_url_mode = "URL" /\ view_url = view
                            \/ view_url_mode = "FILE" /\ view_url = LocalFile
        /\ arg = NULL => /\ stack_top = pos - 1
                         /\ view_url_mode = "FILE" /\ view_url = view
  BY <1>2 DEF Opened
<1>4. /\ helperq # <<>> /\ Head(helperq).proc = "StartGetFile" /\ Arg = arg
      /\ Tail(helperq) = <<>>
  BY <1>3, ShortQueues DEF JobOf, Arg
<1>5. ~Mmi /\ ~Keys /\ ~Network
  BY <1>1, <1>4, KeysNeed, MmiNeeds, NetworkNeeds DEF AtRest
<1>6. StartGetFile \/ StartGetFileFails \/ StartINET
  BY <1>1, <1>4, <1>5, HelperNeeds DEF Helper
<1>7. /\ Len(trail) \in Nat /\ Len(trail) <= PageSTACK_SIZE /\ PageSTACK_SIZE \in Nat
      /\ disk \in [Ids -> BOOLEAN] /\ stack_top \in Nat
  BY SizeAssumption DEF HistoryTypes, StackTypes
<1>8. stack_top = pos - 1 => UpPageStack(stack_top) = pos
  BY <1>1, <1>7 DEF UpPageStack
<1>9. CASE StartGetFile
  <2>1. /\ helperq' = <<>> /\ hp' = "reading"
        /\ stack_top' = (IF arg = NULL THEN UpPageStack(stack_top) ELSE stack_top)
        /\ IF arg = NULL THEN UNCHANGED <<disk, got>> ELSE MayWrite(arg)
        /\ UNCHANGED <<PageSTACK, clock, view, loading, mmiq, running, corrupt, trail, pos>>
    BY <1>4, <1>9 DEF StartGetFile, Dequeue
  <2>2. stack_top' = pos
    BY <1>2, <1>3, <1>8, <2>1
  <2>3. Files'
    BY <1>1, <1>2, <1>3, <2>1, StillPlaced, WrittenFiles
  <2>4. Reading'
    BY <1>1, <2>1, <2>2 DEF Reading, OnTop
  <2> QED  BY <2>1, <2>3, <2>4, StillPlaced DEF OnTheWay, Phase
<1>10. CASE StartGetFileFails
  <2>1. arg = NULL
    BY <1>2, <1>3, <1>10 DEF StartGetFileFails, Exists
  <2>2. /\ helperq' = <<>> /\ hp' = "reading" /\ stack_top' = UpPageStack(stack_top)
        /\ UNCHANGED <<PageSTACK, disk, got, clock, view, loading, mmiq, running, corrupt, trail,
                       pos>>
    BY <1>4, <1>10 DEF StartGetFileFails, Dequeue
  <2>3. Reading'
    BY <1>1, <1>3, <1>8, <2>1, <2>2 DEF Reading, OnTop
  <2> QED  BY <2>2, <2>3, StillPlaced DEF OnTheWay, Phase
<1>11. CASE StartINET
  <2>1. arg = view /\ stack_top = pos
    BY <1>3, <1>11 DEF StartINET
  <2>2. /\ helperq' = <<>>
        /\ UNCHANGED <<PageSTACK, stack_top, got, clock, view, hp, mmiq, running, corrupt, trail,
                       pos>>
        /\ \/ UNCHANGED <<loading, disk>>
           \/ loading' = view /\ disk' = [disk EXCEPT ![view] = FALSE]
    BY <1>4, <1>11, <2>1 DEF StartINET, Dequeue
  <2>3. disk' = disk
    <3>1. ~disk[view]
      BY <1>2, <1>3, <2>1 DEF Files
    <3> QED  BY <1>2, <1>7, <2>2, <3>1
  <2>4. Rest' \/ Loading'
    BY <1>1, <2>1, <2>2 DEF Rest, Loading, OnTop
  <2> QED  BY <2>2, <2>3, <2>4, StillPlaced DEF OnTheWay, Phase
<1> QED  BY <1>6, <1>9, <1>10, <1>11

\* A network page arrives, and ends.
LEMMA LoadingSteps ==
  ASSUME IInv, Placed, Files, ~corrupt, running, Loading, ~HurriedUser,
         Helper \/ Mmi \/ Keys \/ Network
  PROVE  OnTheWay'
<1> USE DEF IInv
<1>1. /\ helperq = <<>> /\ hp = "idle" /\ mmiq = <<>>
      /\ OnTop /\ loading = view
  BY DEF Loading
<1>2. view \in Ids /\ NULL \notin Ids
  BY <1>1, IdsAreIds DEF OnTop
<1>3. ~Helper /\ ~Mmi /\ ~Keys
  BY <1>1, <1>2, HelperNeeds, MmiNeeds, KeysNeed DEF AtRest
<1>4. CASE DataArrives
  <2>1. /\ MayWrite(trail[pos])
        /\ UNCHANGED <<PageSTACK, stack_top, clock, view, loading, helperq, hp, mmiq, running,
                       corrupt, trail, pos>>
    BY <1>1, <1>4 DEF DataArrives, MayWrite, OnTop
  <2>2. Files'
    BY <1>1, <2>1, WrittenFiles DEF OnTop
  <2>3. Loading'
    BY <1>1, <2>1 DEF Loading, OnTop
  <2> QED  BY <2>1, <2>2, <2>3, StillPlaced DEF OnTheWay, Phase
<1>5. CASE PageArrives
  <2>1. /\ loading' = NULL /\ mmiq' = <<[kind |-> "DATA_END", arg |-> NULL]>>
        /\ UNCHANGED <<PageSTACK, stack_top, disk, got, clock, view, helperq, hp, running,
                       corrupt, trail, pos>>
    BY <1>1, <1>5, ShortQueues DEF PageArrives, Post
  <2>2. OnlyMessage("DATA_END", NULL)'
    BY <2>1, ShortQueues DEF OnlyMessage
  <2>3. Rest'
    BY <1>1, <2>1, <2>2 DEF Rest, OnTop
  <2> QED  BY <2>1, <2>3, StillPlaced DEF OnTheWay, Phase
<1> QED  BY <1>3, <1>4, <1>5 DEF Network

\* A file has been read, or has not been found.
LEMMA ReadingSteps ==
  ASSUME IInv, Placed, Files, ~corrupt, running, Reading, ~HurriedUser,
         Helper \/ Mmi \/ Keys \/ Network
  PROVE  OnTheWay'
<1>1. /\ helperq = <<>> /\ hp = "reading" /\ mmiq = <<>> /\ loading = NULL
      /\ OnTop
  BY DEF Reading
<1>2. FileRead
  BY <1>1, HelperNeeds, MmiNeeds, KeysNeed, NetworkNeeds DEF AtRest
<1>3. /\ hp' = "idle" /\ mmiq' = <<[kind |-> "DATA_END", arg |-> NULL]>>
      /\ UNCHANGED <<PageSTACK, stack_top, disk, got, clock, view, loading, helperq, running,
                     corrupt, trail, pos>>
  BY <1>1, <1>2, ShortQueues DEF FileRead, Post
<1>4. OnlyMessage("DATA_END", NULL)'
  BY <1>3, ShortQueues DEF OnlyMessage
<1>5. Rest'
  BY <1>1, <1>3, <1>4 DEF Rest, OnTop
<1> QED  BY <1>3, <1>5, StillPlaced DEF OnTheWay, Phase

-----------------------------------------------------------------------------
(* Every step.                                                               *)

LEMMA PatientInit == Init => PatientInv
<1> SUFFICES ASSUME Init, PatientUser  PROVE OnTheWay
  BY DEF PatientInv
<1>1. trail = <<1>> /\ pos = 1 /\ Len(trail) = 1 /\ trail[1] = 1
  BY DEF Init
<1>2. Placed
  BY <1>1, InitArray, SizeAssumption DEF Placed, Slots
<1>3. Files
  BY DEF Files, Init
<1>4. helperq = <<JobOf("StartGetFile", 1)>>
  BY DEF Init, JobOf
<1>5. /\ hp = "idle" /\ loading = NULL /\ mmiq = <<>> /\ view = 1 /\ stack_top = 1
      /\ running /\ ~corrupt /\ view \notin got
      /\ \/ view_url_mode = "URL" /\ view_url = view
         \/ view_url_mode = "FILE" /\ view_url = LocalFile
  BY DEF Init, PatientUser
<1>6. Opened
  BY <1>1, <1>4, <1>5 DEF Opened
<1> QED  BY <1>2, <1>3, <1>5, <1>6 DEF OnTheWay, Phase

LEMMA PatientStep ==
  ASSUME IInv, PatientInv, [Next]_<<vars, world>>
  PROVE  PatientInv'
<1>1. CASE UNCHANGED <<vars, world>>
  BY <1>1, StillPlaced
     DEF vars, PatientInv, PatientUser, HurriedUser, FilesMissing, OnTheWay, Ended, Phase, Rest,
         Closed, Heading, Opened, Loading, Reading, OnTop, Moved, Target, OnlyMessage
<1>2. CASE Next
  <2>1. PatientUser' <=> PatientUser
    BY <1>2 DEF Next, PatientUser, HurriedUser, FilesMissing
  <2> SUFFICES ASSUME PatientUser  PROVE OnTheWay'
    BY <2>1 DEF PatientInv
  <2>2. Helper \/ Mmi \/ Keys \/ Network
    BY <1>2 DEF Next
  <2>3. running
    BY <2>2, HelperNeeds, MmiNeeds, KeysNeed, NetworkNeeds
  <2>4. Placed /\ Files /\ ~corrupt /\ Phase
    BY <2>3 DEF PatientInv, OnTheWay, Ended
  <2>5. ~HurriedUser
    BY DEF PatientUser
  <2> QED  BY <2>2, <2>3, <2>4, <2>5, RestSteps, ClosedSteps, HeadingSteps, OpenedSteps,
              LoadingSteps, ReadingSteps DEF Phase
<1> QED  BY <1>1, <1>2

LEMMA PatientInvariant == Spec => []PatientInv
<1>1. IInv /\ PatientInv /\ [Next]_<<vars, world>> => PatientInv'
  BY PatientStep
<1> QED  BY <1>1, PatientInit, Invariant, PTL DEF Spec

\* Whenever a patient user's page is at rest, the two halves of every navigation,
\* the pops of the MMI thread and the UpPageStack of HELPER, have left the stack
\* as his history, for every size of the stack.
THEOREM StackIsHistory == Spec => []PatientInPlace
<1>1. IInv /\ PatientInv => PatientInPlace
  <2> SUFFICES ASSUME IInv, PatientUser, OnTheWay, AtRest, view # NULL
               PROVE  /\ stack_top = pos
                      /\ \A n \in Slots :
                           PageSTACK[n].id = IF n < Len(trail) THEN trail[n + 1] ELSE 0
                      /\ pos \in DOMAIN trail /\ view = trail[pos]
                      /\ CheckPageStackTop(PageSTACK, stack_top) <=> pos < Len(trail)
    BY DEF PatientInv, PatientInPlace, InPlace
  <2>1. Rest
    BY DEF OnTheWay, Ended, Phase, AtRest, Closed, Heading, Opened, Loading, Reading
  <2>2. /\ stack_top = pos /\ pos \in 1 .. Len(trail) /\ view = trail[pos]
        /\ trail \in Seq(Ids) /\ Len(trail) \in Nat /\ Len(trail) <= PageSTACK_SIZE
    BY <2>1 DEF Rest, OnTop, IInv, HistoryTypes
  <2>3. pos \in DOMAIN trail
    BY <2>2
  <2>4. CheckPageStackTop(PageSTACK, stack_top) <=> pos < Len(trail)
    <3>1. pos \in Slots
      BY <2>2, SizeAssumption DEF Slots
    <3>2. PageSTACK[pos].id = IF pos < Len(trail) THEN trail[pos + 1] ELSE 0
      BY <3>1 DEF OnTheWay, Placed
    <3>3. pos < Len(trail) => trail[pos + 1] \in Ids
      BY <2>2
    <3>4. 0 \notin Ids
      BY DEF Ids
    <3> QED  BY <2>2, <3>2, <3>3, <3>4 DEF CheckPageStackTop
  <2> QED  BY <2>2, <2>3, <2>4 DEF OnTheWay, Placed
<1> QED  BY <1>1, Invariant, PatientInvariant, PTL

\* For a patient user setPageParams never runs on an empty stack, and the cache
\* files are always exactly those of the pages in his history that ever got one:
\* whatever the size of the stack, killpage (urlstack.c:165-195) removes no file
\* of a page that Back or Forward can reach and leaves none of a page that is gone,
\* and StartINET unlinks none; with or without GPRS, with or without an answer.
THEOREM CacheFoundWhenPatient == Spec => []PatientCache
<1>1. IInv /\ PatientInv => PatientCache
  <2> SUFFICES ASSUME IInv, PatientUser, OnTheWay
               PROVE  /\ ~corrupt
                      /\ running => \A i \in Ids :
                           disk[i] <=> i \in got /\ \E n \in DOMAIN trail : trail[n] = i
    BY DEF PatientInv, PatientCache, CacheFound
  <2>1. DOMAIN trail = 1 .. Len(trail)
    BY DEF IInv, HistoryTypes
  <2> QED  BY <2>1 DEF OnTheWay, Ended, Files, InTrail
<1> QED  BY <1>1, Invariant, PatientInvariant, PTL
=============================================================================
