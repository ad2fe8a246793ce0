------------------------------ MODULE PageStack ------------------------------
(***************************************************************************)
(* Browsing with the page stack: what each navigation of main.c does to    *)
(* the stack, to the cache directory and to the heap, when nothing runs    *)
(* in between (Navigation lets the two threads interleave).                *)
(*                                                                         *)
(* Every navigation away from a page closes its view first, and method2    *)
(* of the view saves the position with setPageParams; then the handler of  *)
(* MSG_GUI_DESTROYED moves the stack, and method1 of the new view pushes   *)
(* a page or, for a cached one, StartGetFile calls UpPageStack.            *)
(***************************************************************************)
EXTENDS UrlStack, Integers, Sequences, FiniteSets

CONSTANTS Docs,       \* what a page can hold
          Lines,      \* the positions a page can be scrolled to
          Forms,      \* what can be typed into a page
          MaxClock,   \* bound: no page is pushed after this second
          MinGap      \* the fewest seconds between two pushes

ASSUME LinesAssumption == Lines \subseteq Nat
ASSUME ClockAssumption == MaxClock \in Nat \ {0} /\ MinGap \in {0, 1}
ASSUME DataAssumption == NULL \notin Docs /\ NULL \notin Forms

VARIABLES PageSTACK,   \* the array
          stack_top,
          heap,        \* Blocks -> the form in the block, or NULL when free
          disk,        \* id -> the document in the cache file, or NULL
          clock,       \* seconds, as GetDateTime gives them
          line,        \* view_line of the page on screen
          running

vars == <<PageSTACK, stack_top, heap, disk, clock, line, running>>

Ids == 1 .. MaxClock
Slot == [id : Ids \cup {0}, view_line : Lines \cup {0}, form : Blocks \cup {NULL}]

\* The ids a page pushed now can get.
NextIds == {t \in (clock + MinGap) .. (clock + 1) : t <= MaxClock}

\* mfree of the forms, and _unlink of the files, of killed slots.
FreeForms(S) == [b \in Blocks |-> IF \E k \in S : k.form = b THEN NULL ELSE heap[b]]
Unlinked(S) == [i \in Ids |-> IF \E k \in S : k.id = i THEN NULL ELSE disk[i]]

\* A push at second now onto the array s with top t, and the cache file that
\* StartGetFile or writecache then fills with document d.
PushAndLoad(s, t, now, d) ==
  /\ PageSTACK' = PushPageToStack(s, t, now)
  /\ stack_top' = PushTop(t)
  /\ heap' = FreeForms(KilledBy(s, t))
  /\ disk' = [Unlinked(KilledBy(s, t)) EXCEPT ![now] = d]
  /\ clock' = now

Init ==
  \E d \in Docs :
    /\ PageSTACK = PushPageToStack(InitUrlStack, 0, 1)
    /\ stack_top = 1
    /\ heap = [b \in Blocks |-> NULL]
    /\ disk = [i \in Ids |-> IF i = 1 THEN d ELSE NULL]
    /\ clock = 1
    /\ line = 0
    /\ running = TRUE

\* The array when method2 of the closing view has run.
Saved == setPageParams(PageSTACK, stack_top, line)

\* 0xFF: a link, a form or an address; GotoLink with no position.
Visit ==
  /\ running
  /\ \E now \in NextIds, d \in Docs : PushAndLoad(Saved, stack_top, now, d)
  /\ line' = 0
  /\ UNCHANGED running

\* The cached page below the top t is shown where it was left.
ShowCached(s, t) ==
  /\ PageSTACK' = s
  /\ stack_top' = UpPageStack(t)
  /\ line' = s[t].view_line
  /\ UNCHANGED <<heap, disk, clock, running>>

\* 0xFE: two pops; nothing below the first page, so the browser closes.
Back ==
  /\ running
  /\ PopPageFromStack(stack_top) > 0
  /\ ShowCached(Saved, PopPageFromStack(PopPageFromStack(stack_top)))

\* 0xFD: offered by the key handler only when there is a page ahead.
Forward ==
  /\ running
  /\ CheckPageStackTop(PageSTACK, stack_top)
  /\ CanForward(Saved, PopPageFromStack(stack_top))
  /\ ShowCached(Saved, ForwardPageFromStack(Saved, PopPageFromStack(stack_top)))

\* 0xFB: pop, then a push that keeps the position just saved.
Reload ==
  /\ running
  /\ LET t == PopPageFromStack(stack_top)
     IN  /\ \E now \in NextIds, d \in Docs : PushAndLoad(Saved, t, now, d)
         /\ line' = Saved[t].view_line
  /\ UNCHANGED running

Scroll ==
  /\ running
  /\ line' \in Lines
  /\ UNCHANGED <<PageSTACK, stack_top, heap, disk, clock, running>>

\* The first input on a page allocates its block.
TypeNew ==
  /\ running
  /\ PageSTACK[stack_top - 1].form = NULL
  /\ \E b \in Blocks, f \in Forms :
       /\ heap[b] = NULL
       /\ PageSTACK' = setUserData(PageSTACK, stack_top, b)
       /\ heap' = [heap EXCEPT ![b] = f]
  /\ UNCHANGED <<stack_top, disk, clock, line, running>>

\* A later input overwrites what the block holds.
TypeAgain ==
  /\ running
  /\ PageSTACK[stack_top - 1].form # NULL
  /\ \E f \in Forms : heap' = [heap EXCEPT ![PageSTACK[stack_top - 1].form] = f]
  /\ UNCHANGED <<PageSTACK, stack_top, disk, clock, line, running>>

\* KillAll frees the whole stack.
Quit ==
  /\ running
  /\ running' = FALSE
  /\ PageSTACK' = killpage(PageSTACK, 0 .. (PageSTACK_SIZE - 1))
  /\ heap' = FreeForms(FreePageStack(PageSTACK))
  /\ disk' = Unlinked(FreePageStack(PageSTACK))
  /\ line' = 0
  /\ UNCHANGED <<stack_top, clock>>

Next ==
  \/ Visit \/ Back \/ Forward \/ Reload
  \/ Scroll \/ TypeNew \/ TypeAgain
  \/ Quit

Spec == Init /\ [][Next]_vars
-----------------------------------------------------------------------------
(* PageSTACK and stack_top stay inside the array that InitUrlStack           *)
(* allocates (urlstack.c:241); every access of urlstack.c is in bounds.      *)
TypeOK ==
  /\ PageSTACK \in [Slots -> Slot]
  /\ stack_top \in 1 .. PageSTACK_SIZE
  /\ heap \in [Blocks -> Forms \cup {NULL}]
  /\ disk \in [Ids -> Docs \cup {NULL}]
  /\ clock \in Ids
  /\ line \in Lines \cup {0}
  /\ running \in BOOLEAN

(* The pages are the first slots of the array with no hole among them, the   *)
(* page on screen is one of them, and the spare slot that CheckPageStackTop  *)
(* reads when the stack is full (urlstack.c:201) is empty.                   *)
NoHoles ==
  /\ \A n \in Slots : \A m \in Slots :
       (m < n /\ PageSTACK[n].id # 0) => PageSTACK[m].id # 0
  /\ running => PageSTACK[stack_top - 1].id # 0
  /\ PageSTACK[PageSTACK_SIZE].id = 0

(* A slot without a page owns no form, so a page pushed into it starts with  *)
(* an empty form (urlstack.c:183 kills a slot only when its id is not 0).    *)
EmptySlotsOwnNothing ==
  \A n \in Slots : PageSTACK[n].id = 0 => PageSTACK[n].form = NULL

(* Each live block is the form of exactly one slot: none is leaked, freed    *)
(* twice or shared between two pages by the memmove of urlstack.c:175.       *)
FormsOwnedOnce ==
  /\ \A n \in Slots : PageSTACK[n].form # NULL => heap[PageSTACK[n].form] # NULL
  /\ \A m, n \in Slots :
       (m # n /\ PageSTACK[n].form # NULL) => PageSTACK[m].form # PageSTACK[n].form
  /\ \A b \in Blocks : heap[b] # NULL => \E n \in Slots : PageSTACK[n].form = b

(* The array owns its pages and their forms: the three above together.       *)
PagesOwned == NoHoles /\ EmptySlotsOwnNothing /\ FormsOwnedOnce

(* The cache directory holds the file of every page of the stack and no      *)
(* other file: going back always finds its file, and none is left behind.    *)
CacheMatchesStack ==
  \A i \in Ids : disk[i] # NULL <=> \E n \in Slots : PageSTACK[n].id = i

(* No two pages of the stack share a cache file (urlstack.c:165 makes the    *)
(* name from the second of the push).                                        *)
IdsIncrease ==
  \A m, n \in Slots : (m < n /\ PageSTACK[n].id # 0) => PageSTACK[m].id < PageSTACK[n].id

(* A step never changes what an earlier page will be found with: the file    *)
(* of a page that stays in the stack keeps its document.                     *)
CachedPagesKept ==
  [][\A n \in 0 .. (stack_top' - 2) :
       LET i == PageSTACK'[n].id IN running' => disk'[i] = disk[i]]_vars
-----------------------------------------------------------------------------
(* The history the user sees: slot n of the array as an entry of the list.   *)
PageAt(n) ==
  [doc  |-> disk[PageSTACK[n].id],
   line |-> PageSTACK[n].view_line,
   form |-> IF PageSTACK[n].form = NULL THEN NULL ELSE heap[PageSTACK[n].form]]

PageCount == Cardinality({n \in Slots : PageSTACK[n].id # 0})

Browser == INSTANCE BackForward WITH
  MaxPages <- PageSTACK_SIZE, NoForm <- NULL, NoPage <- NULL,
  past   <- IF running THEN [k \in 1 .. (stack_top - 1) |-> PageAt(k - 1)] ELSE <<>>,
  cur    <- IF running THEN PageAt(stack_top - 1) ELSE NULL,
  future <- IF running
            THEN [k \in 1 .. (PageCount - stack_top) |-> PageAt(stack_top + k - 1)]
            ELSE <<>>

(* With pages at least a second apart, the array, the cache directory and    *)
(* the heap together behave as the browser history of BackForward.           *)
ImplementsBackForward == Browser!Spec
=============================================================================
