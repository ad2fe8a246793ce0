----------------------------- MODULE Navigation -----------------------------
(***************************************************************************)
(* Navigation in BalletMini (BalletMini/main.c) on its two threads.        *)
(*                                                                         *)
(* A key closes the view (method2 saves the position in the page stack),   *)
(* the handler of MSG_GUI_DESTROYED moves the stack and hands GotoFile or  *)
(* GotoLink to HELPER, whose message to the MMI thread opens the next      *)
(* view.  A page from the network is pushed there and then, but for a      *)
(* cached one it is HELPER, in StartGetFile, that calls UpPageStack: until *)
(* then stack_top is one short, and the keys of the view already work.     *)
(*                                                                         *)
(* As in Inet, a handler of the MMI thread is one action and a procedure   *)
(* of HELPER one action per step.  A network page (Inet) is only here as   *)
(* loading: the page that StartINET fetches, or NULL.  PageStack runs the  *)
(* same operators without the threads, with the forms and the positions.   *)
(***************************************************************************)
EXTENDS UrlStack, Integers, Sequences

CONSTANTS MaxClock,       \* bound: pages pushed, one a second
          Worlds          \* what a behaviour may meet: the three operators below

ASSUME ClockAssumption == MaxClock \in Nat \ {0}
ASSUME WorldsAssumption ==
  \A w \in Worlds : w.hurried \in BOOLEAN /\ w.missing \in BOOLEAN /\ w.last \in 1 .. MaxClock

VARIABLES
  PageSTACK, stack_top,       \* urlstack.c
  disk,                       \* page id -> is there a cache file
  got,                        \* history: the pages whose cache file was ever written
  clock,
  view,                       \* the page the view on screen shows, or NULL
  view_url, view_url_mode,    \* a page id, or a file; MODE_FILE or MODE_URL
  STOPPED,
  loading,
  helperq, hp, mmiq,
  running,
  corrupt,                    \* PageSTACK[-1] was written
  trail, pos,                 \* the user's history: page ids, and the cursor
  world                       \* one of Worlds, for good

vars == <<PageSTACK, stack_top, disk, got, clock, view, view_url, view_url_mode, STOPPED,
          loading, helperq, hp, mmiq, running, corrupt, trail, pos>>

HurriedUser == world.hurried    \* keys are pressed before a page has come to rest
FilesMissing == world.missing   \* a local file to open may not exist
LastPush == world.last          \* bound: no page is pushed after this second

Ids == 1 .. MaxClock
NoFile == 0                   \* a local file that cannot be opened
LocalFile == MaxClock + 1     \* a local file that can
Bookmark == -1                \* in the place of a page id: the 0xFA of GotoFile
ASSUME NullIdAssumption == NULL \notin Ids \cup {Bookmark, NoFile, LocalFile}

SUBPROC(proc, arg) == helperq' = Append(helperq, [proc |-> proc, arg |-> arg])
Post(kind, arg) == mmiq' = Append(mmiq, [kind |-> kind, arg |-> arg])

Exists(f) == f = LocalFile \/ (f \in Ids /\ disk[f])

\* The _open that is to make the cache file of a page; nobody looks whether it
\* fails.
Written(id) == disk' = [disk EXCEPT ![id] = TRUE] /\ got' = got \cup {id}
MayWrite(id) == Written(id) \/ UNCHANGED <<disk, got>>

-----------------------------------------------------------------------------
(* The HELPER thread.                                                        *)

Starts(p) == hp = "idle" /\ helperq # <<>> /\ Head(helperq).proc = p /\ running
Arg == Head(helperq).arg
Dequeue == helperq' = Tail(helperq)

\* StartGetFile of a file that opens: a cached page (no fncache) goes up.
StartGetFile ==
  /\ Starts("StartGetFile")
  /\ view_url_mode = "FILE" /\ view_url # NULL /\ Exists(view_url)
  /\ Dequeue
  /\ stack_top' = IF Arg = NULL THEN UpPageStack(stack_top) ELSE stack_top
  /\ IF Arg = NULL THEN UNCHANGED <<disk, got>> ELSE MayWrite(Arg)
  /\ hp' = "reading"
  /\ UNCHANGED <<PageSTACK, clock, view, view_url, view_url_mode, STOPPED, loading, mmiq,
                 running, corrupt, trail, pos>>

\* StartGetFile of a file that does not open (or of a view closed since).
StartGetFileFails ==
  /\ Starts("StartGetFile")
  /\ view_url_mode = "FILE" /\ (view_url = NULL \/ ~Exists(view_url))
  /\ Dequeue
  /\ stack_top' = UpPageStack(stack_top)
  /\ hp' = "reading"
  /\ UNCHANGED <<PageSTACK, disk, got, clock, view, view_url, view_url_mode, STOPPED, loading,
                 mmiq, running, corrupt, trail, pos>>

\* The end of the read loop.
FileRead ==
  /\ hp = "reading" /\ running
  /\ STOPPED' = TRUE
  /\ Post("DATA_END", NULL)
  /\ hp' = "idle"
  /\ UNCHANGED <<PageSTACK, stack_top, disk, got, clock, view, view_url, view_url_mode, loading,
                 helperq, running, corrupt, trail, pos>>

\* StartGetFile of a network page: StartINET.  Inet is busy (its connect_state
\* is not here: it may be so or not), and nothing happens, not even STOPPED; there
\* is no GPRS, or no url; or the request is made.  Only the last makes a file.
StartINET ==
  /\ Starts("StartGetFile")
  /\ view_url_mode = "URL"
  /\ Dequeue
  /\ \/ UNCHANGED <<STOPPED, loading, disk>>
     \/ STOPPED' = TRUE /\ UNCHANGED <<loading, disk>>
     \/ /\ view_url # NULL
        /\ loading' = Arg
        /\ disk' = [disk EXCEPT ![Arg] = FALSE]
        /\ UNCHANGED STOPPED
  /\ UNCHANGED <<PageSTACK, stack_top, got, clock, view, view_url, view_url_mode, hp, mmiq,
                 running, corrupt, trail, pos>>

\* Inet brings data, which makes the cache file when it can be made; and the end
\* of the page, with a file or without, when free_socket stops it.
DataArrives ==
  /\ loading # NULL /\ ~disk[loading] /\ running
  /\ Written(loading)
  /\ UNCHANGED <<PageSTACK, stack_top, clock, view, view_url, view_url_mode, STOPPED, loading,
                 helperq, hp, mmiq, running, corrupt, trail, pos>>

PageArrives ==
  /\ loading # NULL /\ running
  /\ loading' = NULL
  /\ STOPPED' = TRUE
  /\ Post("DATA_END", NULL)
  /\ UNCHANGED <<PageSTACK, stack_top, disk, got, clock, view, view_url, view_url_mode,
                 helperq, hp, running, corrupt, trail, pos>>

StopINET ==
  /\ Starts("StopINET")
  /\ Dequeue
  /\ loading' = NULL
  /\ STOPPED' = TRUE
  /\ UNCHANGED <<PageSTACK, stack_top, disk, got, clock, view, view_url, view_url_mode, hp, mmiq,
                 running, corrupt, trail, pos>>

\* GotoFile and GotoLink: a message to the MMI thread.
Goto ==
  /\ \/ Starts("GotoFile") /\ Post("GOTO_FILE", Arg)
     \/ Starts("GotoLink") /\ Post("GOTO_URL", Arg)
  /\ Dequeue
  /\ UNCHANGED <<PageSTACK, stack_top, disk, got, clock, view, view_url, view_url_mode, STOPPED,
                 loading, hp, running, corrupt, trail, pos>>

Helper == \/ StartGetFile \/ StartGetFileFails \/ FileRead \/ StartINET \/ StopINET \/ Goto

-----------------------------------------------------------------------------
(* The MMI thread.                                                           *)

Handles(kind) == mmiq # <<>> /\ Head(mmiq).kind = kind /\ running
Consume == mmiq' = Tail(mmiq)

\* A new page: the user's history loses what was ahead, and its oldest page
\* when the stack is full.
Remember(id) ==
  LET kept == Append(SubSeq(trail, 1, pos), id)
  IN  /\ trail' = IF Len(kept) > PageSTACK_SIZE THEN Tail(kept) ELSE kept
      /\ pos' = Len(trail')

\* method1 of a view that is not cached.
OpenPushed(url, mode) ==
  /\ clock < LastPush
  /\ clock' = clock + 1
  /\ PageSTACK' = PushPageToStack(PageSTACK, stack_top, clock')
  /\ stack_top' = PushTop(stack_top)
  /\ disk' = [i \in Ids |-> disk[i] /\ \A k \in KilledBy(PageSTACK, stack_top) : k.id # i]
  /\ STOPPED' = FALSE
  /\ view' = clock'
  /\ view_url' = (IF url = NULL THEN clock' ELSE url)
  /\ view_url_mode' = mode
  /\ SUBPROC("StartGetFile", clock')
  /\ Remember(clock')

\* IPC_GOTO_URL.
OnGotoUrl ==
  /\ Handles("GOTO_URL")
  /\ Consume
  /\ OpenPushed(NULL, "URL")
  /\ UNCHANGED <<got, loading, hp, running, corrupt>>

\* IPC_GOTO_FILE with 0xFA: a local file.
OnGotoLocalFile ==
  /\ Handles("GOTO_FILE")
  /\ Head(mmiq).arg = Bookmark
  /\ Consume
  /\ \E f \in IF FilesMissing THEN {LocalFile, NoFile} ELSE {LocalFile} :
       OpenPushed(f, "FILE")
  /\ UNCHANGED <<got, loading, hp, running, corrupt>>

\* IPC_GOTO_FILE of a cached page.
OnGotoCached ==
  /\ Handles("GOTO_FILE")
  /\ Head(mmiq).arg # Bookmark
  /\ Consume
  /\ STOPPED' = FALSE
  /\ view' = Head(mmiq).arg
  /\ view_url' = Head(mmiq).arg
  /\ view_url_mode' = "FILE"
  /\ SUBPROC("StartGetFile", NULL)
  /\ UNCHANGED <<PageSTACK, stack_top, disk, got, clock, loading, hp, running, corrupt, trail, pos>>

\* IPC_DATA_END only touches the view.
OnDataEnd ==
  /\ Handles("DATA_END")
  /\ Consume
  /\ UNCHANGED <<PageSTACK, stack_top, disk, got, clock, view, view_url, view_url_mode, STOPPED,
                 loading, helperq, hp, running, corrupt, trail, pos>>

\* MSG_GUI_DESTROYED, by the code the view was closed with.
OnDestroyed(code) ==
  /\ Handles("GUI_DESTROYED") /\ Head(mmiq).arg = code
  /\ Consume
  /\ UNCHANGED <<PageSTACK, disk, got, clock, view, view_url, view_url_mode, STOPPED, loading, hp,
                 corrupt, trail, pos>>

\* 0xFF
OnDestroyedGo ==
  /\ OnDestroyed("go")
  /\ SUBPROC("GotoLink", NULL)
  /\ UNCHANGED <<stack_top, running>>

\* 0xFA
OnDestroyedBookmark ==
  /\ OnDestroyed("bookmark")
  /\ SUBPROC("GotoFile", Bookmark)
  /\ UNCHANGED <<stack_top, running>>

\* 0xFB
OnDestroyedReload ==
  /\ OnDestroyed("reload")
  /\ stack_top' = PopPageFromStack(stack_top)
  /\ SUBPROC("GotoLink", NULL)
  /\ UNCHANGED running

\* mutant: one pop
OnDestroyedBackOnce ==
  /\ OnDestroyed("back")
  /\ stack_top' = PopPageFromStack(stack_top)
  /\ IF stack_top = 0
     THEN running' = FALSE /\ UNCHANGED helperq
     ELSE SUBPROC("GotoFile", PageSTACK[stack_top'].id) /\ UNCHANGED running

\* 0xFE
OnDestroyedBack ==
  /\ OnDestroyed("back")
  /\ LET t == PopPageFromStack(stack_top)
     IN  /\ stack_top' = PopPageFromStack(t)
         /\ IF t = 0
            THEN running' = FALSE /\ UNCHANGED helperq
            ELSE SUBPROC("GotoFile", PageSTACK[stack_top'].id) /\ UNCHANGED running

\* mutant: without "goto L_CLOSE"
OnDestroyedForwardStays ==
  /\ OnDestroyed("forward")
  /\ LET t == PopPageFromStack(stack_top)
     IN  /\ stack_top' = ForwardPageFromStack(PageSTACK, t)
         /\ IF CanForward(PageSTACK, t)
            THEN SUBPROC("GotoFile", PageSTACK[stack_top'].id)
            ELSE UNCHANGED helperq
  /\ UNCHANGED running

\* 0xFD
OnDestroyedForward ==
  /\ OnDestroyed("forward")
  /\ LET t == PopPageFromStack(stack_top)
     IN  /\ stack_top' = ForwardPageFromStack(PageSTACK, t)
         /\ IF CanForward(PageSTACK, t)
            THEN SUBPROC("GotoFile", PageSTACK[stack_top'].id) /\ UNCHANGED running
            ELSE running' = FALSE /\ UNCHANGED helperq

\* L_CLOSE
OnDestroyedQuit ==
  /\ OnDestroyed("quit")
  /\ running' = FALSE
  /\ UNCHANGED <<stack_top, helperq>>

Mmi ==
  \/ OnGotoUrl \/ OnGotoLocalFile \/ OnGotoCached \/ OnDataEnd
  \/ OnDestroyedGo \/ OnDestroyedBookmark \/ OnDestroyedReload
  \/ OnDestroyedBack \/ OnDestroyedForward \/ OnDestroyedQuit

-----------------------------------------------------------------------------
(* Keys.                                                                     *)

AtRest == helperq = <<>> /\ hp = "idle" /\ mmiq = <<>> /\ loading = NULL

MayPress == running /\ view # NULL /\ (HurriedUser \/ AtRest)

\* method2: the view closes.  setPageParams writes the slot below the top.
CloseView(code) ==
  /\ MayPress
  /\ STOPPED' = TRUE
  /\ SUBPROC("StopINET", NULL)
  /\ corrupt' = (corrupt \/ stack_top = 0)
  /\ view' = NULL
  /\ view_url' = NULL
  /\ Post("GUI_DESTROYED", code)
  /\ UNCHANGED <<PageSTACK, stack_top, disk, got, clock, view_url_mode, loading, hp, running>>

\* A link, a form, an address.
KeyGo ==
  /\ clock < LastPush
  /\ CloseView("go")
  /\ UNCHANGED <<trail, pos>>

\* An .oms file among the bookmarks.
KeyBookmark ==
  /\ clock < LastPush
  /\ CloseView("bookmark")
  /\ UNCHANGED <<trail, pos>>

KeyReload ==
  /\ clock < LastPush
  /\ CloseView("reload")
  /\ pos' = IF pos > 0 THEN pos - 1 ELSE 0
  /\ UNCHANGED trail

\* cfgKeyBack: the first press stops a page that loads.
KeyBack ==
  /\ STOPPED
  /\ CloseView("back")
  /\ pos' = IF pos > 0 THEN pos - 1 ELSE 0
  /\ UNCHANGED trail

KeyStop ==
  /\ MayPress /\ ~STOPPED
  /\ IF view_url_mode = "URL"
     THEN /\ \A i \in DOMAIN helperq : helperq[i].proc # "StopINET"   \* bound: one Stop
          /\ SUBPROC("StopINET", NULL)
          /\ UNCHANGED STOPPED
     ELSE /\ STOPPED' = TRUE
          /\ UNCHANGED helperq
  /\ UNCHANGED <<PageSTACK, stack_top, disk, got, clock, view, view_url, view_url_mode, loading,
                 hp, mmiq, running, corrupt, trail, pos>>

\* cfgKeyMenu
KeyMenu ==
  /\ MayPress /\ ~STOPPED
  /\ STOPPED' = TRUE
  /\ UNCHANGED <<PageSTACK, stack_top, disk, got, clock, view, view_url, view_url_mode, loading,
                 helperq, hp, mmiq, running, corrupt, trail, pos>>

KeyQuit ==
  /\ CloseView("quit")
  /\ UNCHANGED <<trail, pos>>

KeyForward ==
  /\ CheckPageStackTop(PageSTACK, stack_top)
  /\ CloseView("forward")
  /\ pos' = IF pos < Len(trail) THEN pos + 1 ELSE pos
  /\ UNCHANGED trail

Keys == KeyGo \/ KeyBookmark \/ KeyReload \/ KeyBack \/ KeyForward
        \/ KeyStop \/ KeyMenu \/ KeyQuit

-----------------------------------------------------------------------------
\* maincsm_oncreate: the start page, an .oms file or an address.
Init ==
  /\ world \in Worlds
  /\ PageSTACK = PushPageToStack(InitUrlStack, 0, 1) /\ stack_top = 1
  /\ disk = [i \in Ids |-> FALSE] /\ got = {}
  /\ clock = 1
  /\ view = 1
  /\ \/ view_url = 1 /\ view_url_mode = "URL"
     \/ view_url = LocalFile /\ view_url_mode = "FILE"
     \/ FilesMissing /\ view_url = NoFile /\ view_url_mode = "FILE"
  /\ STOPPED = FALSE
  /\ loading = NULL
  /\ helperq = <<[proc |-> "StartGetFile", arg |-> 1]>> /\ hp = "idle" /\ mmiq = <<>>
  /\ running = TRUE /\ corrupt = FALSE
  /\ trail = <<1>> /\ pos = 1

Network == DataArrives \/ PageArrives

Next == UNCHANGED world /\ (Helper \/ Mmi \/ Keys \/ Network)

Spec == Init /\ [][Next]_<<vars, world>>

\* Both threads are scheduled.  The network may never answer.
FairSpec == Spec /\ WF_vars(Helper) /\ WF_vars(Mmi)
-----------------------------------------------------------------------------
(* Properties.                                                               *)

\* The variables keep to their types; stack_top stays inside the array, so
\* that every push, pop and check of urlstack.c reads and writes a slot.
TypeOK ==
  /\ stack_top \in 0 .. PageSTACK_SIZE
  /\ \A n \in Slots : PageSTACK[n].id \in Ids \cup {0}
  /\ view \in Ids \cup {0, NULL} /\ loading \in Ids \cup {NULL}
  /\ view_url \in Ids \cup {NULL, NoFile, LocalFile}
  /\ \A i \in DOMAIN helperq : helperq[i].arg \in Ids \cup {0, NULL, Bookmark}
  /\ hp \in {"idle", "reading"} /\ pos \in 0 .. PageSTACK_SIZE

\* Once both threads are idle, the two halves of each navigation have left
\* the stack as the user's history: the same pages in the same slots, the
\* top just above the page on screen, and that page the one the user's keys
\* lead to: Back shows the previous page (main.c:1540), Forward the next one,
\* Reload the same slot.  The Forward key is live exactly when there is a page
\* to go forward to.
InPlace ==
  AtRest /\ view # NULL =>
    /\ stack_top = pos
    /\ \A n \in Slots : PageSTACK[n].id = IF n < Len(trail) THEN trail[n + 1] ELSE 0
    /\ pos \in DOMAIN trail /\ view = trail[pos]
    /\ CheckPageStackTop(PageSTACK, stack_top) <=> pos < Len(trail)

\* setPageParams (urlstack.c:98) never runs on an empty stack, where it would
\* write PageSTACK[-1].  A page may have got no cache file (no GPRS, no answer, a
\* file that could not be made: Back then opens nothing), but the files there are
\* those of the pages in the user's history that ever got one: killpage removes
\* no file of a page that stays, StartINET none that a Back could open, and no
\* file outlives its page.
CacheFound ==
  /\ ~corrupt
  /\ running => \A i \in Ids : disk[i] <=> i \in got /\ \E n \in DOMAIN trail : trail[n] = i

\* A user who lets each page come to rest is owed both, where the local files
\* are; nav_unloaded shows that only he is.
PatientUser == ~HurriedUser /\ ~FilesMissing
PatientInPlace == PatientUser => InPlace
PatientCache == PatientUser => CacheFound

\* However the keys and the threads interleave, the pages of the array are
\* in the order they were pushed: no two slots share an id, hence a cache
\* file, and nothing above the top is older than what is below it.
IdsIncrease ==
  \A m, n \in Slots : m < n /\ PageSTACK[m].id # 0 /\ PageSTACK[n].id # 0
                       => PageSTACK[m].id < PageSTACK[n].id

\* A navigation ends with a view on screen or the browser closed.
ViewOpens == (running /\ view = NULL) ~> (~running \/ view # NULL)
=============================================================================
