# A TLA+ model of the elfs for Siemens phones

The repository holds small programs ("elfs") that run inside the firmware of
Siemens phones. Almost all of its own logic is in **BalletMini**, a browser for
the Opera Mini protocol; the others are tools of a few hundred lines. This
directory models BalletMini and four of the tools, checks the models with TLC
and proves properties of the page stack, the connection, navigation, the parser,
the layout, the forms, the bookmarks, the history of addresses and two tools with
TLAPS.

## The system

| component | source | state | operations |
|---|---|---|---|
| page stack | `urlstack.c` | `PageSTACK[PageSTACK_SIZE+1]`, `stack_top`; the files `<id>.oms` of the cache; the forms' blocks | push, pop, forward, up, parameters, user text and lists, free |
| connection | `inet.c` | `sock`, `connect_state`, `receive_mode`, `URL`, `FNCACHE`, the queues, `DNR_ID`, `DNR_TRIES`, the resend timer | connect (with DNS), send, receive, close, stop; the socket events |
| navigation and view life | `main.c` | `view_url`, `view_url_mode`, `goto_url`, `STOPPED`, `TERMINATED`, the ids of the views | the keys, the methods of the view, `StartGetFile`, the messages of the MMI thread |
| OMS parser | `parse_oms.c`, `additems.c` | the structure `VIEWDATA`: the data and the place in it, the state of the tag being read, the page's text, references, styles and pictures | `OMS_DataArrived` for each piece |
| layout | `display_utils.c`, `main.c` | the line cache, `view_line`, `pixdisp`, the cursor `pos_cur_ref` | `LineUp`, `LineDown`, `RenderPage`, `scrollUp`, `scrollDown`, the search |
| forms, uploads | `main.c`, `display_utils.c`, `additems.c`, `upload.c`, `fileman.c` | the references of the page, the dialog that is open, `goto_url`, `goto_params`, `from_url` | Enter on each control, the dialogs, `collectItemsParams`, `FillFileData` |
| menus, bookmarks, input history | `mainmenu.c`, `history.c` | the list `bl_top` and the folder it shows; the file of addresses | open, choose, options, edit, delete; visit, show |
| conversions | `url_utils.c`, `string_works.c` | none | escape, unescape, 8 and 16 bits, UTF-8 |
| tools | `KillSwitch`, `FlashBenchmark`, `FontExtractor`, `LCD_JBT6K71_Tuner` | a timer or a helper thread, a few settings | keys, the timer, reconfiguration |
| the rest | images, `lang.c`, configuration, random numbers, `KeypadTester`, `JVMSettings`, `ftdemo` | tables | see *Not modelled* |

**How they interact.** Two threads run the browser. The *MMI* thread handles
keys and messages: the socket events of the firmware, `IPC_DATA_ARRIVED` and
`IPC_DATA_END` for the view, `IPC_GOTO_URL` and `IPC_GOTO_FILE` to open the next
view, `MSG_GUI_DESTROYED` when one has closed. The *HELPER* thread runs, in
order, the procedures handed to `SUBPROC`: reading a cached page, all the calls
on sockets, the cache file. They share the statics of `inet.c`, the page stack,
`view_url` and `STOPPED` without a lock; `LockSched` is taken by HELPER around
the console text and around "test `STOPPED`, then send", never by the MMI.
Parser, layout, forms and menus run on the MMI thread; what they meet is not
another thread but another event: the page still arrives while a dialog is
open, another program changes the folder a menu shows.

**What is hard.** One navigation is spread over both threads (the key, the
closing of the view, a helper procedure, a message, the opening of the view,
another helper procedure), with keys accepted in between; the socket events of
a closed connection arrive when the next one is being set up; a page left early,
a lookup answered late, a partial send; a page that may be cut anywhere; a
position kept for text that is laid out again; a request counted in one pass and
written in another. The hazards are listed, at their lines, in `PROJECT.json`.

**What makes each part correct.** The stack: the user's history, in bounds, with
the cache directory and the heap in step with it. The connection: each answer
reaches its own page, whole and in order, and each page ends. Navigation: the
keys lead where the history says. The parser: the page is the one that was sent,
however the answer is cut and compressed, and nothing is read before it has
arrived. The layout: a view is a window on the page, the same however the page
arrived. A form: what is sent is what is shown, and what was entered is there
again. The stores: the menu shows the folder, a step changes the entry it names,
the history is a list of the most recent addresses.

## Modules

| module | models |
|---|---|
| **UrlStack** | `urlstack.c` as operators on the array `s` and the top `t`, without variables: the sequential and the concurrent model use the same ones. `view_line` and `pos_cur_ref` are one field, the text and list inputs one block. |
| **PageStack** | The navigations of `main.c` run to completion one after the other, over the array, the heap of forms (`heap`), the cache directory (`disk`) and the clock that names the files. |
| **BackForward** | Abstract: a bounded list with a cursor. PageStack implements it: slots below the top are the past, those above it the future. |
| **Inet** | `inet.c` with the part of `main.c` that drives it. A handler of the MMI thread is one action; a procedure of HELPER is one action per step another thread can come between (`hp` is its program counter). The firmware and the proxy server are external: a socket's life is `new, connecting, open, remoteClosed, closing`, each event becomes a message. An answer is a sequence of pieces tagged with the request they answer, so that mixing, tearing and loss are visible. |
| **Navigation** | The two halves of each navigation on the two threads over the page stack, with `trail` and `pos`, the history the user sees, and `got`, the pages that ever had a cache file, as ghosts. Inet is a part that may be busy, find no GPRS, bring a page, or bring none. |
| **ViewData** | `additems.c` as operators on the record `vd`, the structure `VIEWDATA`: text, styles, references, pictures and controls. The text is a sequence of symbols, one for each 16-bit character. |
| **ParseOms** | `OMS_DataArrived` as a state machine: `Receive` puts a piece behind what has arrived (through zlib for a compressed page), each pass of the loop is a `ParseStep`, `Finish` leaves the loop or, with `L_ZNEXT`, asks zlib for more. The code's `OMS_TAGx_STAGE3` is `<<"STAGE3", "x">>`; stages and tags that do the same to the place in the data share an action. |
| **OmsPages** | External: pages as the server writes them, of the orders of tags listed at `parse_oms.c:1-44`, with the text and references a reader is to get: what the parser's result is compared with. |
| **Layout** | `LineDown`, `LineUp`, `RenderPage`, `scrollDown`, `scrollUp`, the references in view and `FindStringOnPage` as operators on the layout part of `VIEWDATA`. A symbol is a letter, a blank, a newline, a picture with its size, a mark of a reference or of a style. |
| **PageView** | Layout driven: pieces of a page arrive, keys move view and cursor, a search, a jump; the page is left and visited again, with what the page stack kept. |
| **Form** | Abstract: the values of the controls of a page, the entries that are kept, the request. |
| **Forms** | Enter on each kind of control, the dialogs and what they hold, `collectItemsParams`, the files of `upload.c`, the entries in the page's slot of the stack, the unsigned shorts in which a menu holds the places of the options. Implements Form. |
| **UrlText** | Pure operators: escapes, the two tables of `url_utils.c`, `char8to16`, `char16to8`, `ToWeb`, `utf82win`. |
| **BookmarkStore** | Abstract: a set of entries with unique paths; a request that is done adds, changes, moves or removes the entry it is about, one that failed spoils no more than that entry. |
| **Bookmarks** | The bookmark menu, its options and its dialog over the folder `disk`, which other programs change too; each file call of a request may fail, and the code goes on. Implements BookmarkStore. |
| **RecentList** | Abstract: a list without repetitions, newest first, cut at a depth, that may be lost as a whole. |
| **UrlHistory** | `AddURLToHistory`, `GetHistory` and the menu over the file. Implements RecentList. |
| **KillSwitch** | The daemon: a timer that samples the keys at two rates, and the update of its settings, port by port. |
| **LcdTuner** | Keys, timer and the job on the helper thread, with the busy bus and the firmware's initialisations of the display. |
| **FlashBenchmark** | The keys on one thread, the test on the other, each file call with every outcome. |
| **FontExtractor** | `gui_onredraw`: symbols drawn in one redraw and read back in the next; icons are only printed, by both. |
| **PageStackProofs, NavigationProofs, InetProofs, InetCacheProofs, PageTextProofs, FormsProofs, StoresProofs, ToolsProofs** | The theorems. |
| **MC...** | The instances TLC checks. |

In a module the operators marked *mutant* are not part of the model: each is a
definition with a plausible bug, and shows that a property notices it.

**Worlds.** Inet and Navigation take a set `Worlds`; a behaviour picks one at its
start and keeps it. A world says what may happen: whether the user presses keys
while a request is still being set up or a page is still read (`hurried`),
which calls fail, whether the proxy is given by number or name, in how many
pieces a request leaves, whether files may be missing. One run so covers several
sets of assumptions, and a property that needs one of them names it.

## Runs

| run | shows | instance |
|---|---|---|
| page_stack | array, heap and cache consistent after any sequence of navigations; BackForward implemented | stack of 3, 5 pages, 2 documents, 2 positions, 2 inputs, 3 blocks |
| inet | answers neither torn nor mixed; never two sockets; `StartINET` overwrites nothing; a page that ends is complete in its cache file; nothing after the end | 2 pages, 2 sockets, 1 Stop; world *Hurried*: keys at any time, every call may fail, requests of 2 pieces; world *Patient*: the proxy is a name, lookups are answered at once, late or not, headers of 2 pieces |
| inet_live | every page that is opened ends, is stopped or is left | nothing fails, fair |
| inet_dns_hangs | violated: see *Findings* | the proxy is a name |
| navigation | for a user who waits, stack, screen and cache files in step, whatever the network and the disk answer; for any user the stack in bounds and in order; every navigation opens a view or closes the browser | stack of 3; 6 pages, or 4 with a hurried user and missing files; fair |
| nav_unloaded | violated: see *Findings* | hurried user |
| parse | the page is the one that was sent; nothing is read before it has arrived; a delivered page is parsed to its end | pages of one or two orders of tags, 4 kinds, and pages to be given up; pieces of 1, 2, 3, 7 and 64 bytes; 3 icons; fair |
| layout | the cache of lines is sound; lines do not depend on the cuts; scrolling is exact; the cursor reaches every reference; a search shows what it finds; Back finds the place | 4 pages of up to 30 symbols on a screen 6 letters wide and 4 lines high, 2 visits |
| forms | the request carries the values on the screen, entries are kept, files fit: Form implemented | 3 forms with every kind of control, 2 requests |
| stores | the menu shows the folder; BookmarkStore and RecentList implemented; conversions as meant | 3 names of which 2 differ in case only, 3 files with 2 of the names at a time; 4 addresses, depths 0, 2, 3; texts of up to 4 of 8 characters |
| bookmark_escapes | violated: see *Findings* | a bookmark to `A%2B` |
| tools | a reset needs a full hold and comes of one; the display ends with the settings; a test moves data only while its buffer is there; a font's symbols are printed once each, its icons by both redraws | two combinations and rates; 3 keys and 2 initialisations; tests of 2 chunks; 2 fonts of 6 symbols |

The programs of *tools* and the parts of *stores* share nothing: `chosen` says
which one a behaviour is about, so each is explored alone.

**Bounds and why they are enough.** A stack of three slots has a first, a middle
and a last one and overflows at the fourth page; five pages let it overflow
twice and be walked back. Two pages and two sockets let every event of one
connection meet every step of the next; a third page would meet the first
only through a message still queued, which the order of the queues excludes.
A request of two pieces has a partial send. `stops`, `MaxClock`, `last`,
`NumPages`, `MaxVisits`, `MaxSubmits`, `MaxFiles`, `MaxNames`, `MaxLen`, `MaxReconfs`,
`MaxKeys`, `MaxReinits` and `MaxRedraws` are named in the guards that use them.
`CHECK_DEADLOCK FALSE`: the programs may be closed, and the bounds end every
behaviour.

A page of the parser's run is a title and one or two of the known orders of
tags. What a tag leaves for the next one is in a few fields (the reference begun,
the style in force, the pictures, the counters of `i` and `o`), so a pair shows
it; the second of a pair is one that looks back at them. Every string has one
byte, that of a name its own, so that a string taken for another shows, and the
headers are of three and two bytes instead of the sizes of their structures:
what matters is that a piece can end inside them. The pieces reach every cut of
a page, and 64 bytes many tags at once. Compressed pages give one or three
bytes for each byte sent, at once or all at the last: then `inflate` has more
than its buffer holds. `UINT` is where an unsigned counter wraps, and stands
for 2^32: it has to be more than the pictures of a page. Three icons are enough
for most pages and too few for some.

The pages of the layout's run are prose with a link that is wrapped, pictures of
three heights (one more than the screen), a style that changes within a line,
and a list of links longer than the screen; a piece may end between any two
groups of symbols the parser adds at once. Scroll keys move three pixels over
lines of two and more, so that every rest of a line occurs. The forms have two
files of which the sizes are 0, 1, less than a buffer, more than one, or the file is gone.
`SHORT` is where an unsigned short wraps, and stands for 65536: the options are at places
below it, and with `SHORT = 7` TLC finds one that is taken for another.
The texts of `stores` are made of a percent sign, hexadecimal digits, a reserved
and an unsafe character, and the letters at the ends of each row of the
alphabet and outside it: four characters hold an escape and what follows it.

**Assumptions.** A handler of the MMI thread is not interrupted by itself. A
socket number is not given out again while an event for it is undelivered. One
`recv` per data event; the firmware's resolver knows a host once it has answered
for it, and may forget it. In the hurried world `connected` may arrive before
`connect` returns (`fast`). A user who is not hurried presses a key in Inet only
once the request of the page has been built, in Navigation only once both
threads are idle, in Forms opens a list or a file dialog only once the page is
whole, and attaches a file with its field on the screen (`ScrolledUser = FALSE`). The properties that need such a user say so (`PatientInPlace`,
`PatientCache`, `CacheComplete`, the second half of `UrlHeld`); `InOrder`,
`Isolation` and `OneSocket` are checked for a hurried user with a proxy given by number.

A page in order follows the known orders; `inflate` takes all it is given and
no piece is empty. An index of the tag `Y` is one of a style already sent.
Pictures can be decoded, frames are narrower than the screen, and the firmware
gives no icon twice. In Layout no symbol is
wider than the screen: the parser cuts pictures and texts down to it
(`additems.c:146`, `additems.c:396`), and the server is told the width (`inet.c:442`). In Forms
connections succeed (`Connections`) and the options of a page are at places below
65536 (`NearPages`). In Navigation a network page may find Inet busy, no GPRS, no
answer, or an answer without a body, and a cache file may not be made. In
Bookmarks reading the folder succeeds, every other file call may fail.
FlashBenchmark's `malloc` of a chunk (`main.c:64`, unchecked) succeeds.

**Fairness.** Liveness is checked under weak fairness of HELPER, of the MMI
thread and, in Inet, of the network: the firmware schedules both
threads and delivers their queues in order, and "a fair network" means that a
connection that was begun succeeds and a server that was asked answers. In
Navigation the network may never answer: a view opens, or the browser closes, all the same. The user
is never fair. In the parser's run the MMI thread goes on with a call of
`OMS_DataArrived`, which is a loop without waiting, and the rest of the page is
delivered. In LcdTuner the timer expires and the queued jobs run (weak); the
write of a job that finds the bus free is *strongly* fair: the bus is busy in turns
and the job tries again at each expiry of the timer, so that it does not meet
a busy bus for ever. Without this the display may stay behind the settings.

## Findings

1. *inet_dns_hangs.* `DNR_TRIES` is set to 0 by the first successful lookup
   (`inet.c:115`) and never reset; every later answer is dropped at `inet.c:532`,
   and a page whose lookup had to wait stays as it is.
2. *nav_unloaded.* `UpPageStack` for a cached page runs on HELPER (`main.c:116`);
   leaving the page before it does shifts the stack (`ToDo.txt:4`: "the stack goes
   wrong if the page is not fully loaded").
3. *bookmark_escapes.* The dialog shows a bookmark decoded (`mainmenu.c:317`) and
   stores what it encodes again (`mainmenu.c:181`): confirming a bookmark to
   `a%2Bb` unchanged makes it `a+b`. The comment at `url_utils.c:296` warns of
   this order.

Other things the models or the reading of the code show, without a run of their own:

- *Connection.* A `StopINET` that runs between `StartINET` and `SendPost` frees
  `URL`; `SendPost` then reads `strlen(URL)` of a null pointer (`inet.c:360`). The
  `free_socket` of the page before sets `STOPPED` (`inet.c:197`) for whatever page
  is on screen, which then stays blank while its cache file fills (`ToDo.txt:86`
  asks about "blank pages"). `create_connect` returns without `STOPPED` when the
  network or the socket is not there (`inet.c:62`): the page shows as loading
  until Stop. With a proxy given by name *and* a hurried user the second
  `create_connect` overwrites `sock`, and `InOrder` and `Isolation` fail.
- *Navigation.* A start page or bookmark that does not open counts twice on the
  stack (`main.c:116`); Back then leads to slot 0, `0.oms`. `PageSTACK_SIZE` is
  read again when the configuration is reloaded (`main.c:1520`) while the array
  keeps its size. A page without a cache file - GPRS was off or Inet busy when it was opened
  (`inet.c:605`), it had no body, or its file could not be made - does not open on Back
  or Forward. With GPRS off such a page is at rest at once; with Inet busy it shows as
  loading until Stop, since `STOPPED` is left as it is. `view_url` is read by HELPER while `method2` may free it
  (`main.c:79`). Reload of a local page gives `GotoLink` a file name (`main.c:913`).
- *Layout.* A picture wider than the screen would make a line that takes no symbol, and
  `while(LineDown)` would go on (`display_utils.c:187`); so would a bold font much wider
  than the plain one (`display_utils.c:152`): a line that overflows is measured backwards
  with the font at its end and without a look at where it began. With bold letters
  six times as wide TLC finds a line that gives back all it took.
  With word wrap the scan passes the right edge before it looks back for a blank.
  The key for the end of the page stops a line short of where
  `scrollDown` stops (`main.c:1092`). A jump leaves `pixdisp`, which may be more
  than the new top line is high. Where a line with bold letters ends depends on
  where the page was cut. `RenderPage` says 1 or 2 in its comment and returns
  1 or 0. The search goes on behind the symbol that differed and passes over
  overlapping matches (`display_utils.c:1684`). On a page whose last line has no end yet and turns
  bold in its middle, a search may show the line before the match: the redraw scans the
  last line again, with bold letters from its start, and cuts it (`display_utils.c:69`). The cursor may rest on a reference
  whose end has not arrived (`display_utils.c:729`). `form_data` and `rcs` have 32
  places and nothing counts them (`display_utils.c:466`).
- *Forms.* Where no connection is made `from_url` and `goto_params` stay and go with
  the next ordinary link (`inet.c:451`; `Connections = BOOLEAN` in MCForms.cfg shows
  it). A list opened while the page arrives moves the parser's place
  (`display_utils.c:1494`), and a file chosen then is written through a pointer into
  an array that may have moved (`fileman.c:313`; `HurriedUser = TRUE` shows both). The
  field of a file is `pos_prev_ref`, the last reference drawn before the cursor
  (`main.c:700`). What is drawn before the cursor's reference is a run of references
  that ends right before it, so this is the field or, scrolled off the screen, nothing: a null
  pointer for `PrepareFileForUpload` to write through (`upload.c:13`; `ScrolledUser = TRUE`).
  The menu of a list has the place of an option in an `unsigned short`
  (`display_utils.c:1359`): on a page of more than 65535 bytes another piece of
  the page is kept and sent (`SHORT = 7`). Two
  files share one `filesize` (`upload.c:9`): `UploadFits` is claimed for one file, or
  where all can be sent.
- *Stores.* Nobody looks whether `_unlink` of an edited bookmark succeeded
  (`mainmenu.c:178`): the new file is written all the same, and a bookmark that was
  renamed is there twice. `ToDo.txt:81` has it among the open items ("a change of a
  bookmark's name makes two bookmarks with different names"). `ImplementsStore` allows it where
  that call fails (`removed` of `BookmarkOk` is false), and only there: by the model a failed call
  is the one way to the two. Editing a bookmark unlinks it before it is written (`mainmenu.c:178`) and
  opens the file without `A_Truncate`, so that over an old file that stayed a shorter address
  leaves the end of the longer one; the failures of `_mkdir` and `fmove` are not shown;
  a change of case alone is refused; renaming a saved page loses its
  extension; an empty folder offers no options; `selected_search_engine` may be -1.
  The history is unlinked before it is written (`history.c:176`); with an empty file
  `history[0]` is a null pointer (`history.c:153`); its menu frees by the depth of
  the moment (`mainmenu.c:1385`); what is beyond 32768
  bytes of the file is lost.
- *Conversions.* Unlisted characters from 169 to 191 become `c-168` in `char8to16`;
  `ToWeb` drops the Ukrainian letters; the source is UTF-8 and the compiler cuts
  the constants of the letter Yo to their last byte, so that this letter is not
  shown as it was sent (`TypedArrives` leaves it out); `utf82win` reads on behind a title
  that ends inside a character (`string_works.c:236`).
- *Tools.* KillSwitch reads the two halves of its clock one after the other
  (`stopwatch.c:18`). FontExtractor prints each icon in the drawing redraw and again in the reading
  one (`main.c:100`). FlashBenchmark does not look whether `malloc` gave it a buffer
  (`main.c:64`), it loops for ever on a full disk or a short file (`main.c:81`), `written * 1000` overflows from 2 MB on (`main.c:102`), and its window
  may close before the buffer is freed (`main.c:103`). A job of the LCD tuner may still
  wait when the program is unloaded (`main.c:121`). The array of a list is never
  freed: the `else` at `destructors.c:43` belongs to the inner `if`.

## Proofs

Every theorem holds for every value of the constants that satisfies the named
assumptions of the modules. What the assumptions ask for is what the code has: a
stack of at least two slots, a null pointer that is no block, no page and no
entry (`NullAssumption`, `NullIdAssumption`, `DataAssumption`), worlds whose
fields have their types (`WorldsAssumption`), a build with or without the resend
timer (`SendTimerAssumption`), settings of KillSwitch whose ticks fit a 32-bit
product (`ConfigsAssumption`; `MaxSetting` is the largest), depths that are
numbers (`DepthsAssumption`), texts of the characters named under *Conversions*
(`CharsAssumption`), a screen and letters that are not of width zero
(`ScreenAssumption`), pages of which every symbol fits the screen and every mark of
a colour has its words behind it (`TextsAssumption`).

One assumption is about the fonts of the phone and not about the code:
`BoldAssumption`, that a bold letter is wider than a plain one by about a third at most.
The code relies on it without a test (*Findings*, layout): on a screen six letters wide,
with bold letters six times as wide, TLC finds a line that takes no symbol.

### Page stack

`PageStackProofs`, for every size of the stack of at least 2, every set of
blocks, documents and positions and every bound of the clock:

- `TypeCorrect`: `Spec => []TypeOK`. TypeOK is inductive by itself.
- `StackHasNoHoles`, `EmptySlotsStayEmpty`, `FormsHaveOneOwner`, and all three
  together as `StackOwnsItsPages`, `Spec => []PagesOwned`, the invariant of the run.
  Each is inductive relative to those before it. `NoHoles` is what makes a push
  write the slot below the new top into a known place; without
  `EmptySlotsOwnNothing` a pushed page could keep the form of a page that was there
  before, and `FormsOwnedOnce` would not be inductive.
- `IdsAscend`, `CacheIsStack`, `EarlierPagesKept`, under `MinGap = 1`. The
  strengthening is `Aged`: no page of the stack is younger than the last push.
- `StackIsBrowser`: under `MinGap = 1`, `Spec => ImplementsBackForward`. The mapping
  reads slot `n` as an entry of the user's list; it needs all the invariants
  above and `Blank`: a slot without a page is at the first line, so that a pushed
  page starts at the top. One lemma for each navigation (`VisitMaps`, `BackMaps`,
  `ForwardMaps`, `ReloadMaps`, ...) shows that the step of the array is the step of the
  list. `PushPages` says what a push leaves of the pages, the oldest dropped by the
  memmove, and `MovePages` that going back and forward loses nothing.

The argument goes by the shape of a step: `StepKinds` shows that every step is a
push, a move of the top, a first input, the end, or leaves the stack alone;
`PushShape`, `PushIds`, `PushForms`, `PushFrees`, `PushUnlinks` say slot by slot
what a push does to the array, the heap and the cache. `MinGap = 1` is the user who
does not open two pages in one second; without it two pages share a file.

### Navigation

`NavigationProofs`, for every size of the stack, every number of pages and every
world, the two threads interleaving freely:

- `TypeCorrect` and `PagesInOrder` (`IdsIncrease`) for any user.
- `StackIsHistory` (`PatientInPlace`) and `CacheFoundWhenPatient` (`PatientCache`) for
  a user who waits. While the two halves of a navigation are under way the top of
  the stack is not where the history says: the inductive invariant says, for each
  place the one navigation can be in (the key handled, a procedure or a message
  queued, HELPER in between), where the top is then and which half is still to come.
  `PatientCache` says which files there are: those of the pages in the user's history
  (`trail`) that ever got one (`got`). That every page has its file would be false: one opened
  without GPRS, or answered without a body, never gets any. The invariant has this as
  `Files`, with `Placed`: the stack holds the pages of `trail`. `WrittenFiles` shows that a file
  that is made, by HELPER or with the first data, is of a page of the history; that
  a push removes the files of just the pages that leave the history comes of `Placed`.

### Connection

`InetProofs` and, for the last, `InetCacheProofs`, for every number of pages and sockets
and every world:

- `TypeCorrect` (`TypeOK`).
- `UrlIsHeld` (`UrlHeld`): `StartINET` overwrites nothing for any user, and `SendPost`
  has its URL for a user who waits.
- `SocketIsOne` (`OneSocket`), if in every world the proxy is given by number or the
  user waits. The hypothesis is needed: with a name and a hurried user the
  second `create_connect` overwrites `sock` (*Findings*).
- `AnswersStayApart` (`Isolation`), `AnswersInOrder` (`InOrder`) and
  `NothingAfterEnd` (`EndIsLast`), under the same hypothesis, which they need for
  the same reason.
- `CacheIsWhole` (`CacheComplete`): for a user who waits a page's cache file has all that
  the page shows, and once DATA_END was handled the whole body of an answer. Its
  hypothesis `HeadersEnd` is that every answer of the server has an end of header:
  for one without, the code has no body to keep, and the property says nothing.

The inductive invariant `IInv` is about where things are. A page is opened by a
chain (StopINET, GUI_DESTROYED, GotoLink, GOTO_URL, StartGetFile) of which one link is
queued at a time (`OneOpening`, `OneLoading`), and `StopINET` is ahead of what opens
the next page (`UrlFreed`); a connection is made by a chain (create_connect, the
lookup, socket, connect) of which one link is active (`OneConnecting`); each side
reports its end once (`ClosesOnce`), so that the second close is the last thing heard of
a socket and `sock` is not overwritten before (`SockHeld`); and for a user who waits
nothing is queued that frees the URL while the request is being built (`UrlKept`).
The lemmas on queues (`Taken`, `Added`, `Received`, `Posted`) say what taking and
adding an element does to "is queued", "once", "before" and "first".

`Isolation` rests on a second invariant, `PageInv`, which has `IInv` and:

- `ViewInv`, in every world: what was received for a view is handled before the view
  is gone (`ViewHeld`, `DataFirst`), and `StopINET` has run before the next view opens
  (`StopsDone`).
- `Cleaned`: a connection begins with empty buffers. `PostInv`: for a proxy given by
  number a connection has one end and one request.
- `OwnData`: the request, the connection's answer, `recvq`, the piece `get_answer` holds
  and the `DATA_ARRIVED` messages are of the page `view`, or of no page while the
  `StopINET` of the page before has yet to run.
- `UrlWaits` and `OwnCache`: while a connection is being built for a cache file the URL
  is there, and all that is written to the file answers the page the file is named for.

`InOrder` rests on a third, `OrderInv`, which has `PageInv` and says how the pieces of an
answer link up wherever they are:

- `Passing`: what the view shows, the data of the queued `DATA_ARRIVED` messages, the
  piece HELPER holds in `seg` and the next piece of the socket follow each other
  (`Joined`), however they are cut into segments. `Caching`: so do the cache file and
  the next piece of the socket.
- `Header`: `recvq` holds the pieces of one answer, from its first.
- `Begins`: while there is no connection, and until one has been read from, nothing has
  come for the page and nothing is in its cache file. This is what makes a
  second answer on the same page impossible.
- `SentOnce`: a connection carries one request, so its pieces have one number.

`EndIsLast` rests on a fourth, `EndInv`, which has `OrderInv` and says where the end of
the page opened last is:

- `Current`: that page is the one on screen and the one a connection writes for, and no
  later page has ended or has anything in its cache file.
- `Stale`: when the user hurries, the connection of a page that was left outlives
  the opening of the next, and its end is not reported while a view is about to open.
- `Ending`: once `DATA_END` is sent or handled for the page, its connection is
  freed, or is about to be with nothing left to read; the data are ahead of the end in
  the queue, and the end is ahead of the `GOTO_URL` of the next page.

`CacheComplete` rests on a fifth, `CompleteInv`, which has `EndInv` and follows an answer from
the server to the file. What a page shows is how its file begins, and the piece on its way
to the view is in the file already (`Stored`). That the answer is read to its end is counted:
while nobody presses Stop, every piece the peer has sent was read, or there is a `DATA_READ`
or a `get_answer` for it in a queue, and all of those are ahead of the `end_socket` that the
two closes bring (`Counted`, with `Served` and `Quiet`: the peer closes after the last piece,
and no `get_answer` is left over from an earlier page). Between two reads the file is the
body of what was read so far, or empty while `recvq` holds all of it (`Content`). So the
page is complete when its socket is closed (`Done`), when `DATA_END` is queued (`Finished`)
and when it was handled (`EndedWhole`).

### Parser

`PageTextProofs`, for every set of pages (in order or not), every size of
the headers, every length of the pieces, every way zlib may expand or refuse a
page and every number of icons:

- `ParserWithinData`: `Spec => []WithinData`. The parser's position never passes
  the end of what has arrived.
- `ParserWaits`: `Spec => []Waits`. `oms_wanted` is, in each state, just behind
  what the state still has to read.

`WithinData` is not inductive: that the position stays within the data after a
state depends on the state having waited for what it read. The inductive
invariant is `IInv`, `Waits` and `WithinData` with the types of the place and of
the call. The argument: a state runs only once `oms_size` has reached
`oms_wanted`; by `Waits` it takes no more than the bytes up to there, and it
leaves `oms_wanted` where the next state's data end. What tags do to the text, the
references and the pictures does not touch the place: the lemmas `...Same` say
so, one for each operation of `additems.c`.

### Layout

`PageTextProofs`, of PageView, for every set of pages cut in any way into groups, every screen, every height and width of the letters under `BoldAssumption`, with
word wrap or without, and every text that is searched for:

- `LinesAreSound`: `ViewSpec => []CacheSound`. No line is empty, each begins where the one
  before ends, in the text and on the screen, the scan goes on where the last line
  of the cache ends, and the view is on one of these lines.
- `LinesIndependentOfCuts`: `ViewSpec => []LinesAsWhole`. However the text arrives, with
  whatever keys between, the finished lines of a page are those of its text as a whole,
  if it has no bold letter that is wider and no large picture.

The inductive invariant `LinesInv` is `CacheSound` (as `SoundLines`, said of a record and not
of the variable), with what a step reads: that what is still to come are groups of
symbols, and that the line the page stack keeps is a number. The argument:

- One line. The scan takes symbols until one does not fit, then looks back for a
  blank, and gives back no more than it took: `WrapWithin`. This is where
  `BoldAssumption` is used: the symbols are added up with the font each had, and taken
  off with the font in force at the end of the line. `ScanKeeps` and `SearchFinds` say
  where the scan and the search for the next line end.
- `LineDownSound`: `LineDown` leaves sound lines, one more or none; what `RenderPage`,
  the keys, the cursor, a jump and the search do afterwards leaves the lines and puts
  `view_line` on one of them (`RenderSound`, `ScrollDownKept`, `ScrollUpKept`, `JumpKept`,
  `SearchKept`).
- The loops of the code are recursive functions on views, and there is no set of all
  views to define them on at once. `LoopExists` shows, by an induction on the number of
  rounds, that a function that satisfies the loop's equation (`IsLoop`) exists, so that
  what CHOOSE takes satisfies it; `WalkSound` then goes through the loop.

That the lines are those of the page as a whole rests on `WholeInv`: `LinesInv`, that the
text of the view and the groups still to come are the page (`Arriving`), and that the lines
are a cut of it (`Cut`): each finished line is the one the whole text has behind the
line before, and the last one stands where the whole text is scanned somewhere in that line
(`Pending`). The last part is what makes it inductive. A scan that runs out of text
leaves its attributes in the cache, and the next one begins the same line again with these:
it may be ahead of the text. But each mark it passes again sets its attribute again,
so that behind the place it had come to both scans have the same attributes, and before it no
symbol is wider or narrower for them: `ScanCompared`, by an induction on the
symbols. `WrapSame` says that both then look back to the same place, `LineDownCut` that
`LineDown` keeps `Cut` and that only the last line of the text stays unfinished. What draws,
scrolls and jumps carries it on: it is part of `Kept` (`Carries`). The lines of the
text that is there at once are a cut too, and reach its end, since there are no more of them
than symbols (`EndReached`); and two cuts of one text agree, line by line (`LinesAgree`).

`DownVisitsAll`, `ScrollExact` and the rest of the run compare a view with what a key makes
of it, and stay with TLC.

### History of addresses

`StoresProofs`, for every set of addresses and depths:

- `HistoryStaysRecent`: `MCSpec => HistoryIsRecent`, UrlHistory implements RecentList.
- `HistoryHasNoneTwice`: `MCSpec => []NoneTwice`, the invariant it rests on. The code copies
  all entries but those equal to the new one, the list promises to remove *the*
  entry: the two agree only where no address is twice (`SameRemoval`).

### Bookmarks

`StoresProofs`, for every set of names and addresses and any number of files:

- `BookmarksImplementStore`: `MCSpec => ImplementsStore`. The inductive invariant
  `BookmarksInv` has the disk (`Files`: every entry is in a folder that is there, and no two
  have one path), the list of the menu and what options and dialog know of the entry
  they hold (`Held`, `Modes`): it is of the folder shown, a folder is still on the disk, and
  a file without an extension is not at the path of a folder. Without the last, Delete
  could take a folder that is not empty. One lemma for each operation (`DeleteAnswers`,
  `RenameAnswers`, `BookmarkOkAnswers`, ...) shows what it does to the store when every file call
  succeeds, and what it may spoil when one fails: an edited bookmark whose new file cannot be
  opened is lost, one whose old file cannot be removed stays, beside the new one or under it
  (the two of `ToDo.txt:81`, *Findings*). `FolderMoved` says that no two
  paths meet when a folder moves with all it holds.
- `MenuAlwaysShowsFolder`: `MCSpec => []MenuShowsFolder`, for folders of any size. `FindFiles`
  adds entry by entry and `FindBListByN` picks kind by kind: both are folds, and what
  they compute is an induction over the entries (`FoundSorted`, `RowsOfKindSorted`).

The prover cannot use the library's induction theorems, which take the property as
an operator. `Induction` takes the set of the numbers that have it instead, and
`FoldIsDefined` shows with it that a fold over n elements exists, so that what
`FoldLeft` chooses takes its elements in order (`AddsInTurn`, `RowsInTurn`).

The assumptions are that the names are numbers above 1, so that `Root` and the way back
are not among them, and that what other programs add is a page or an address.

### Conversions

`StoresProofs`, for texts of any length, of any bytes but 0 for an address and of Latin
characters and Russian letters for typed text (`CharsAssumption`: the letters `ToWeb`
knows how to write):

- `AddressesKept`: `MCSpec => []ReencodeKeeps`. Writing a bookmark again changes nothing
  more, and the escapes do not change what its address decodes to.
- `TextsArrive`: `MCSpec => []TypedArrives`. The server reads what was typed, the escapes fit
  the memory `ToWeb` counted for them, and a title without the letter Yo is shown as sent.

The invariants are only that the texts are made of these characters; the theorems are facts
about the operators, each an induction on the length of the text. A conversion is a
`Walk`, recursive from the end of the text. `WalkIsDefined` shows that the function exists,
and `WalkOn` that a walk whose first step reads `r` characters is that step and a walk over
the rest. So each conversion has lemmas for the ways a text can begin: a character that
begins no escape (`UnescapeFirst`, `ReencodeFirst`), an escape (`UnescapeEscape`,
`ReencodeEscape`), a letter (`LetterArrives`, `LetterShown`). A `%` that stands before two digits is the
case that matters: it stays (`StableEscape`), while every other one gets an escape of its
own that decodes to it (`StableEscaped`). `EscapesFit` compares the walk, which goes
through the text from the end, with the sum `ToWeb` counts from the start, place by place.

### Forms

`FormsProofs`, for every set of pages, texts, files and sizes and any number of requests:

- `FormsImplementForm`: `Spec => ImplementsForm`, for a user who waits for the page before
  a list or a file is asked for (`~HurriedUser`) and has the field on the screen when a file
  is attached (`~ScrolledUser`), for pages whose options are at places an unsigned short
  holds (`NearPages`), and where connections succeed (`Connections = {TRUE}`). All four
  hypotheses are needed: without any one of them TLC finds a violation (*Findings*). The inductive invariant
  `FormsInv` says that the references are those of the page as far as it has arrived
  (`RefsInv`), that what is kept is of fields or of lists, never of both at one place
  (`KeptInv`), that a dialog is about a reference of its kind and no pointer is stale
  (`DialogInv`), and that between two requests nothing is left of the last
  (`RequestInv`). `KeptInv` is what lets the two tables of the stack's slot be
  one table of entries, and `RequestInv` what keeps the parameters of a form from an
  ordinary link.
- `RequestIsForm`: what the filling pass of `collectItemsParams` writes is what the controls
  on the screen carry, in the order of the page. `EnterMaps`: whichever way an entry goes,
  kept on the screen or sent at once, it is one step of the form. `GroupChanged`: the
  search for references of the same name leaves one radio button of a group on.
  `NewRefShows`: a control that arrives again shows the entry that was kept.
  `PlaceIsOption`: the place a menu holds is that of the option taken, and of no other.

- `UploadsFit` (`UploadFits`) needs none of the four: it holds for every user and every
  connection, since a list that is opened early, a dialog about a reference that is gone
  and a file left behind change what is sent, not whether it fits. The two passes of
  `collectItemsParams` are folds; the induction on the natural numbers shows that each
  takes its elements in turn (`FoldInOrder`, `CountInTurn`), so that the sums can be
  compared element by element. `FileFits` is the arithmetic for one file: what `CALCLEN`
  counts is what base64 of pieces of `BUFSIZE` bytes needs, `BUFSIZE` being a multiple of
  three. `SizeStays` keeps the one `filesize` of both passes: what the counting pass left
  is what every file of the other pass finds. `UploadsInv` only adds types.

The assumptions on the pages are those of the server: a box or a radio button says
whether it is on, the link that asks for a file is right behind its field, and the options of
a list are at different places.

### Tools

`ToolsProofs`, of the run's specification: `TestIsSafe` (`MeasuresSafely`) holds for every
number of chunks of any size: the invariant ties the helper's place in the test to
the buffer's size and the bytes moved. `ResetsWhenHeld`
(`ResetWhenHeld`) holds for every set of combinations, rates and settings: the count of
ticks and the time since the combination went down are kept in step, tick by tick.

### Only model-checked

- Liveness (`OpenedPageEnds`, `ViewOpens`, `PageEnds`, `SettingsReachLcd`): fairness and
  ENABLED are out of the prover's reach.
- `AsMeant`: what the parser makes of a page, over every order of tags it may have, is an
  induction of its own over the page that is still to be read.
- What compares a view with the one before, in pixels or symbols: `DownVisitsAll`,
  `RestoredAsLeft`, `ScrollExact`, `SearchShows`.
- `ReferencesSound`. It is true of the pages a server writes and not of every page (a tag
  `E` between the items of a list drops the reference the list is built in), so its
  invariant has to speak of the page that is still to be read.
- `FontsWhole`.

## Not modelled

- Drawing, pictures (`readimg.c`; their numbering is in ViewData), language packs,
  configuration, random numbers, `func.asm`: output, tables and loading of files
  without state of their own.
- The destructors (`destructors.c`): they free what a view holds, and a leak has no
  effect on what the models keep.
- The menu of search engines, the dialogs for an address and for saving a page,
  the counters of progress, the name a page gets in the history, the copies of an
  authorisation code: each passes one value on.
- The list of the file manager: it is sorted as the bookmark menu's is.
- `pagename`'s date arithmetic: the id of a page is one increasing number.
- What happens after undefined behaviour (unloaded code, freed arrays, null
  pointers): the models stop short of it, and *Findings* names the places. Forms has
  such a write in `TakeFile`, and its view is `broken` from then on.
- `KeypadTester` (shows the code of a key), `JVMSettings` (each key sets one
  firmware value), `ftdemo` (a demonstration on the vendored library ALIB).
