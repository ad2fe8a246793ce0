------------------------------ MODULE PageView ------------------------------
(***************************************************************************)
(* A page on the screen while it arrives and after: the messages           *)
(* IPC_DATA_ARRIVED and IPC_DATA_END of the MMI thread and the keys of     *)
(* method5 that move the view (BalletMini/main.c), each followed by a      *)
(* redraw.  A page is left and visited again: the page stack keeps         *)
(* view_line and pos_cur_ref, and the text arrives anew, cut differently.  *)
(*                                                                         *)
(* The text of a page is a sequence of groups of symbols: the parser puts  *)
(* each group into rawtext at once.                                        *)
(***************************************************************************)
EXTENDS Layout

CONSTANTS ViewPages,   \* the pages: sequences of groups of symbols
          Needle,      \* search_string
          Step,        \* pixels of a scroll key; the page keys leave as many
          MaxVisits    \* bound: times the page is opened

ASSUME TextsAssumption ==
  \A p \in ViewPages : p \in Seq(Seq(Symbol)) /\ \A i \in DOMAIN p : IsText(p[i])
ASSUME NeedleAssumption == Needle \in Seq(Symbol)
ASSUME ViewAssumption == Step \in Nat \ {0} /\ Step <= ScrH /\ MaxVisits \in Nat

VARIABLES shown,       \* the page that is visited
          rest,        \* its groups still to come
          view,        \* the layout part of the view
          saved,       \* what the page stack kept: isPositionDataPresent, line, cursor
          ended,       \* IPC_DATA_END has been handled
          touched,     \* a key was pressed since the page was opened
          visits       \* times the page was opened

viewVars == <<shown, rest, view, saved, ended, touched, visits>>

NotSaved == [present |-> FALSE, view_line |-> 0, top |-> 0, cur |-> NONE]

Redraw(v) == RenderPage(v, TRUE).vd

\* A new view is drawn before anything has arrived.
ViewInit ==
  /\ shown \in ViewPages /\ rest = shown
  /\ view = Redraw(EmptyPage) /\ saved = NotSaved
  /\ ended = FALSE /\ touched = FALSE /\ visits = 1

\* The first reference that is complete takes the cursor if none has it.
FirstReference(v, text) ==
  LET isEnd(i) == IsMark(text[i], "ref", 0)
      ends == {i \in Len(v.text) + 1 .. Len(text) : isEnd(i)}
      begins == {i \in 1 .. Min(ends) : IsMark(text[i], "ref", 1)}
  IN  IF v.cur # NONE \/ ends = {} THEN v.cur ELSE Max(begins) - 1

\* OMS_DataArrived adds n groups to the text; all lines are laid out at once.
DataArrived(n, behind) ==
  /\ n \in 1 .. Len(rest)
  /\ LET text == view.text \o FlattenSeq(SubSeq(rest, 1, n))
         v == [view EXCEPT !.text = text, !.behind = behind, !.cur = FirstReference(view, text)]
     IN  view' = Redraw([LinesDownToEnd(v) EXCEPT !.view_line = v.view_line])
  /\ rest' = SubSeq(rest, n + 1, Len(rest))
  /\ UNCHANGED <<shown, saved, ended, touched, visits>>

\* LineUp or LineDown as often as the saved line is away.
WalkTo(v, line) ==
  IF line < Len(v.cache) THEN [v EXCEPT !.view_line = line] ELSE LinesDownToEnd(v)

\* mutant: the cursor is not set a second time
DataEndOnce(anchor) ==
  /\ rest = <<>> /\ ~ended /\ ended' = TRUE
  /\ view' = Redraw([WalkTo(view, saved.view_line) EXCEPT !.cur = saved.cur])
  /\ UNCHANGED <<shown, rest, saved, touched, visits>>

\* The place the page was left at, or the anchor of its address.  The cursor may
\* be below the screen there, the part of a line that was hidden is not kept: the
\* view goes a line down.
DataEnd(anchor) ==
  /\ rest = <<>> /\ ~ended /\ ended' = TRUE
  /\ LET v1 == IF saved.present THEN WalkTo(view, saved.view_line) ELSE view
         placed(v) == IF saved.cur # NONE THEN [v EXCEPT !.cur = saved.cur]
                      ELSE IF anchor # NONE THEN GoToLocalLinkPos(v, anchor)
                      ELSE v
         seen(v) == IF saved.cur # NONE /\ v.cur = NONE
                     THEN Redraw([LineDown(v).vd EXCEPT !.cur = saved.cur])
                     ELSE v
     IN  view' = seen(Redraw(placed(v1)))
  /\ UNCHANGED <<shown, rest, saved, touched, visits>>

\* The user follows a link and comes back: setPageParams, and a new view.
Revisit ==
  /\ visits < MaxVisits /\ visits' = visits + 1
  /\ saved' = [present |-> TRUE, view_line |-> view.view_line, cur |-> view.cur,
               top |-> IF view.view_line = 0 THEN 0 ELSE view.cache[view.view_line].pos]
  /\ view' = Redraw(EmptyPage) /\ rest' = shown
  /\ ended' = FALSE /\ touched' = FALSE
  /\ UNCHANGED shown

-----------------------------------------------------------------------------
(* The keys.                                                                 *)

Key(v) ==
  /\ view' = Redraw(v) /\ touched' = TRUE
  /\ UNCHANGED <<shown, rest, saved, ended, visits>>

\* mutant: after scrolling the cursor is set on the last reference shown
CursorDownLast(v) ==
  IF v.next # NONE THEN [v EXCEPT !.cur = v.next]
  ELSE LET at(s) == [s EXCEPT !.cur = s.last] IN at(RenderPage(scrollDown(v, Step), FALSE).vd)

\* The next reference, or the page scrolls.
CursorDown(v) ==
  IF v.cur = NONE /\ v.first # NONE THEN [v EXCEPT !.cur = v.first]
  ELSE IF v.next # NONE THEN [v EXCEPT !.cur = v.next]
  ELSE LET onto(s) == IF s.next # NONE THEN [s EXCEPT !.cur = s.next] ELSE s
       IN  onto(RenderPage(scrollDown(v, Step), FALSE).vd)

CursorUp(v) ==
  IF v.cur = NONE /\ v.last # NONE THEN [v EXCEPT !.cur = v.last]
  ELSE IF v.prev # NONE THEN [v EXCEPT !.cur = v.prev]
  ELSE LET onto(s) == IF s.prev # NONE THEN [s EXCEPT !.cur = s.prev] ELSE s
       IN  onto(RenderPage(scrollUp(v, Step), FALSE).vd)

Lose(v) == [v EXCEPT !.cur = NONE]

PageStep == ScrH + 1 - Step

KeyScrollDown == Key(CursorDown(view))
KeyScrollUp == Key(CursorUp(view))
KeyPageDown == Key(Lose(scrollDown(view, PageStep)))
KeyHalfPageDown == Key(Lose(scrollDown(view, PageStep \div 2)))
KeyPageUp == Key(Lose(scrollUp(view, PageStep)))
KeyHalfPageUp == Key(Lose(scrollUp(view, PageStep \div 2)))
KeyBegin == Key(Lose([view EXCEPT !.pixdisp = 0, !.view_line = 0]))
KeyEnd ==
  Key(Lose(scrollUp([LinesDownToEnd(view) EXCEPT !.pixdisp = 0], ScrH)))
KeySearchAgain == Key(FindStringOnPage(view, Needle))

\* Enter on a link to an anchor of this page.
LocalLink(anchor) == Key(GoToLocalLinkPos(view, anchor))

\* Anchors begin paragraphs.
Anchors == {0} \cup {i \in DOMAIN view.text : view.text[i].k = "br"}

ViewNext ==
  \/ \E n \in 1 .. Len(rest), behind \in BOOLEAN : DataArrived(n, behind)
  \/ \E anchor \in Anchors \cup {NONE} : DataEnd(anchor)
  \/ Revisit
  \/ KeyScrollDown \/ KeyScrollUp \/ KeyPageDown \/ KeyHalfPageDown
  \/ KeyPageUp \/ KeyHalfPageUp \/ KeyBegin \/ KeyEnd \/ KeySearchAgain
  \/ \E anchor \in Anchors : LocalLink(anchor)

ViewSpec == ViewInit /\ [][ViewNext]_viewVars

-----------------------------------------------------------------------------
(* Properties.                                                               *)

Bold(p) == \E i \in DOMAIN p : \E j \in DOMAIN p[i] : IsMark(p[i][j], "bold", 1)
Large(p) == \E i \in DOMAIN p : \E j \in DOMAIN p[i] :
              AloneOnLine(p[i][j], p[i][j].w, ScrW)

\* The lines of the page when its text is there at once.
Whole == LinesDownToEnd([EmptyPage EXCEPT !.text = FlattenSeq(shown)]).cache

Top(v) == v.cache[v.view_line + 1].ycoord + v.pixdisp
PageHeight(v) == Last(v.cache).ycoord + Last(v.cache).pixheight

\* The cache of lines is sound: each line that is finished takes at least one
\* symbol, lines follow one another in the text and on the screen, the scan goes
\* on where the last line ends, and the top line of the view is one of them.
\* (newCacheLine, LineDown; a line that took nothing would hang while(LineDown).)
CacheSound ==
  LET c == view.cache
      n == Len(c)
  IN  /\ view.view_line < n
      /\ view.cpos = IF n = 1 THEN 0 ELSE c[n - 1].pos
      /\ \A i \in 1 .. n - 1 :
           /\ c[i].pos > IF i = 1 THEN 0 ELSE c[i - 1].pos
           /\ c[i + 1].ycoord = c[i].ycoord + c[i].pixheight
      /\ Last(c).pos <= Len(view.text)

\* Where the data is cut does not show: however the text arrived, its lines are
\* those of the text as a whole.  (SearchNextDisplayLine begins each scan with the
\* attributes the last one left; with a bold font wider than the plain one, and
\* behind a large picture, the cut does show.)
LinesAsWhole ==
  (BoldExtra = 0 \/ ~Bold(shown)) /\ ~Large(shown) =>
    LET whole == Whole
    IN  \A i \in 1 .. Len(view.cache) - 1 :
          /\ i <= Len(whole)
          /\ \A a \in Attributes \cup {"pos"} : view.cache[i][a] = whole[i][a]

\* The scroll keys read as a scroll bar: the view is a window on the page that
\* moves by the pixels asked for, stops at the top, and stops at the end of the page
\* if that is below the screen.  (scrollDown, scrollUp, over lines of any height.)
ScrollExact ==
  \A a \in {PageStep, PageStep \div 2} :
    LET isDown(down) ==
          Top(down) = Min({Top(view) + a, Max({Top(view), PageHeight(down) - ScrH})})
        isUp(up) == Top(up) = Max({0, Top(view) - a})
    IN  isDown(Redraw(Lose(scrollDown(view, a)))) /\ isUp(Redraw(Lose(scrollUp(view, a))))

\* The cursor keys reach every reference: from the top of a page that has arrived,
\* the down key alone comes to each of them.  (A reference that scrolls in and out
\* between two redraws could never be followed.)
DownVisitsAll ==
  ended /\ ~touched =>
    LET text == view.text
        links == {i - 1 : i \in {j \in DOMAIN text : IsMark(text[j], "ref", 1)}}
        presses == Cardinality(links) + PageHeight(view) \div Step + 1
        top == Redraw(Lose([view EXCEPT !.view_line = 0, !.pixdisp = 0]))
        on(v, seen) == [v |-> v, seen |-> seen \cup {v.cur}]
        walk[k \in 0 .. presses] ==
          IF k = 0 THEN [v |-> top, seen |-> {}]
          ELSE LET w == walk[k - 1] IN on(Redraw(CursorDown(w.v)), w.seen)
    IN  links \subseteq walk[presses].seen

\* Back shows the page where it was left: the same text at the top, the cursor on
\* the same reference.  The hidden part of the top line is not kept, so the view
\* may be one line further to have the cursor on the screen.
\* (IPC_DATA_END against setPageParams.)
RestoredAsLeft ==
  ended /\ ~touched /\ saved.present /\ saved.cur # NONE /\ ~Bold(shown) /\ ~Large(shown) =>
    /\ view.cur = saved.cur
    /\ view.view_line \in {saved.view_line, saved.view_line + 1}
    /\ \/ saved.view_line = 0
       \/ view.cache[saved.view_line].pos = saved.top

\* A search that finds shows what it found: the text at the place marked is the one
\* looked for, behind the line that was on top, and it is on one of the first two
\* lines of the view.  (FindStringOnPage; the line still being filled is scanned
\* again by the redraw, and if it turns bold it may be cut before the match.)
SearchShows ==
  (\A i \in view.cpos + 1 .. Len(view.text) : view.text[i].k # "bold") =>
    LET shows(c, v, found) ==
          found \notin {NONE, view.found} =>
            /\ SubSeq(view.text, found + 1, found + Len(Needle)) = Needle
            /\ found > view.cache[view.view_line + 1].pos
            /\ v > 0 => c[v].pos <= found
            /\ c[Min({v + 2, Len(c)})].pos >= found
        after(w) == shows(w.cache, w.view_line, w.found)
    IN  after(Redraw(FindStringOnPage(view, Needle)))
=============================================================================
