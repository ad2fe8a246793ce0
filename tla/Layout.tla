------------------------------- MODULE Layout -------------------------------
(***************************************************************************)
(* How a page is cut into lines, scrolled and searched                     *)
(* (BalletMini/display_utils.c), as operators on the layout part of a      *)
(* view.                                                                   *)
(*                                                                         *)
(* vd.text is rawtext, a sequence of symbols [k, n, w, h]: text and blanks *)
(* w wide, line ends, pictures w wide and h high, marks that switch an     *)
(* attribute to n, and the marks of colour with the words behind them.     *)
(* Positions count from 0 as in the code: position p is symbol p + 1.      *)
(* Line number i of the code is cache[i + 1]; its pos is where it ends,    *)
(* its attributes are those at its end, and the last one is still being    *)
(* filled.                                                                 *)
(* What DrawString and DrawLine put on the screen is left out.             *)
(***************************************************************************)
EXTENDS Integers, Sequences, SequencesExt, FiniteSetsExt

CONSTANTS ScrW,        \* ScreenW() - MARGIN
          ScrH,        \* ScreenH() - 1, the last row of the screen
          Font,        \* GetFontYSIZE
          Letter,      \* the width of the narrowest letter
          BoldExtra,   \* what a bold letter is wider than a plain one
          WordWrap     \* word_wrap

ASSUME ScreenAssumption ==
  /\ ScrW \in Nat \ {0} /\ ScrH \in Nat \ {0} /\ Font \in Nat \ {0}
  /\ Letter \in Nat \ {0} /\ BoldExtra \in Nat /\ WordWrap \in BOOLEAN

\* A bold letter is wider by a third of the letter at most: Wrap measures a line
\* with the font at its end, and looks back over three quarters of the screen.
ASSUME BoldAssumption ==
  (Letter + BoldExtra) * ((ScrW * 3) \div 4) <= Letter * (ScrW + 1) + BoldExtra

NONE == -1                       \* 0xFFFFFFFF: no reference, nothing found

Attributes == {"bold", "under", "ref", "center", "right"}

\* The words a mark of colour takes behind it.
Operands == [ink |-> 2, paper |-> 2, index |-> 1]

IsMark(c, attribute, n) == c.k = attribute /\ c.n = n

FirstLine == [pos |-> 0, bold |-> 0, under |-> 0, ref |-> 0, center |-> 0, right |-> 0,
              centerAtAll |-> 0, pixheight |-> 0, ycoord |-> 0]

EmptyPage == [text |-> <<>>, cache |-> <<>>, cpos |-> 0, view_line |-> 0, pixdisp |-> 0,
              cur |-> NONE, first |-> NONE, last |-> NONE, prev |-> NONE, next |-> NONE,
              found |-> NONE, behind |-> FALSE]

-----------------------------------------------------------------------------
(* The text.                                                                 *)

Kinds == {"txt", "sp", "br", "pic", "word"} \cup Attributes \cup DOMAIN Operands
Symbol == [k : Kinds, n : Nat, w : Nat, h : Nat]

\* The parser makes no symbol wider than the screen (additems.c:146, 396; the
\* server is told the width, inet.c:442) and switches attributes on and off.
Fits(c) ==
  /\ c.k \in {"txt", "sp"} => Letter <= c.w /\ c.w + BoldExtra <= ScrW
  /\ c.k = "pic" => c.w <= ScrW
  /\ c.k \in Attributes => c.n \in {0, 1}

\* A mark of colour comes with its words.
WordsFollow(t) ==
  \A i \in DOMAIN t : t[i].k \in DOMAIN Operands =>
    \A d \in 1 .. Operands[t[i].k] : i + d \in DOMAIN t /\ t[i + d].k = "word"

IsText(t) == t \in Seq(Symbol) /\ WordsFollow(t) /\ \A i \in DOMAIN t : Fits(t[i])

-----------------------------------------------------------------------------
(* The size of a symbol.                                                     *)

GetFontHeight(under, ref) == Font + (IF under + ref > 0 THEN 1 ELSE 0)

\* Marks take no room: the firmware draws nothing for them.
GetSymbolBitmapWidth(c, bold) ==
  IF c.k = "pic" THEN c.w
  ELSE IF c.k \in {"txt", "sp"} THEN c.w + bold * BoldExtra
  ELSE 0

-----------------------------------------------------------------------------
(* One line.                                                                 *)

\* How many symbols a line gives back when symbol i does not fit: to the last
\* blank or reference mark, unless that is three quarters of the line away.
Wrap(text, p, i) ==
  LET at(b) == text[i - b + 1]
      width[b \in 0 .. i] ==
        IF b = 0 THEN 0 ELSE width[b - 1] + GetSymbolBitmapWidth(at(b), p.bold)
      tooFar(b) == width[b] >= (ScrW * 3) \div 4
      stops(b) ==
        \/ tooFar(b) \/ at(b).k = "br"
        \/ IF p.ref = 1 THEN (WordWrap /\ at(b).k = "sp") \/ IsMark(at(b), "ref", 1)
           ELSE at(b).k \in {"sp", "pic"} \/ IsMark(at(b), "ref", 0)
      b == Min({x \in 1 .. i : stops(x)})
  IN  IF (~WordWrap /\ p.ref = 0) \/ tooFar(b) THEN 1
      ELSE IF at(b).k = "br" THEN b + 1
      ELSE IF p.ref = 0 /\ at(b).k \in {"sp", "pic"} THEN b - 1
      ELSE b

\* A large picture that begins a line has it for itself.
AloneOnLine(c, cw, left) ==
  c.k = "pic" /\ cw >= ScrW \div 2 /\ c.h > 3 * Font /\ left = ScrW

\* The symbol i is put on the line being scanned, or ends it.  The word behind
\* the text is read for a large picture near its end: vd.behind says what it is.
PlaceSymbol(vd, s, i) ==
  LET c == vd.text[i]
      p == [s.p EXCEPT !.pos = i]
      h == CASE c.k = "pic" -> c.h
             [] c.k = "br" -> 0
             [] OTHER -> GetFontHeight(p.under, p.ref)
      cw == GetSymbolBitmapWidth(c, p.bold)
      high == [p EXCEPT !.pixheight = IF h > @ THEN h ELSE @]
      closed == IF i + 2 <= Len(vd.text) THEN IsMark(vd.text[i + 2], "ref", 0)
                ELSE vd.behind
  IN  IF cw > s.left
      THEN [s EXCEPT !.p = [p EXCEPT !.pos = i - Wrap(vd.text, p, i)], !.out = "line"]
      ELSE IF AloneOnLine(c, cw, s.left)
      THEN IF i = Len(vd.text) THEN [s EXCEPT !.p = high, !.out = "end"]
           ELSE [s EXCEPT
                  !.p = IF closed
                        THEN [high EXCEPT !.centerAtAll = 1, !.ref = 0, !.pos = i + 1]
                        ELSE [high EXCEPT !.centerAtAll = 1],
                  !.out = "line"]
      ELSE [s EXCEPT !.p = high, !.left = @ - cw,
                     !.out = IF c.k = "br" THEN "line" ELSE "more"]

ScanSymbol(vd, s, i) ==
  LET c == vd.text[i]
  IN  IF c.k \in Attributes
      THEN [s EXCEPT !.p = [@ EXCEPT !.pos = i, ![c.k] = c.n]]
      ELSE IF c.k \in DOMAIN Operands
      THEN IF i > Len(vd.text) - 2 THEN [s EXCEPT !.p.pos = i, !.out = "end"]
           ELSE [s EXCEPT !.p.pos = i + Operands[c.k]]
      ELSE PlaceSymbol(vd, s, i)

Scanned(s) == [found |-> s.out = "line", line |-> s.p]

\* mutant: the scan goes on where the last one stopped
SearchNextGoesOn(vd, line) ==
  LET start == [p |-> [line EXCEPT !.centerAtAll = 0], left |-> ScrW, out |-> "more"]
      scan[i \in line.pos .. Len(vd.text)] ==
        IF i = line.pos THEN start
        ELSE LET s == scan[i - 1]
             IN  IF s.out = "more" /\ s.p.pos = i - 1 THEN ScanSymbol(vd, s, i) ELSE s
  IN  Scanned(scan[Len(vd.text)])

\* The line from lines_cache_pos on.  It is scanned in the cache entry itself:
\* the attributes an unfinished scan left there are those the next one starts with.
SearchNextDisplayLine(vd, line) ==
  LET start == [p |-> [line EXCEPT !.centerAtAll = 0, !.pixheight = 0, !.pos = vd.cpos],
                left |-> ScrW, out |-> "more"]
      scan[i \in vd.cpos .. Len(vd.text)] ==
        IF i = vd.cpos THEN start
        ELSE LET s == scan[i - 1]
             IN  IF s.out = "more" /\ s.p.pos = i - 1 THEN ScanSymbol(vd, s, i) ELSE s
  IN  Scanned(scan[Len(vd.text)])

-----------------------------------------------------------------------------
(* The cache of lines and the walk over it.                                  *)

\* mutant: lines_cache_pos stays
newCacheLineOnly(vd, p) == [vd EXCEPT !.cache = Append(@, p)]

newCacheLine(vd, p) == [vd EXCEPT !.cache = Append(@, p), !.cpos = p.pos]

\* The last line as the scan r left it; a line that is finished begins the next.
KeepLine(vd, r) ==
  LET kept == [vd EXCEPT !.cache[Len(vd.cache)] = r.line]
  IN  [ok |-> r.found,
       vd |-> IF r.found
              THEN [newCacheLine(kept, [r.line EXCEPT !.ycoord = @ + r.line.pixheight])
                      EXCEPT !.view_line = @ + 1]
              ELSE kept]

ScanLine(vd) == KeepLine(vd, SearchNextDisplayLine(vd, Last(vd.cache)))

LineDown(vd) ==
  IF vd.view_line + 1 < Len(vd.cache)
  THEN [ok |-> TRUE, vd |-> [vd EXCEPT !.view_line = @ + 1]]
  ELSE ScanLine(IF vd.cache = <<>> THEN newCacheLine(vd, FirstLine) ELSE vd)

LineUp(vd) == IF vd.view_line > 0 THEN [vd EXCEPT !.view_line = @ - 1] ELSE vd

\* The lines down to the one that reaches pos: while (pos not reached &&
\* LineDown(vd)).  A page has no more lines than symbols, and one.
LinesDownTo(vd, pos) ==
  LET most == Len(vd.text) + Len(vd.cache) + 2
      walk[k \in 0 .. most] ==
        IF k = 0 THEN [ok |-> TRUE, vd |-> vd]
        ELSE LET w == walk[k - 1]
                 v == w.vd
             IN  IF w.ok /\ (v.cache = <<>> \/ v.cache[v.view_line + 1].pos < pos)
                 THEN LineDown(v) ELSE [w EXCEPT !.ok = FALSE]
  IN  walk[most].vd

LinesDownToEnd(vd) == LinesDownTo(vd, Len(vd.text) + 1)

-----------------------------------------------------------------------------
(* What is on the screen.                                                    *)

\* A reference can take the cursor where its line shows, a high line with a part.
RefShows(lc, ypos) ==
  IF lc.pixheight < 2 * Font THEN ypos >= 0 /\ ypos + lc.pixheight <= ScrH
  ELSE ypos + lc.pixheight >= 2 * Font /\ ypos + 2 * Font <= ScrH

RenderStart(vd) ==
  [vd |-> vd, ypos |-> -vd.pixdisp, vl |-> vd.view_line, lcheck |-> 0, on |-> TRUE, refs |-> {}]

\* One line of the screen; lcheck counts from the first line that is not finished.
\* r is LineDown, if the lines before were finished.
RenderLine(s, r) ==
  LET lcheck == IF r.ok THEN 0 ELSE s.lcheck + 1
      lc == r.vd.cache[s.vl + 1]
      sc == IF s.vl = 0 THEN 0 ELSE r.vd.cache[s.vl].pos
      shown == {q \in sc .. lc.pos - 1 :
                  IsMark(r.vd.text[q + 1], "ref", 1) /\ RefShows(lc, s.ypos)}
  IN  IF lcheck > 1 THEN [s EXCEPT !.lcheck = lcheck, !.on = FALSE]
      ELSE [vd |-> r.vd, ypos |-> s.ypos + lc.pixheight, vl |-> s.vl + 1,
            lcheck |-> lcheck, on |-> TRUE, refs |-> s.refs \cup shown]

RenderRow(s) ==
  RenderLine(s, IF s.lcheck = 0 THEN LineDown(s.vd) ELSE [ok |-> FALSE, vd |-> s.vd])

\* The references shown, as the cursor keys need them; a cursor that is not
\* among them is lost.
RefsRoundCursor(vd, refs) ==
  LET others == refs \ {vd.cur}
      shown == vd.cur \in refs
      least(S) == IF S = {} THEN NONE ELSE Min(S)
      greatest(S) == IF S = {} THEN NONE ELSE Max(S)
  IN  [vd EXCEPT !.first = least(others), !.last = greatest(others),
                 !.prev = greatest({q \in others : shown => q < vd.cur}),
                 !.next = least({q \in others : shown /\ q > vd.cur}),
                 !.cur = IF shown THEN @ ELSE NONE]

\* more: the page goes on below the screen.  Only a page that is drawn keeps its
\* match marked.
Rendered(vd, do_draw, end) ==
  [more |-> end.lcheck # 2,
   vd |-> RefsRoundCursor([end.vd EXCEPT !.view_line = vd.view_line,
                                         !.found = IF do_draw THEN @ ELSE NONE],
                          end.refs)]

\* Walks the lines of the screen and fills the cache on the way.
RenderPage(vd, do_draw) ==
  LET most == Len(vd.text) + Len(vd.cache) + 3
      rows[k \in 0 .. most] ==
        IF k = 0 THEN RenderStart(vd)
        ELSE LET s == rows[k - 1] IN IF s.on /\ s.ypos <= ScrH THEN RenderRow(s) ELSE s
  IN  Rendered(vd, do_draw, rows[most])

-----------------------------------------------------------------------------
(* Scrolling by pixels.                                                      *)

\* mutant: at the top of the page the rest of the line stays hidden
scrollUpSticks(vd, amount) == IF vd.view_line = 0 THEN vd ELSE LineUp(vd)

scrollUp(vd, amount) ==
  LET above[n \in 0 .. vd.view_line] ==
        IF n = 0 THEN 0 ELSE above[n - 1] + vd.cache[vd.view_line - n + 1].pixheight
      enough == {n \in 0 .. vd.view_line : vd.pixdisp + above[n] >= amount}
  IN  IF enough = {} THEN [vd EXCEPT !.view_line = 0, !.pixdisp = 0]
      ELSE LET n == Min(enough)
           IN  [vd EXCEPT !.view_line = @ - n, !.pixdisp = @ + above[n] - amount]

\* The end of the page on the last row of the screen.
LastLineUp(v) == scrollUp([v EXCEPT !.pixdisp = Last(v.cache).pixheight], ScrH)

scrollToEnd(vd) == LastLineUp(LinesDownToEnd(vd))

\* A step of scrollDown is the page rendered below the pixels scrolled so far: down
\* by them within the line, which is cl_h high, or on to the next line.
ScrollWithin(r) == [on |-> FALSE, vd |-> IF r.more THEN r.vd ELSE scrollToEnd(r.vd)]

ScrollOn(r, rest) ==
  IF r.more THEN [on |-> TRUE, vd |-> [r.vd EXCEPT !.pixdisp = rest]]
  ELSE [on |-> FALSE, vd |-> scrollToEnd(r.vd)]

ScrollStep(v) ==
  LET cl_h == v.cache[v.view_line + 1].pixheight
  IN  IF v.pixdisp <= cl_h THEN ScrollWithin(RenderPage(v, FALSE))
      ELSE ScrollOn(RenderPage([LineDown(v).vd EXCEPT !.pixdisp = 0], FALSE), v.pixdisp - cl_h)

ScrollFrom(r, amount) ==
  LET most == Len(r.vd.text) + 2
      run[k \in 0 .. most] ==
        IF k = 0 THEN [on |-> TRUE, vd |-> [r.vd EXCEPT !.pixdisp = @ + amount]]
        ELSE LET s == run[k - 1] IN IF s.on THEN ScrollStep(s.vd) ELSE s
  IN  IF r.more THEN run[most].vd ELSE r.vd

scrollDown(vd, amount) == ScrollFrom(RenderPage(vd, FALSE), amount)

-----------------------------------------------------------------------------
(* Jumps: a text, an anchor.                                                 *)

\* Where the first match behind position from begins, the length of the text if
\* there is none.  After a mismatch the search goes on behind the symbol that differed.
FirstMatch(text, from, s) ==
  LET differs(i) == {j \in 0 .. Len(s) - 1 :
                       i + j >= Len(text) \/ text[i + j + 1] # s[j + 1]}
      seek[n \in 0 .. Len(text) + 1] ==
        IF n = 0 THEN from
        ELSE LET i == seek[n - 1]
             IN  IF i >= Len(text) \/ differs(i) = {} THEN i ELSE i + 1 + Min(differs(i))
  IN  Min({seek[Len(text) + 1], Len(text)})

\* The view d after LineDown goes down to the line of the match at i, and a line up.
ShowMatch(d, i) ==
  LET v == d.vd
      walk(down) == IF down.ok THEN LinesDownTo(down.vd, i) ELSE down.vd
      moved == IF i = Len(v.text) THEN v ELSE walk(LineDown([v EXCEPT !.found = i]))
  IN  IF d.ok THEN LineUp(moved) ELSE moved

MatchBelow(v, s) == FirstMatch(v.text, v.cache[v.view_line + 1].pos + 1, s)

\* mutant: the view stays where it is
FindStringUnmoved(vd, s) ==
  LET i == MatchBelow(LineDown(vd).vd, s)
  IN IF i = Len(vd.text) THEN vd ELSE [vd EXCEPT !.found = i]

\* The first match behind the top line.
FindStringOnPage(vd, s) ==
  LET show(d) == ShowMatch(d, MatchBelow(d.vd, s)) IN show(LineDown(vd))

\* An anchor above the bottom of the top line becomes the top line, one below it
\* the third; pixdisp stays.
GoToLocalLinkPos(vd, id2) ==
  LET above == {a \in 0 .. vd.view_line : vd.cache[a + 1].pos >= id2}
      back(v) == LineUp(IF v.cache[v.view_line + 1].pos >= id2 THEN LineUp(v) ELSE v)
      below(d) == IF d.ok THEN back(LinesDownTo(d.vd, id2)) ELSE d.vd
  IN  IF above # {} THEN [vd EXCEPT !.view_line = Min(above)] ELSE below(LineDown(vd))
=============================================================================
