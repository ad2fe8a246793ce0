--------------------------- MODULE FontExtractor ---------------------------
(* FontExtractor: each redraw of its window is one step of the program.  A     *)
(* redraw draws as many symbols as the screen holds; the next one reads them   *)
(* back from the screen's memory, prints them and moves on; each asks for the  *)
(* next.  A symbol whose bitmap is that of the symbol before is printed as     *)
(* "&".  Icons are not drawn: their numbers are printed by both redraws.       *)
(* Moving pictures are passed over.                                            *)
EXTENDS Integers, Sequences, FiniteSets, SequencesExt

CONSTANTS MaxFont,     \* get_max_font_size()
          LastSymbol,  \* 0xFFFF
          Icons,       \* the symbols 0xE1xx
          Moving,      \* the symbols 0xE2xx
          Width,       \* of each symbol; the same in all fonts here
          Bitmap,      \* of each font and symbol
          Height, ScreenW, ScreenH,
          MaxRedraws   \* bound: redraws nobody asked for

VARIABLES g_state, g_unicode_off, g_font,
          prev_bitmap,
          screen,      \* what is drawn: symbols of a font at their places
          redraws,     \* redraws waiting
          printed,     \* the lines printed: font, symbol, bitmap or "&" or icon
          extra,       \* bound: redraws so far that nobody asked for
          disturbed    \* ghost: something else drew over the batch on the screen

vars == <<g_state, g_unicode_off, g_font, prev_bitmap, screen, redraws, printed, extra,
          disturbed>>

Init ==
  /\ g_state = 0 /\ g_unicode_off = 0 /\ g_font = 0
  /\ prev_bitmap = "none"
  /\ screen = {} /\ redraws = 1 /\ printed = <<>>
  /\ extra = 0 /\ disturbed = FALSE

\* The loop over the symbols, until one does not fit: the symbols at their places
\* and the icons it comes by.
Reached ==
  LET step(p, i) ==
        LET wraps == p.x + Width[i] > ScreenW
            x == IF wraps THEN 0 ELSE p.x
            y == IF wraps THEN p.y + Height ELSE p.y
            at(u, v) == [i |-> i, x |-> u, y |-> v, font |-> g_font]
        IN IF p.full \/ i \in Moving THEN p
           ELSE IF i \in Icons THEN [p EXCEPT !.out = Append(@, at(0, 0))]
           ELSE IF y + Height > ScreenH THEN [p EXCEPT !.full = TRUE]
           ELSE [x |-> x + Width[i], y |-> y, full |-> FALSE, out |-> Append(p.out, at(x, y))]
      start == [x |-> 0, y |-> 0, full |-> FALSE, out |-> <<>>]
  IN FoldLeft(step, start, [k \in 1 .. LastSymbol + 1 - g_unicode_off |-> g_unicode_off + k - 1]).out

IsIcon(p) == p.i \in Icons

\* The symbols drawn, or read back, by one redraw.
Placed == SelectSeq(Reached, LAMBDA p : ~IsIcon(p))

ReadBack(p) == IF p \in screen THEN Bitmap[p.font][p.i] ELSE "noise"

IconLine(p) == [font |-> g_font, i |-> p.i, bitmap |-> "icon", over |-> FALSE]

\* A symbol's line; before is prev_bitmap when the loop comes to it.
SymbolLine(p, before) ==
  [font |-> g_font, i |-> p.i, over |-> disturbed,
   bitmap |-> IF ReadBack(p) = before THEN "&" ELSE ReadBack(p)]

\* The lines of the drawing redraw, and of the reading one.
DrawLines ==
  LET icons == SelectSeq(Reached, IsIcon) IN [k \in DOMAIN icons |-> IconLine(icons[k])]

Lines ==
  LET step(a, p) ==
        IF IsIcon(p) THEN [a EXCEPT !.out = Append(@, IconLine(p))]
        ELSE [out |-> Append(a.out, SymbolLine(p, a.prev)), prev |-> ReadBack(p)]
  IN FoldLeft(step, [out |-> <<>>, prev |-> prev_bitmap], Reached).out

Draw ==
  /\ redraws > 0 /\ g_state = 0
  /\ screen' = ToSet(Placed)
  /\ printed' = printed \o DrawLines
  /\ g_state' = 1 /\ disturbed' = FALSE
  /\ UNCHANGED <<g_unicode_off, g_font, prev_bitmap, redraws, extra>>

\* Mutant: an empty batch ends the font again.
StaysAtTheEnd == IF Placed = <<>> THEN g_unicode_off ELSE Placed[Len(Placed)].i + 1

\* The symbol after the batch; 0 after an empty one.
NextOff == IF Placed = <<>> THEN 0 ELSE Placed[Len(Placed)].i + 1

\* When the font is through, its last offset stays: the next batch is empty, and
\* the one after it begins at 0.
PrintBatch ==
  /\ redraws > 0 /\ g_state = 1
  /\ printed' = printed \o Lines
  /\ prev_bitmap' = IF Placed = <<>> THEN prev_bitmap ELSE ReadBack(Placed[Len(Placed)])
  /\ g_unicode_off' = NextOff
  /\ \/ /\ NextOff <= LastSymbol
        /\ g_state' = 0 /\ UNCHANGED <<g_font, redraws>>
     \/ /\ NextOff > LastSymbol /\ g_font < MaxFont
        /\ g_state' = 0 /\ g_font' = g_font + 1 /\ UNCHANGED redraws
     \/ /\ NextOff > LastSymbol /\ g_font >= MaxFont
        /\ g_state' = 2 /\ redraws' = redraws - 1 /\ UNCHANGED g_font
  /\ UNCHANGED <<screen, extra, disturbed>>

\* After the last font a redraw does nothing.
Nothing ==
  /\ redraws > 0 /\ g_state = 2
  /\ redraws' = redraws - 1
  /\ UNCHANGED <<g_state, g_unicode_off, g_font, prev_bitmap, screen, printed, extra,
                 disturbed>>

\* The firmware redraws the window on its own; another window draws over it.
Redraw ==
  /\ extra < MaxRedraws
  /\ redraws' = redraws + 1 /\ extra' = extra + 1
  /\ \/ UNCHANGED <<screen, disturbed>>
     \/ screen' = {} /\ disturbed' = TRUE
  /\ UNCHANGED <<g_state, g_unicode_off, g_font, prev_bitmap, printed>>

Next == Draw \/ PrintBatch \/ Nothing \/ Redraw

Spec == Init /\ [][Next]_vars

-----------------------------------------------------------------------------
SymbolLines == SelectSeq(printed, LAMBDA l : l.bitmap # "icon")

\* The bitmap a reader takes for the symbol of line k.
Decoded(k) ==
  LET own == {j \in 1 .. k : SymbolLines[j].bitmap # "&"}
  IN SymbolLines[CHOOSE j \in own : \A m \in own : m <= j].bitmap

\* The lines of the symbols that are drawn are each of them of every font, once
\* and in order, whatever redraws come between; of every icon there is a line in
\* every font, from the drawing redraw and again from the reading one.  A reader
\* finds for each symbol its own bitmap, unless another window drew between the
\* two redraws of its own batch: the batches after that are not spoilt
\* (gui_onredraw, FontExtractor/main.c:52-188; parse-font.pl:41-56 reads the lines).
FontsWhole ==
  LET ordinary == SelectSeq([k \in 1 .. LastSymbol + 1 |-> k - 1],
                            LAMBDA i : i \notin Icons \cup Moving)
      n == Len(ordinary)
      iconLines(f, i) == {k \in DOMAIN printed : printed[k].bitmap = "icon"
                                                 /\ printed[k].font = f /\ printed[k].i = i}
  IN /\ \A k \in DOMAIN SymbolLines :
          /\ SymbolLines[k].font = (k - 1) \div n
          /\ SymbolLines[k].i = ordinary[((k - 1) % n) + 1]
          /\ ~SymbolLines[k].over
             => Decoded(k) = Bitmap[SymbolLines[k].font][SymbolLines[k].i]
     /\ g_state = 2 =>
          /\ Len(SymbolLines) = n * (MaxFont + 1)
          /\ \A f \in 0 .. MaxFont, i \in Icons : Cardinality(iconLines(f, i)) >= 2
=============================================================================
