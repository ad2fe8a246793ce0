----------------------------- MODULE MCPageView -----------------------------
(* Pages of a few lines on a screen six letters wide.                        *)
EXTENDS PageView

S(k, n) == [k |-> k, n |-> n, w |-> 0, h |-> 0]
T(n) == <<[S("txt", n) EXCEPT !.w = 1]>>
Blank == <<[S("sp", 0) EXCEPT !.w = 1]>>
NewLine == <<S("br", 0)>>
Link == <<S("ref", 1)>>
LinkEnd == <<S("ref", 0)>>
Style(b) == <<S("bold", b), S("ink", 0), S("word", 0), S("word", 0)>>
Picture(w, h) == <<[k |-> "pic", n |-> 0, w |-> w, h |-> h]>>

\* Two links in one paragraph, the second wrapped.
Prose == <<T(1), T(2), Blank, Link, T(1), T(1), T(2), LinkEnd, Blank, T(2), T(1), T(1), NewLine,
           Link, T(2), Blank, T(1), T(1), T(2), T(2), LinkEnd, NewLine, T(1), T(2)>>
\* Pictures of different height, some with a link.
Pictures == <<T(1), Picture(2, 3), Link, Picture(4, 9), LinkEnd, T(2), NewLine,
              Link, Picture(2, 5), LinkEnd, NewLine, Link, T(1), LinkEnd, NewLine>>
\* A style that changes within a line.
Styled == <<T(1), T(1), Blank, Style(1), T(2), T(2), Style(0), T(1), Blank, T(1), T(2), NewLine,
            Link, T(1), LinkEnd, NewLine>>

\* A list of links.
Item == <<Link \o T(1) \o LinkEnd \o NewLine>>
Menu == Item \o Item \o Item \o Item

MCPages == {Prose, Pictures, Styled, Menu}
MCNeedle == T(1) \o T(2)
=============================================================================
