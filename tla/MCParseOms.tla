----------------------------- MODULE MCParseOms -----------------------------
(* Pages of one and of two known orders of tags, in the kinds of page the    *)
(* parser knows, sent plain or compressed; and pages it has to give up.      *)
EXTENDS ParseOms

P == INSTANCE OmsPages

AllParts == {"T", "utf8", "LTE", "^TE", "LIE", "LKE", "LISTE", "LBTJE", "LTBYE", "ZJE", "iI",
             "iJ", "iZIE", "LZIEE", "LPTETPTETE", "IK", "SK", "X", "I", "J", "rules", "A", "@", "k",
             "h", "e", "x", "p", "u", "cc", "rr", "s"}

\* What may follow: parts that look back at what the parts before have left.
Seconds == {"T", "LTBYE", "LKE", "IK", "iZIE", "cc", "s"}
Few == {"LIE", "LTE", "iZIE", "s", "x", "cc"}
Odd == {"LIE", "iZIE", "s", "odd", "o"}

Names(first, second) == {<<a>> : a \in first} \cup {<<a, b>> : a \in first, b \in second}

PlainKinds == {k \in P!Kinds : ~P!IsZipped(k)}
ZippedKinds == {k \in P!Kinds : P!IsZipped(k)}

\* The last argument is not 0 for a page that is not in order.
MCPages ==
  {P!MakePage(names, kind, 1, FALSE, 0) : names \in Names(AllParts, Seconds), kind \in PlainKinds}
  \cup {P!MakePage(names, kind, ratio, late, 0) :
          names \in Names(Few, Few), kind \in ZippedKinds, ratio \in {1, 3}, late \in BOOLEAN}
  \cup {P!MakePage(names, kind, 1, FALSE, 1) :
          names \in Names(Odd, Odd), kind \in PlainKinds \cup {P!UnknownKind}}
  \cup {P!MakePage(names, kind, 3, FALSE, bad) :
          names \in Names(Odd, Odd), kind \in ZippedKinds, bad \in {4, 9, 20}}

\* The user chose the third item of the list at 17, the first of a page.
OneList == [id \in {17} |-> [value |-> 37, id2 |-> 40]]
=============================================================================
