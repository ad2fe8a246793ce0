------------------------------ MODULE OmsPages ------------------------------
(***************************************************************************)
(* External: pages as the proxy server writes them.  The orders of tags    *)
(* are those the comment at the head of BalletMini/parse_oms.c lists; the  *)
(* parts of a tag are those the parser reads.                              *)
(*                                                                         *)
(* A part of a page is its bytes and what a reader is to get of them: the  *)
(* symbols of the text (says), the references (refs) and the pictures that *)
(* can be named again (pics).  A symbol has a kind and a number: the code  *)
(* of a character, or a number that two pictures share exactly if they are *)
(* the same picture.  m marks the strings of a part: each is one byte, m   *)
(* or one of the numbers behind it.                                        *)
(***************************************************************************)
EXTENDS Integers, Sequences, SequencesExt

CONSTANTS TagNames, HEADER_V2, GZIP_HEADER

Code(t) == CHOOSE i \in DOMAIN TagNames : TagNames[i] = t

Str(m) == <<0, 1, m>>

says(k, n) == <<[k |-> k, n |-> n]>>
inv == says("inv", 0)
end == says("end", 0)
Txt(m) == says("txt", m)
Pic(n) == says("pic", n)

Ref(tag, id, value, id2) == <<[tag |-> tag, id |-> id, value |-> value, id2 |-> id2]>>

Part(bytes, syms, refs) == [bytes |-> bytes, says |-> syms, refs |-> refs, pics |-> <<>>]
Empty == Part(<<>>, <<>>, <<>>)

a ++ b == [bytes |-> a.bytes \o b.bytes, says |-> a.says \o b.says,
           refs |-> a.refs \o b.refs, pics |-> a.pics \o b.pics]

\* Pictures every page shares.
TextForm == 1001  ListForm == 1002  Hr == 1003
SwitchPic(t, on) == (IF t = "c" THEN 1004 ELSE 1006) + on
FramePic(w) == 2000 + w

-----------------------------------------------------------------------------
(* Single tags.                                                              *)

Bytes(t, rest) == <<Code(t)>> \o rest
Silent(t, rest) == Part(Bytes(t, rest), <<>>, <<>>)

T(m) == Part(Bytes("T", Str(m)), Txt(m), <<>>)
\* A Cyrillic letter and a euro sign.
Utf == Part(Bytes("T", <<0, 5, 208, 144, 226, 130, 172>>), Txt(1040) \o Txt(8364), <<>>)
Br == Part(Bytes("B", <<>>), says("br", 0), <<>>)
Space == Part(Bytes("V", <<>>), says("sp", 0), <<>>)
Rule(t, rest) == Part(Bytes(t, rest), Pic(Hr), <<>>)

I(m) == [Part(Bytes("I", <<0, 9, 0, 9, 0, 1, 0, 0, m>>), Pic(m), <<>>) EXCEPT !.pics = <<m>>]
J(w) == Part(Bytes("J", <<0, w, 0, 7>>), Pic(FramePic(w)), <<>>)
X(m) == Part(Bytes("X", <<1, 1, 0, 4, m, m, m, m>>), Pic(m), <<>>)
\* The last picture once more.
K(pics) == IF pics = <<>> THEN Empty
           ELSE Part(Bytes("K", <<0, 9, 0, 9, 0, Len(pics) - 1>>), Pic(Last(pics)), <<>>)

S(attrs) == Silent("S", <<attrs, 0, 0, 0>>)
Y(i) == Silent("Y", <<i>>)
D == Silent("D", <<255, 255>>)

\* A reference around something, of a tag with one string.
Opens(t, m, refs) == Part(Bytes(t, Str(m)), inv, refs)
E == Part(Bytes("E", <<>>), end, <<>>)
P(m) == Silent("P", Str(m))
EndOfP == Silent("E", <<>>)
L(m) == Opens("L", m, Ref("L", m, 0, 0))
Z(m) == Opens("Z", m, <<>>)
Zref(m) == Part(<<>>, <<>>, Ref("Z", m, 0, 0))
ImageButton(m) == Part(Bytes("i", Str(m) \o Str(m + 1)), inv, Ref("i", m, m + 1, 0))

\* Controls: the name and the value or the text.
Control(t, m, flags, tail, pic) ==
  Part(Bytes(t, flags \o Str(m) \o Str(m + 1) \o tail), inv \o Pic(pic) \o end,
       Ref(t, m, m + 1, 0))

\* A list of three items, named m + 2k - 1 with value m + 2k, the second chosen.
Item(m, mark) == Bytes("o", Str(m) \o Str(m + 1) \o <<mark>>)
List(m) ==
  Part(Bytes("s", Str(m) \o <<0, 0, 3>>) \o Item(m + 1, 0) \o Item(m + 3, 1) \o Item(m + 5, 0),
       inv \o Pic(ListForm) \o end, Ref("s", m, m + 3, m + 4))

-----------------------------------------------------------------------------
(* The orders of tags a page is made of.  v2: the header is of version 2;    *)
(* pics: the pictures already sent.                                          *)

Known(name, m, v2, pics) ==
  CASE name = "T"     -> T(m)
    [] name = "utf8"  -> Utf
    [] name = "LTE"   -> L(m) ++ T(m + 1) ++ E
    [] name = "^TE"   -> Opens("^", m, Ref("^", m, 0, 0)) ++ T(m + 1) ++ E
    [] name = "LIE"   -> L(m) ++ I(m + 1) ++ E
    [] name = "LKE"   -> L(m) ++ K(pics) ++ E
    [] name = "LISTE" -> L(m) ++ I(m + 1) ++ S(2) ++ T(m + 2) ++ E
    [] name = "LBTJE" -> L(m) ++ Br ++ T(m + 1) ++ J(5) ++ E
    [] name = "LTBYE" -> S(34) ++ S(0) ++ L(m) ++ T(m + 1) ++ Br ++ Y(0) ++ E
    [] name = "ZJE"   -> Z(m) ++ J(5) ++ E ++ Zref(m)
    [] name = "iI"    -> ImageButton(m) ++ I(m + 2) ++ Part(<<>>, end, <<>>)
    [] name = "iJ"    -> ImageButton(m) ++ J(6) ++ Part(<<>>, end, <<>>)
    [] name = "iZIE"  -> ImageButton(m) ++ Z(m + 2) ++ I(m + 3) ++ Part(<<>>, end, <<>>)
                         ++ E ++ Zref(m + 2)
    [] name = "LZIEE" -> L(m) ++ Z(m + 2) ++ I(m + 3) ++ E ++ E ++ Zref(m + 2)
    [] name = "LPTETPTETE" -> L(m) ++ P(m + 1) ++ T(m + 2) ++ EndOfP ++ T(m + 3)
                         ++ P(m + 4) ++ T(m + 5) ++ EndOfP ++ T(m + 6) ++ E
    [] name = "IK"    -> I(m) ++ K(Append(pics, m))
    [] name = "SK"    -> S(16) ++ K(pics) ++ D ++ S(32)
    [] name = "X"     -> X(m)
    [] name = "I"     -> I(m)
    [] name = "J"     -> J(5) ++ J(6)
    [] name = "rules" -> Rule("(", <<>>) ++ T(m) ++ Rule("R", <<0, 0>>)
    [] name = "A"     -> Part(Bytes("A", Str(m)), <<>>, Ref("A", 0, m, 0)) ++ Space
    [] name = "@"     -> Part(Bytes("@", <<0, 3>> \o Str(m)),
                              inv \o Txt(m) \o says("br", 0) \o end, Ref("@", m, 0, 0))
                         ++ Silent("@", <<0, 0, 0, 0>>)
    [] name = "k"     -> Part(Bytes("k", <<1>> \o Str(m)),
                              Pic(Hr) \o says("msg", 0) \o Txt(m) \o Pic(Hr), <<>>)
    [] name = "h"     -> Silent("h", Str(m) \o Str(m)) ++ Silent("+", <<>>)
    [] name = "e"     -> Silent("C", <<>>)
    [] name = "x"     -> Control("x", m, IF v2 THEN <<1>> ELSE <<>>, <<>>, TextForm)
    [] name = "p"     -> Control("p", m, <<>>, <<>>, TextForm)
    [] name = "u"     -> Control("u", m, <<>>, <<>>, m + 2)
    [] name = "cc"    -> Control("c", m, <<>>, <<1>>, SwitchPic("c", 1))
                         ++ Control("c", m + 2, <<>>, <<0>>, SwitchPic("c", 0))
    [] name = "rr"    -> Control("r", m, <<>>, <<0>>, SwitchPic("r", 0))
                         ++ Control("r", m + 2, <<>>, <<1>>, SwitchPic("r", 1))
    [] name = "s"     -> List(m)
    [] name = "odd"   -> Part(<<200>>, <<>>, <<>>)          \* a tag the parser does not know
    [] name = "o"     -> Part(Item(m, 0), <<>>, <<>>)       \* an item without a list

\* A title, the parts named, and the end of the page.  The text of a page
\* begins with its title, on a line of its own.
Body(names, v2) ==
  LET add(p, i) == p ++ Known(names[i], 100 + 10 * i, v2, p.pics)
      title == T(99) ++ Part(<<>>, says("br", 0), <<>>)
  IN  FoldLeftDomain(add, title, names) ++ Silent("Q", <<>>)

\* The kinds of page: the two bytes of magic; and one the parser does not know.
Kinds == {<<13, 51>>, <<24, 51>>, <<13, 49>>, <<24, 50>>}
UnknownKind == <<24, 52>>
IsV2(kind) == kind[1] = 24
IsZipped(kind) == kind \in {<<13, 49>>, <<24, 50>>}

Zeros(n) == [i \in 1 .. n |-> 0]

\* A page of the given kind; when it is compressed, ratio bytes come out of
\* each byte sent, but all of them at the last if late.
MakePage(names, kind, ratio, late, bad) ==
  LET v2 == IsV2(kind)
      body == Body(names, v2)
      start == kind \o Zeros(4) \o Zeros(IF kind = <<13, 49>> THEN GZIP_HEADER ELSE 0)
      rest == Zeros(IF v2 THEN HEADER_V2 ELSE HEADER_V2 - 2) \o <<0, 1, 98>> \o body.bytes
      sent == (Len(rest) + ratio - 1) \div ratio
      yield == [n \in 1 .. sent |->
                  IF late /\ n < sent THEN 0
                  ELSE IF n * ratio < Len(rest) THEN n * ratio ELSE Len(rest)]
      mem == start \o rest
  IN  [mem |-> mem, plain |-> IF IsZipped(kind) THEN Len(start) ELSE Len(mem),
       yield |-> IF IsZipped(kind) THEN yield ELSE <<>>, bad |-> bad,
       says |-> body.says, refs |-> body.refs]
=============================================================================
