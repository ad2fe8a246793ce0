------------------------------ MODULE ViewData ------------------------------
(***************************************************************************)
(* The page being built in a view: the structure VIEWDATA                  *)
(* (BalletMini/view.h) and the operations of additems.c the parser calls   *)
(* on it.  Each operation takes the structure and returns it changed.      *)
(*                                                                         *)
(* rawtext is a sequence of symbols [k, n]: the kind of the 16-bit         *)
(* character and, for text, its code or, for a picture, its number in the  *)
(* private area (w_char - FIRST_UCS2_USER_BITMAP).  The two words of       *)
(* colour behind INK_RGBA and PAPER_RGBA are left out; frames are narrower *)
(* than the screen, pictures can be decoded, and the firmware gives no     *)
(* icon twice.                                                             *)
(***************************************************************************)
EXTENDS Integers, Sequences, SequencesExt

CONSTANTS MaxIcons,    \* the numbers for which the firmware has an icon
          UserText,    \* ids of inputs whose text the page stack has saved
          UserList,    \* id of a list -> the choice the page stack has saved
          UINT         \* unsigned counters wrap here

ASSUME MaxIconsAssumption == MaxIcons \in Nat
ASSUME UserListAssumption ==
  \A id \in DOMAIN UserList : UserList[id] \in [value : Nat, id2 : Nat]
ASSUME UINTAssumption == UINT \in Nat \ {0}

NOREF == -1            \* _NOREF, and the 0xFF the structures are filled with
FIRST == 0             \* FIRST_UCS2_USER_BITMAP: no picture
DP_IS_FRAME == -2
DP_IS_NOINDEX == -1

Sym(k, n) == [k |-> k, n |-> n]

EmptyRef == [tag |-> "none", begin |-> NOREF, end |-> NOREF, id |-> NOREF,
             value |-> NOREF, id2 |-> NOREF, data |-> <<>>, size |-> NOREF,
             no_upload |-> NOREF, multiselect |-> NOREF]

PlainStyle == [bold |-> 0, center |-> 0, right |-> 0]

\* The pictures of the resource directory a page can ask for.
Glyphs == {"RADIO_ON", "RADIO_OFF", "BUTTON_ON", "BUTTON_OFF", "TEXT_FORM", "LIST_FORM"}

NewViewData ==
  [oms_size |-> 0, oms_pos |-> 0, oms_wanted |-> 0, parse_state |-> <<"BEGIN", "none">>,
   zs |-> "none", rawtext |-> <<>>, ref_cache |-> <<>>, pos_cur_ref |-> NOREF,
   work_ref |-> EmptyRef, work_ref_Z |-> EmptyRef, ref_mode_i |-> 0, ref_mode_P |-> 0,
   tag_o_count |-> 0, S_cache |-> <<>>, current_tag_s |-> PlainStyle,
   prev_tag_s |-> PlainStyle, title |-> FALSE, iw |-> 0, ih |-> 0,
   dynpng_list |-> <<>>, wchar_hr |-> FIRST, WCHAR |-> [g \in Glyphs |-> NOREF]]

-----------------------------------------------------------------------------
(* Text and styles.                                                          *)

RawInsert(vd, syms) == [vd EXCEPT !.rawtext = @ \o syms]

\* One symbol for each UTF-8 sequence of one, two or three bytes; a sequence cut
\* off by the end is taken byte by byte.
AddTextItem(vd, text) ==
  LET n == Len(text)
      chars[i \in 1 .. n + 1] ==
        IF i = n + 1 THEN <<>>
        ELSE IF text[i] \div 32 = 6 /\ i + 1 <= n
             THEN <<Sym("txt", 64 * (text[i] % 32) + (text[i + 1] % 64))>> \o chars[i + 2]
        ELSE IF text[i] \div 16 = 14 /\ i + 2 <= n
             THEN <<Sym("txt", 4096 * (text[i] % 16) + 64 * (text[i + 1] % 64)
                               + (text[i + 2] % 64))>> \o chars[i + 3]
        ELSE <<Sym("txt", text[i])>> \o chars[i + 1]
  IN  RawInsert(vd, chars[1])

AddBrItem(vd) == RawInsert(vd, <<Sym("br", 0)>>)
AddPItem(vd) == RawInsert(vd, <<Sym("sp", 0)>>)

\* A message of the parser itself, on a line of its own.
AddMessage(vd) == AddBrItem(RawInsert(vd, <<Sym("msg", 0)>>))

\* An attribute is marked only where it differs from the style before.
AddNewStyle(vd) ==
  LET mark(a) == IF vd.current_tag_s[a] # vd.prev_tag_s[a]
                 THEN <<Sym(a, vd.current_tag_s[a])>> ELSE <<>>
  IN  RawInsert(vd, mark("bold") \o <<Sym("ink", 0), Sym("paper", 0)>>
                    \o mark("center") \o mark("right"))

-----------------------------------------------------------------------------
(* References: links, anchors and the controls of forms.                     *)

ENA_INVERT == Sym("inv", 0)
DIS_INVERT == Sym("end", 0)

AddBeginRef(vd) ==
  RawInsert([vd EXCEPT !.work_ref.begin = Len(vd.rawtext)], <<ENA_INVERT>>)

AddBeginRefZ(vd) ==
  RawInsert([vd EXCEPT !.work_ref_Z.begin = Len(vd.rawtext)], <<ENA_INVERT>>)

AddToRefCache(vd) ==
  [vd EXCEPT !.ref_cache = Append(@, vd.work_ref), !.work_ref = EmptyRef]

\* mutant: the end is taken before the mark is in the text
AddEndRefEarly(vd) ==
  AddToRefCache(
    [RawInsert(vd, <<DIS_INVERT>>) EXCEPT
       !.pos_cur_ref = IF @ = NOREF THEN vd.work_ref.begin ELSE @,
       !.work_ref.end = Len(vd.rawtext)])

AddEndRef(vd) ==
  AddToRefCache(
    [RawInsert(vd, <<DIS_INVERT>>) EXCEPT
       !.pos_cur_ref = IF @ = NOREF THEN vd.work_ref.begin ELSE @,
       !.work_ref.end = Len(vd.rawtext) + 1])

-----------------------------------------------------------------------------
(* Pictures.  The list of the view and the firmware's list are one: a        *)
(* picture stands in the text as a character of the private area, and only   *)
(* those sent with the page (index >= 0) can be named by it again.           *)

HasIcon(w) == w <= MaxIcons

Indexed(list) == SelectSeq(list, LAMBDA d : d.index >= 0)

\* Returns the view and the character of the picture.
AddToDPngQueue(vd, is_index, size) ==
  LET list == vd.dynpng_list
      w == Len(list) + 1
      index == IF is_index >= 0 THEN Len(Indexed(list)) ELSE is_index
  IN  IF list = <<>> \/ HasIcon(Last(list).w_char)
      THEN [vd |-> [vd EXCEPT !.dynpng_list =
                      Append(@, [w_char |-> w, index |-> index, size |-> size])],
            w |-> w]
      ELSE [vd |-> vd, w |-> FIRST]

InsertPic(q) == RawInsert(q.vd, <<Sym("pic", q.w)>>)

\* A picture of a type the firmware can decode.
AddPictureItem(vd) == InsertPic(AddToDPngQueue(vd, 0, <<0, 0>>))

AddPictureItemRGBA(vd) == InsertPic(AddToDPngQueue(vd, DP_IS_NOINDEX, <<0, 0>>))

AddPictureItemIndex(vd, index) ==
  LET d == SelectSeq(vd.dynpng_list, LAMBDA e : e.index = index)
  IN  InsertPic([vd |-> vd, w |-> IF d = <<>> THEN FIRST ELSE Head(d).w_char])

\* A frame of a size that was drawn before is used again.
AddPictureItemFrame(vd, width, height) ==
  LET d == SelectSeq(vd.dynpng_list,
                     LAMBDA e : e.index = DP_IS_FRAME /\ e.size = <<width, height>>)
  IN  InsertPic(IF d # <<>> THEN [vd |-> vd, w |-> Head(d).w_char]
                ELSE AddToDPngQueue(vd, DP_IS_FRAME, <<width, height>>))

AddPictureItemHr(vd) ==
  LET q == AddToDPngQueue(vd, DP_IS_NOINDEX, <<0, 0>>)
  IN  InsertPic(IF vd.wchar_hr # FIRST THEN [vd |-> vd, w |-> vd.wchar_hr]
                ELSE [q EXCEPT !.vd.wchar_hr = q.w])

\* The picture file for g is loaded once for a page.
AddPictureItemFile(vd, g) ==
  LET q == AddToDPngQueue(vd, DP_IS_NOINDEX, <<0, 0>>)
  IN  [q.vd EXCEPT !.WCHAR[g] = q.w]

InsertGlyph(vd, g) == InsertPic([vd |-> vd, w |-> vd.WCHAR[g]])

\* Radio buttons and check boxes load the picture of both states at once.
AddSwitch(vd, on, off, checked) ==
  InsertGlyph(IF vd.WCHAR[on] = NOREF
              THEN AddPictureItemFile(AddPictureItemFile(vd, on), off) ELSE vd,
              IF checked # 0 THEN on ELSE off)

AddRadioButton(vd, checked) == AddSwitch(vd, "RADIO_ON", "RADIO_OFF", checked)
AddCheckBoxItem(vd, checked) == AddSwitch(vd, "BUTTON_ON", "BUTTON_OFF", checked)

LoadOnce(vd, g) == IF vd.WCHAR[g] = NOREF THEN AddPictureItemFile(vd, g) ELSE vd

\* The text of the input is the one the user gave before, if any.
AddInputItem(vd) ==
  [InsertGlyph(LoadOnce(vd, "TEXT_FORM"), "TEXT_FORM") EXCEPT
     !.work_ref.data = <<IF vd.work_ref.id \in UserText THEN "user" ELSE "page">>]

AddButtonItem(vd) ==
  [AddPictureItemRGBA(vd) EXCEPT !.work_ref.data = <<"page">>]

\* mutant: the saved choice is not looked up
AddDropDownListFresh(vd) == InsertGlyph(LoadOnce(vd, "LIST_FORM"), "LIST_FORM")

AddDropDownList(vd) ==
  LET l == InsertGlyph(LoadOnce(vd, "LIST_FORM"), "LIST_FORM")
      id == vd.work_ref.id
  IN  IF id \in DOMAIN UserList
      THEN [l EXCEPT !.work_ref.value = UserList[id].value, !.work_ref.id2 = UserList[id].id2]
      ELSE l
=============================================================================
