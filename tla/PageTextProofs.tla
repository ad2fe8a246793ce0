--------------------------- MODULE PageTextProofs ---------------------------
(***************************************************************************)
(* The text of a page on its way to the screen: ParseOms reads it, and     *)
(* PageView cuts it into lines.                                            *)
(*                                                                         *)
(* The parser reads no byte before it has arrived, for every page, sound   *)
(* or not, and however it is cut and compressed.  The argument: what lies  *)
(* between oms_pos and oms_wanted is, in every state, exactly what the     *)
(* state will read (Waits); a state runs only when oms_size has reached    *)
(* oms_wanted, and ends with oms_pos where oms_wanted was.  What the tags  *)
(* do to text, references and pictures leaves these fields alone (Same).   *)
(*                                                                         *)
(* The lines are sound for every text, screen and font.  The argument: a   *)
(* line that is scanned gives back, in Wrap, less than it took, so that it *)
(* takes a symbol; and every operation on the view goes up and down over   *)
(* lines that are there or adds one with LineDown (Down, Kept).            *)
(*                                                                         *)
(* The lines are those of the page as a whole, however it was cut.  The    *)
(* argument: the attributes the last line was left with are those with     *)
(* which the whole text is scanned somewhere in that line (Pending), a     *)
(* mark that is passed again sets its attribute again, and so the scan     *)
(* that finishes the line is the scan of the whole (ScanCompared, Cut).    *)
(***************************************************************************)
EXTENDS ParseOms, PageView, SequenceTheorems, WellFoundedInduction, TLAPS

CursorFields == {"oms_size", "oms_pos", "oms_wanted", "parse_state", "zs", "iw", "ih"}

HasCursor(v) == CursorFields \subseteq DOMAIN v

\* w is a view with the place in the data that v has.
Same(v, w) == HasCursor(w) /\ \A f \in CursorFields : w[f] = v[f]

-----------------------------------------------------------------------------
(* The operations of additems.c leave the place in the data alone.           *)

LEMMA SameRefl == ASSUME NEW v, HasCursor(v) PROVE Same(v, v)
BY DEF Same

LEMMA SameTrans == ASSUME NEW u, NEW v, NEW w, Same(u, v), Same(v, w) PROVE Same(u, w)
BY DEF Same

\* Changing any other field.
LEMMA OtherField ==
  ASSUME NEW v, HasCursor(v), NEW f, f \notin CursorFields, NEW x
  PROVE  Same(v, [v EXCEPT ![f] = x])
BY DEF Same, HasCursor

LEMMA RawInsertSame == ASSUME NEW v, HasCursor(v), NEW s PROVE Same(v, RawInsert(v, s))
BY OtherField DEF RawInsert, CursorFields

LEMMA TextSame ==
  ASSUME NEW v, HasCursor(v), NEW text PROVE Same(v, AddTextItem(v, text))
BY RawInsertSame DEF AddTextItem

LEMMA BrSame == ASSUME NEW v, HasCursor(v) PROVE Same(v, AddBrItem(v)) /\ Same(v, AddPItem(v))
BY RawInsertSame DEF AddBrItem, AddPItem

LEMMA MessageSame == ASSUME NEW v, HasCursor(v) PROVE Same(v, AddMessage(v))
<1> DEFINE w == RawInsert(v, <<Sym("msg", 0)>>)
<1>1. Same(v, w) BY RawInsertSame
<1>2. Same(w, AddBrItem(w)) BY <1>1, BrSame DEF Same
<1> QED BY <1>1, <1>2, SameTrans DEF AddMessage

LEMMA StyleSame == ASSUME NEW v, HasCursor(v) PROVE Same(v, AddNewStyle(v))
BY RawInsertSame DEF AddNewStyle

LEMMA BeginSame ==
  ASSUME NEW v, HasCursor(v) PROVE Same(v, AddBeginRef(v)) /\ Same(v, AddBeginRefZ(v))
<1> DEFINE a == [v EXCEPT !.work_ref.begin = Len(v.rawtext)]
           b == [v EXCEPT !.work_ref_Z.begin = Len(v.rawtext)]
<1>1. Same(v, a) BY OtherField DEF CursorFields
<1>2. Same(v, b) BY OtherField DEF CursorFields
<1>3. Same(a, AddBeginRef(v)) BY <1>1, RawInsertSame DEF AddBeginRef, Same
<1>4. Same(b, AddBeginRefZ(v)) BY <1>2, RawInsertSame DEF AddBeginRefZ, Same
<1> QED BY <1>1, <1>2, <1>3, <1>4, SameTrans

LEMMA CacheSame == ASSUME NEW v, HasCursor(v) PROVE Same(v, AddToRefCache(v))
BY DEF AddToRefCache, Same, HasCursor, CursorFields

LEMMA EndSame == ASSUME NEW v, HasCursor(v) PROVE Same(v, AddEndRef(v))
<1> DEFINE a == RawInsert(v, <<DIS_INVERT>>)
           b == [a EXCEPT !.pos_cur_ref = IF @ = NOREF THEN v.work_ref.begin ELSE @,
                          !.work_ref.end = Len(v.rawtext) + 1]
<1>1. Same(v, a) BY RawInsertSame
<1>2. Same(a, b) BY <1>1 DEF Same, HasCursor, CursorFields
<1>3. Same(b, AddEndRef(v))
  <2>1. AddEndRef(v) = AddToRefCache(b) BY DEF AddEndRef
  <2>2. HasCursor(b) BY <1>2 DEF Same
  <2> HIDE DEF b
  <2> QED BY <2>1, <2>2, CacheSame
<1> QED BY <1>1, <1>2, <1>3, SameTrans

LEMMA QueueSame ==
  ASSUME NEW v, HasCursor(v), NEW i, NEW s PROVE Same(v, AddToDPngQueue(v, i, s).vd)
BY OtherField, SameRefl DEF AddToDPngQueue, CursorFields

LEMMA InsertPicSame ==
  ASSUME NEW v, NEW q, HasCursor(v), Same(v, q.vd) PROVE Same(v, InsertPic(q))
BY RawInsertSame, SameTrans DEF InsertPic, Same

LEMMA PictureSame ==
  ASSUME NEW v, HasCursor(v), NEW i, NEW j
  PROVE  /\ Same(v, AddPictureItem(v)) /\ Same(v, AddPictureItemRGBA(v))
         /\ Same(v, AddPictureItemIndex(v, i)) /\ Same(v, AddPictureItemFrame(v, i, j))
<1>1. Same(v, AddPictureItem(v)) BY QueueSame, InsertPicSame DEF AddPictureItem
<1>2. Same(v, AddPictureItemRGBA(v)) BY QueueSame, InsertPicSame DEF AddPictureItemRGBA
<1>3. Same(v, AddPictureItemIndex(v, i)) BY SameRefl, InsertPicSame DEF AddPictureItemIndex
<1>4. Same(v, AddPictureItemFrame(v, i, j))
  BY SameRefl, QueueSame, InsertPicSame DEF AddPictureItemFrame
<1> QED BY <1>1, <1>2, <1>3, <1>4

LEMMA HrSame == ASSUME NEW v, HasCursor(v) PROVE Same(v, AddPictureItemHr(v))
<1> DEFINE q == AddToDPngQueue(v, DP_IS_NOINDEX, <<0, 0>>)
           r == [q EXCEPT !.vd.wchar_hr = q.w]
<1>1. Same(v, q.vd) BY QueueSame
<1>2. r.vd = [q.vd EXCEPT !["wchar_hr"] = q.w] BY DEF AddToDPngQueue
<1>3. Same(v, r.vd)
  <2>1. Same(q.vd, [q.vd EXCEPT !["wchar_hr"] = q.w])
    BY <1>1, OtherField DEF Same, CursorFields
  <2> QED BY <1>1, <1>2, <2>1, SameTrans
<1>4. CASE v.wchar_hr # FIRST BY <1>4, SameRefl, InsertPicSame DEF AddPictureItemHr
<1>5. CASE v.wchar_hr = FIRST BY <1>3, <1>5, InsertPicSame DEF AddPictureItemHr
<1> QED BY <1>4, <1>5

LEMMA FileSame ==
  ASSUME NEW v, HasCursor(v), NEW g PROVE Same(v, AddPictureItemFile(v, g))
<1> DEFINE q == AddToDPngQueue(v, DP_IS_NOINDEX, <<0, 0>>)
<1>1. Same(v, q.vd) BY QueueSame
<1>2. Same(q.vd, AddPictureItemFile(v, g))
  BY <1>1, OtherField DEF AddPictureItemFile, Same, CursorFields
<1> QED BY <1>1, <1>2, SameTrans

LEMMA GlyphSame ==
  ASSUME NEW v, HasCursor(v), NEW g
  PROVE  Same(v, InsertGlyph(v, g)) /\ Same(v, LoadOnce(v, g))
BY SameRefl, InsertPicSame, FileSame DEF InsertGlyph, LoadOnce

LEMMA SwitchSame ==
  ASSUME NEW v, HasCursor(v), NEW a, NEW b, NEW c PROVE Same(v, AddSwitch(v, a, b, c))
<1> DEFINE x == AddPictureItemFile(v, a)
           y == AddPictureItemFile(x, b)
           w == IF v.WCHAR[a] = NOREF THEN y ELSE v
<1>1. Same(v, x) BY FileSame
<1>2. Same(x, y) BY <1>1, FileSame DEF Same
<1>3. Same(v, w) BY <1>1, <1>2, SameTrans, SameRefl
<1>4. Same(w, AddSwitch(v, a, b, c)) BY <1>3, GlyphSame DEF AddSwitch, Same
<1> QED BY <1>3, <1>4, SameTrans

LEMMA ControlSame ==
  ASSUME NEW v, HasCursor(v)
  PROVE  Same(v, AddInputItem(v)) /\ Same(v, AddButtonItem(v)) /\ Same(v, AddDropDownList(v))
<1>1. Same(v, AddInputItem(v))
  <2> DEFINE a == LoadOnce(v, "TEXT_FORM")
             b == InsertGlyph(a, "TEXT_FORM")
  <2>1. Same(v, a) BY GlyphSame
  <2>2. Same(a, b) BY <2>1, GlyphSame DEF Same
  <2>3. Same(b, AddInputItem(v)) BY <2>2 DEF AddInputItem, Same, HasCursor, CursorFields
  <2> QED BY <2>1, <2>2, <2>3, SameTrans
<1>2. Same(v, AddButtonItem(v))
  <2>1. Same(v, AddPictureItemRGBA(v)) BY PictureSame
  <2>2. Same(AddPictureItemRGBA(v), AddButtonItem(v))
    BY <2>1 DEF AddButtonItem, Same, HasCursor, CursorFields
  <2> QED BY <2>1, <2>2, SameTrans
<1>3. Same(v, AddDropDownList(v))
  <2> DEFINE a == LoadOnce(v, "LIST_FORM")
             b == InsertGlyph(a, "LIST_FORM")
  <2>1. Same(v, a) BY GlyphSame
  <2>2. Same(a, b) BY <2>1, GlyphSame DEF Same
  <2>3. Same(b, AddDropDownList(v)) BY <2>2 DEF AddDropDownList, Same, HasCursor, CursorFields
  <2> QED BY <2>1, <2>2, <2>3, SameTrans
<1> QED BY <1>1, <1>2, <1>3

-----------------------------------------------------------------------------
(* What the parser does with a tag.                                          *)

\* The same, up to the lengths iw and ih.
Place(v, w) ==
  /\ HasCursor(w)
  /\ \A f \in CursorFields \ {"iw", "ih"} : w[f] = v[f]
  /\ w.iw \in Nat /\ w.ih \in Nat

Sized(v) == HasCursor(v) /\ v.iw \in Nat /\ v.ih \in Nat

LEMMA SamePlace ==
  ASSUME NEW u, NEW v, NEW w, Place(u, v), Same(v, w) PROVE Place(u, w)
BY DEF Place, Same, CursorFields

LEMMA FinishSame == ASSUME NEW v, HasCursor(v) PROVE Same(v, FinishRef(v))
<1> DEFINE w == IF v.work_ref.tag = "none" /\ v.work_ref_Z.tag = "Z"
                THEN [v EXCEPT !.work_ref = v.work_ref_Z, !.work_ref_Z = EmptyRef] ELSE v
           x == IF v.ref_mode_P = 0 THEN AddEndRef(w) ELSE w
<1>1. Same(v, w) BY SameRefl DEF Same, HasCursor, CursorFields
<1>2. Same(w, x)
  <2>1. HasCursor(w) BY <1>1 DEF Same
  <2> HIDE DEF w
  <2> QED BY <2>1, EndSame, SameRefl
<1>3. Same(x, [x EXCEPT !["ref_mode_P"] = 0])
  <2>1. HasCursor(x) BY <1>2 DEF Same
  <2> HIDE DEF x
  <2> QED BY <2>1, OtherField DEF CursorFields
<1>4. FinishRef(v) = [x EXCEPT !["ref_mode_P"] = 0] BY DEF FinishRef
<1> QED BY <1>1, <1>2, <1>3, <1>4, SameTrans

LEMMA BareSame == ASSUME NEW v, HasCursor(v), NEW t PROVE Same(v, DoBare(v, t))
<1>1. CASE t \in {"(", ")"} BY <1>1, HrSame DEF DoBare
<1>2. CASE t = "B" BY <1>2, BrSame DEF DoBare
<1>3. CASE t = "V" BY <1>3, BrSame DEF DoBare
<1>4. CASE t = "C" BY <1>4 DEF DoBare, Same, HasCursor, CursorFields
<1>5. CASE t = "E" BY <1>5, FinishSame DEF DoBare
<1>6. CASE t \notin {"(", ")", "B", "V", "C", "E"} BY <1>6, SameRefl DEF DoBare
<1> QED BY <1>1, <1>2, <1>3, <1>4, <1>5, <1>6

LEMMA CountSame == ASSUME NEW v, HasCursor(v) PROVE Same(v, CountPicture(v))
<1> DEFINE n == (v.ref_mode_i + UINT - 1) % UINT
           w == [v EXCEPT !["ref_mode_i"] = n]
<1>1. Same(v, w) BY OtherField DEF CursorFields
<1>2. CountPicture(v) = IF n = 0 THEN AddEndRef(w) ELSE w BY DEF CountPicture
<1>3. HasCursor(w) BY <1>1 DEF Same
<1> HIDE DEF w, n
<1> QED BY <1>1, <1>2, <1>3, EndSame, SameTrans

LEMMA SetStyleSame == ASSUME NEW v, HasCursor(v), NEW s PROVE Same(v, SetStyle(v, s))
<1> DEFINE w == [v EXCEPT !.prev_tag_s = v.current_tag_s, !.current_tag_s = s]
<1>1. Same(v, w) BY DEF Same, HasCursor, CursorFields
<1>2. SetStyle(v, s) = AddNewStyle(w) BY DEF SetStyle
<1>3. HasCursor(w) BY <1>1 DEF Same
<1> HIDE DEF w
<1> QED BY <1>1, <1>2, <1>3, StyleSame, SameTrans

LEMMA CompletePlace ==
  ASSUME NEW v, Sized(v), NEW t \in Complete, NEW p \in Nat,
         rshort(p) \in Nat, rshort(p + 2) \in Nat
  PROVE  Place(v, DoComplete(v, t, p))
<1>0. Place(v, v) BY DEF Place, Sized
<1>1. CASE t = "D"
  <2>1. Same(v, AddNewStyle(v)) BY StyleSame DEF Sized
  <2> QED BY <1>0, <1>1, <2>1, SamePlace DEF DoComplete
<1>2. CASE t = "S"
  <2> DEFINE w == [v EXCEPT !["S_cache"] = Append(@, Style(At(p)))]
  <2>1. Same(v, w) BY OtherField DEF Sized, CursorFields
  <2>2. DoComplete(v, t, p) = SetStyle(w, Style(At(p))) BY <1>2 DEF DoComplete
  <2>3. HasCursor(w) BY <2>1 DEF Same
  <2> HIDE DEF w
  <2> QED BY <1>0, <2>1, <2>2, <2>3, SetStyleSame, SamePlace
<1>3. CASE t = "Y"
  <2>1. DoComplete(v, t, p) = SetStyle(v, v.S_cache[At(p) + 1]) BY <1>3 DEF DoComplete
  <2> QED BY <1>0, <2>1, SetStyleSame, SamePlace DEF Sized
<1>4. CASE t = "J"
  <2> DEFINE w == [v EXCEPT !.iw = rshort(p), !.ih = rshort(p + 2)]
             x == AddPictureItemFrame(w, rshort(p), rshort(p + 2))
  <2>1. Place(v, w) BY DEF Place, Sized, HasCursor, CursorFields
  <2>2. DoComplete(v, t, p) = CountPicture(x) BY <1>4 DEF DoComplete
  <2>3. HasCursor(w) BY <2>1 DEF Place
  <2> HIDE DEF w
  <2>4. Same(w, x) BY <2>3, PictureSame
  <2>5. HasCursor(x) BY <2>4 DEF Same
  <2> HIDE DEF x
  <2> QED BY <2>1, <2>2, <2>4, <2>5, CountSame, SamePlace
<1>5. CASE t = "K"
  <2> DEFINE x == AddPictureItemIndex(v, rshort(p + 4))
  <2>1. DoComplete(v, t, p) = CountPicture(x) BY <1>5 DEF DoComplete
  <2>2. Same(v, x) BY PictureSame DEF Sized
  <2>3. HasCursor(x) BY <2>2 DEF Same
  <2> HIDE DEF x
  <2> QED BY <1>0, <2>1, <2>2, <2>3, CountSame, SamePlace
<1>6. CASE t = "R"
  <2>1. DoComplete(v, t, p) = AddPictureItemHr(v) BY <1>6 DEF DoComplete
  <2> QED BY <1>0, <2>1, HrSame, SamePlace DEF Sized
<1> QED BY <1>1, <1>2, <1>3, <1>4, <1>5, <1>6 DEF Complete

LEMMA BeginTagSame == ASSUME NEW v, HasCursor(v), NEW t PROVE Same(v, BeginTag(v, t))
<1> DEFINE a == AddBeginRef(v)
           z == AddBeginRefZ(v)
<1>1. Same(v, a) /\ Same(v, z) BY BeginSame
<1>2. HasCursor(a) /\ HasCursor(z) BY <1>1 DEF Same
<1>3. CASE t \in {"A", "e", "i"} BY <1>3 DEF BeginTag, Same, HasCursor, CursorFields
<1>4. CASE t = "o" BY <1>4 DEF BeginTag, Same, HasCursor, CursorFields
<1>5. CASE t \in {"p", "u", "x", "c", "r", "s", "L", "^"}
  <2>1. BeginTag(v, t) = [a EXCEPT !.work_ref.tag = t] BY <1>5 DEF BeginTag
  <2> HIDE DEF a
  <2>2. Same(a, BeginTag(v, t)) BY <1>2, <2>1 DEF Same, HasCursor, CursorFields
  <2> QED BY <1>1, <2>2, SameTrans
<1>6. CASE t = "@"
  <2>1. BeginTag(v, t) = [a EXCEPT !.work_ref.tag = t, !.work_ref.id2 = v.ih,
                                   !.work_ref.id = v.oms_pos - 2]
    BY <1>6 DEF BeginTag
  <2> HIDE DEF a
  <2>2. Same(a, BeginTag(v, t)) BY <1>2, <2>1 DEF Same, HasCursor, CursorFields
  <2> QED BY <1>1, <2>2, SameTrans
<1>7. CASE t = "Z"
  <2>1. BeginTag(v, t) = [z EXCEPT !.work_ref_Z.tag = t, !.work_ref_Z.id = v.oms_pos - 2]
    BY <1>7 DEF BeginTag
  <2> HIDE DEF z
  <2>2. Same(z, BeginTag(v, t)) BY <1>2, <2>1 DEF Same, HasCursor, CursorFields
  <2> QED BY <1>1, <2>2, SameTrans
<1>8. CASE t \notin {"A", "e", "i", "o", "p", "u", "x", "c", "r", "s", "L", "^", "@", "Z"}
  BY <1>8, SameRefl DEF BeginTag
<1> QED BY <1>3, <1>4, <1>5, <1>6, <1>7, <1>8

LEMMA TitleSame == ASSUME NEW v, HasCursor(v) PROVE Same(v, AddTitle(v))
<1> DEFINE w == [v EXCEPT !["title"] = TRUE]
<1>1. Same(v, w) BY OtherField DEF CursorFields
<1>2. HasCursor(w) BY <1>1 DEF Same
<1>3. AddTitle(v) = IF v.title THEN v ELSE AddBrItem(w) BY DEF AddTitle
<1> HIDE DEF w
<1> QED BY <1>1, <1>2, <1>3, BrSame, SameRefl, SameTrans

LEMMA CodeSame ==
  ASSUME NEW v, HasCursor(v), NEW text, NEW s
  PROVE  Same(v, AddPictureItemHr(AddTextItem(RawInsert(AddPictureItemHr(v), s), text)))
<1> DEFINE a == AddPictureItemHr(v)
           b == RawInsert(a, s)
           c == AddTextItem(b, text)
<1>1. Same(v, a) BY HrSame
<1>2. Same(a, b) BY <1>1, RawInsertSame DEF Same
<1>3. Same(b, c) BY <1>2, TextSame DEF Same
<1>4. Same(c, AddPictureItemHr(c)) BY <1>3, HrSame DEF Same
<1> QED BY <1>1, <1>2, <1>3, <1>4, SameTrans

LEMMA StringSame ==
  ASSUME NEW v, HasCursor(v), NEW t, NEW n PROVE Same(v, DoString(v, t, n))
<1>1. CASE t = "A"
  <2> DEFINE w == [v EXCEPT !.work_ref.value = v.oms_pos, !.work_ref.size = n,
                            !.work_ref.id2 = Len(v.rawtext)]
  <2>1. Same(v, w) BY DEF Same, HasCursor, CursorFields
  <2>2. HasCursor(w) BY <2>1 DEF Same
  <2>3. DoString(v, t, n) = AddToRefCache(w) BY <1>1 DEF DoString
  <2> HIDE DEF w
  <2> QED BY <2>1, <2>2, <2>3, CacheSame, SameTrans
<1>2. CASE t = "T"
  <2> DEFINE w == AddTextItem(v, Bytes(v.oms_pos, n))
  <2>1. Same(v, w) BY TextSame
  <2>2. HasCursor(w) BY <2>1 DEF Same
  <2>3. DoString(v, t, n) = AddTitle(w) BY <1>2 DEF DoString
  <2> HIDE DEF w
  <2> QED BY <2>1, <2>2, <2>3, TitleSame, SameTrans
<1>3. CASE t \in {"I", "X"}
  <2> DEFINE w == IF t = "I" THEN AddPictureItem(v) ELSE AddPictureItemRGBA(v)
  <2>1. Same(v, w) BY PictureSame
  <2>2. HasCursor(w) BY <2>1 DEF Same
  <2>3. DoString(v, t, n) = CountPicture(w) BY <1>3 DEF DoString
  <2> HIDE DEF w
  <2> QED BY <2>1, <2>2, <2>3, CountSame, SameTrans
<1>4. CASE t = "k" BY <1>4, CodeSame DEF DoString
<1>5. CASE t \in {"L", "^"} BY <1>5 DEF DoString, Same, HasCursor, CursorFields
<1>6. CASE t = "@"
  <2> DEFINE a == AddTextItem(v, Bytes(v.oms_pos, n))
             b == AddBrItem(a)
  <2>1. Same(v, a) BY TextSame
  <2>2. Same(a, b) BY <2>1, BrSame DEF Same
  <2>3. HasCursor(b) BY <2>2 DEF Same
  <2>4. DoString(v, t, n) = AddEndRef(b) BY <1>6 DEF DoString
  <2> HIDE DEF a, b
  <2> QED BY <2>1, <2>2, <2>3, <2>4, EndSame, SameTrans
<1>7. CASE t \notin {"A", "T", "I", "X", "k", "L", "^", "@"} BY <1>7, SameRefl DEF DoString
<1> QED BY <1>1, <1>2, <1>3, <1>4, <1>5, <1>6, <1>7

LEMMA ItemSame == ASSUME NEW v, HasCursor(v) PROVE Same(v, ListItem(v))
<1> DEFINE q == v.oms_pos + v.ih
           mark == At(q)
           n == v.work_ref.size + 1
           w == [v EXCEPT !.work_ref.data = IF n \in DOMAIN @ THEN [@ EXCEPT ![n] = mark] ELSE @,
                     !.work_ref.value = IF mark # 0 THEN q - v.ih - 2 - v.iw - 2 ELSE @,
                     !.work_ref.id2 = IF mark # 0 THEN q - v.ih - 2 ELSE @,
                     !.work_ref.size = n]
           d == AddDropDownList(w)
<1>1. Same(v, w) BY DEF Same, HasCursor, CursorFields
<1>2. HasCursor(w) BY <1>1 DEF Same
<1>3. ListItem(v) = IF v.tag_o_count = 0 THEN AddEndRef(d) ELSE w BY DEF ListItem
<1> HIDE DEF w
<1>4. Same(w, d) BY <1>2, ControlSame
<1>5. HasCursor(d) BY <1>4 DEF Same
<1> HIDE DEF d
<1> QED BY <1>1, <1>3, <1>4, <1>5, EndSame, SameTrans

LEMMA SecondSame ==
  ASSUME NEW v, HasCursor(v), NEW t \in TwoStrings PROVE Same(v, DoSecond(v, t))
<1> DEFINE w == [v EXCEPT !.work_ref.value = v.oms_pos - 2]
           mark == At(v.oms_pos + v.ih)
<1>1. Same(v, w) BY DEF Same, HasCursor, CursorFields
<1>2. HasCursor(w) BY <1>1 DEF Same
<1>3. CASE t \in {"h", "e", "i", "o"}
  <2>1. DoSecond(v, t) \in {v, w, [w EXCEPT !["ref_mode_i"] = 1], ListItem(v)}
    BY <1>3 DEF DoSecond
  <2> HIDE DEF w
  <2>2. Same(w, [w EXCEPT !["ref_mode_i"] = 1]) BY <1>2, OtherField DEF CursorFields
  <2> QED BY <1>1, <2>1, <2>2, ItemSame, SameRefl, SameTrans
<1>4. CASE t \in {"p", "x", "u", "c", "r"}
  <2> DEFINE X == {AddInputItem(w), AddButtonItem(w), AddCheckBoxItem(w, mark),
                   AddRadioButton(w, mark)}
  <2>1. \E x \in X : DoSecond(v, t) = AddEndRef(x) BY <1>4 DEF DoSecond
  <2> HIDE DEF w
  <2>2. \A x \in X : Same(w, x)
    BY <1>2, ControlSame, SwitchSame DEF AddCheckBoxItem, AddRadioButton
  <2>3. PICK x \in X : DoSecond(v, t) = AddEndRef(x) BY <2>1
  <2>4. Same(w, x) BY <2>2
  <2>5. HasCursor(x) BY <2>4 DEF Same
  <2> HIDE DEF X
  <2> QED BY <1>1, <2>3, <2>4, <2>5, EndSame, SameTrans
<1> QED BY <1>3, <1>4 DEF TwoStrings

-----------------------------------------------------------------------------
(* The invariant.                                                            *)

PlaceOK ==
  /\ HasCursor(vd)
  /\ vd.oms_size \in Nat /\ vd.oms_pos \in Nat /\ vd.oms_wanted \in Nat
  /\ vd.iw \in Nat /\ vd.ih \in Nat

CallOK ==
  /\ page \in Pages
  /\ fed \in 0 .. WireLength
  /\ call.len \in Nat

\* WithinData made inductive.
IInv == PlaceOK /\ CallOK /\ Waits /\ WithinData

LEMMA ByteRange ==
  ASSUME page \in Pages, vd.oms_size \in Nat, NEW p \in Nat
  PROVE  At(p) \in Nat /\ rshort(p) \in Nat
<1>1. ASSUME NEW q \in Nat PROVE At(q) \in Nat
  <2>1. page.mem \in Seq(0 .. 255) BY PagesAssumption
  <2>2. CASE q < vd.oms_size /\ q < Len(page.mem)
    <3>1. q + 1 \in 1 .. Len(page.mem) BY <2>1, <2>2
    <3>2. page.mem[q + 1] \in 0 .. 255 BY <2>1, <3>1, ElementOfSeq
    <3>3. page.mem[q + 1] \in Nat BY <3>2
    <3>4. At(q) = page.mem[q + 1] BY <2>2 DEF At
    <3> QED BY <3>3, <3>4
  <2>3. CASE ~(q < vd.oms_size /\ q < Len(page.mem)) BY <2>3 DEF At
  <2> QED BY <2>2, <2>3
<1>2. At(p) \in Nat /\ At(p + 1) \in Nat BY <1>1
<1> QED BY <1>2 DEF rshort

LEMMA FixedNat == ASSUME NEW t PROVE FixedLength(t) \in Nat /\ FixedLength(t) >= 1
BY DEF FixedLength

LEMMA InitIInv == Init => IInv
<1> SUFFICES ASSUME Init PROVE IInv
  OBVIOUS
<1>1. vd = NewViewData /\ page \in Pages /\ fed = 0 /\ call = NoCall BY DEF Init
<1>2. PlaceOK BY <1>1 DEF PlaceOK, HasCursor, CursorFields, NewViewData
<1>3. CallOK
  <2>1. WireLength \in Nat BY <1>1, PagesAssumption DEF WireLength
  <2> QED BY <1>1, <2>1 DEF CallOK, NoCall
<1>4. vd.parse_state[1] = "BEGIN" /\ vd.oms_pos = 0 /\ vd.oms_wanted = 0 /\ vd.oms_size = 0
  BY <1>1 DEF NewViewData
<1>5. Waits BY <1>4 DEF Waits, Need, In
<1> QED BY <1>2, <1>3, <1>4, <1>5 DEF IInv, WithinData

-----------------------------------------------------------------------------
(* One step lemma for each kind of step.                                     *)

\* v is a view that could be the next one: its place in the data is sound and
\* its state waits for what it will read.
NextNeed(v) ==
  LET stage == v.parse_state[1]
      tag == v.parse_state[2]
      w == v.oms_wanted
      p == v.oms_pos
  IN  CASE stage = "HDR_COMMON" -> w = p + 6
        [] stage = "PAGEURL_SIZE" -> w = p + 2
        [] stage = "TAG_NAME" -> w = p + 1
        [] stage = "STAGE3" /\ tag \in TwoStrings -> w = p + v.iw + 2
        [] stage = "STAGE3" /\ tag = "s" -> w = p + v.iw + 3
        [] stage = "STAGE4" -> /\ tag \in TwoStrings
                               /\ w = p + v.ih + (IF tag \in {"c", "r", "o"} THEN 1 ELSE 0)
        [] OTHER -> w >= p

Sound(v) ==
  /\ HasCursor(v)
  /\ v.oms_size \in Nat /\ v.oms_pos \in Nat /\ v.oms_wanted \in Nat
  /\ v.iw \in Nat /\ v.ih \in Nat
  /\ v.oms_pos <= v.oms_size

LEMMA Pair == ASSUME NEW x, NEW a, NEW b, x = <<a, b>> PROVE x[1] = a /\ x[2] = b
OBVIOUS

LEMMA NextIInv ==
  ASSUME IInv, page' = page, fed' \in 0 .. WireLength, call'.len \in Nat, Sound(vd'),
         vd'.parse_state[1] \notin {"BEGIN", "TAG_DATA"},
         vd'.parse_state[1] = "STOP" \/ NextNeed(vd')
  PROVE  IInv'
<1>1. PlaceOK' /\ WithinData' BY DEF Sound, PlaceOK, WithinData
<1>2. CallOK' BY DEF IInv, CallOK, WireLength
<1>3. Waits' BY DEF Waits, Need, NextNeed, In, Tag
<1> QED BY <1>1, <1>2, <1>3 DEF IInv

\* More data, and nothing else of the place has changed.
LEMMA GrowIInv ==
  ASSUME IInv, page' = page, fed' \in 0 .. WireLength, call'.len \in Nat, HasCursor(vd'),
         \A f \in CursorFields \ {"oms_size", "zs"} : vd'[f] = vd[f],
         vd'.oms_size \in Nat, vd'.oms_size >= vd.oms_size
  PROVE  IInv'
<1>1. /\ vd'.oms_pos = vd.oms_pos /\ vd'.oms_wanted = vd.oms_wanted
      /\ vd'.parse_state = vd.parse_state /\ vd'.iw = vd.iw /\ vd'.ih = vd.ih
  BY DEF CursorFields
<1>2. PlaceOK' /\ WithinData' BY <1>1 DEF IInv, PlaceOK, WithinData
<1>3. CallOK' BY DEF IInv, CallOK, WireLength
<1>4. ASSUME In("TAG_DATA") PROVE FixedLength(Tag)' = FixedLength(Tag) \/ In("STOP")
  <2>1. vd.oms_size >= 1 BY <1>4 DEF IInv, Waits, Need, In
  <2>2. At(0)' = At(0) BY <2>1 DEF At, IInv, PlaceOK
  <2>3. Tag' = Tag BY <1>1 DEF Tag
  <2> QED BY <2>2, <2>3 DEF FixedLength
<1>5. Waits'
  <2>1. CASE In("TAG_DATA")
    <3>1. In("TAG_DATA")' /\ ~In("STOP") BY <1>1, <2>1 DEF In
    <3>2. /\ vd'.oms_wanted = vd'.oms_pos + 1 + FixedLength(Tag)' /\ vd'.oms_size >= 1
      BY <1>1, <1>4, <2>1, <3>1 DEF IInv, Waits, Need, In, PlaceOK
    <3> QED BY <3>1, <3>2 DEF Waits, Need, In
  <2>2. CASE ~In("TAG_DATA") BY <1>1, <2>2 DEF IInv, Waits, Need, In, Tag
  <2> QED BY <2>1, <2>2
<1> QED BY <1>2, <1>3, <1>5 DEF IInv

LEMMA InflateShape ==
  ASSUME IInv, NEW v, HasCursor(v), NEW c \in 0 .. Len(page.yield), NEW len \in Nat,
         NEW size \in Nat, Inflate(v, c, len, size)
  PROVE  /\ call'.len \in Nat
         /\ \/ \E out \in Nat : vd' = [v EXCEPT !.oms_size = size + out]
            \/ vd' = [AddMessage(v) EXCEPT !.parse_state = <<"STOP", "none">>, !.oms_size = size]
<1>1. Ready(c, size) \in Nat
  <2>1. page.yield \in Seq(Nat) /\ page.plain \in Nat
    <3>1. page \in Pages BY DEF IInv, CallOK
    <3>2. page.mem \in Seq(0 .. 255) /\ page.plain \in 0 .. Len(page.mem) BY <3>1, PagesAssumption
    <3>3. Len(page.mem) \in Nat BY <3>2
    <3> QED BY <3>1, <3>2, <3>3, PagesAssumption
  <2>2. CASE c = 0 BY <2>2 DEF Ready
  <2>3. CASE c # 0
    <3>1. page.yield[c] \in Nat BY <2>1, <2>3, ElementOfSeq
    <3> QED BY <2>1, <3>1 DEF Ready
  <2> QED BY <2>2, <2>3
<1> DEFINE out == IF v.zs = "on" THEN IF Ready(c, size) <= len THEN Ready(c, size) ELSE len ELSE 0
<1>2. out \in Nat BY <1>1
<1>3. CASE v.zs = "on" /\ Damaged(c) BY <1>3 DEF Inflate, NoCall
<1>4. CASE ~(v.zs = "on" /\ Damaged(c))
  <2>1. vd' = [v EXCEPT !.oms_size = size + out] /\ call'.len = len BY <1>4 DEF Inflate
  <2> HIDE DEF out
  <2> QED BY <1>2, <2>1
<1> QED BY <1>3, <1>4

LEMMA GotoFields ==
  ASSUME NEW v, HasCursor(v), NEW stage, NEW tag, NEW more, NEW w, w = Goto(v, stage, tag, more)
  PROVE  /\ HasCursor(w) /\ w.parse_state = <<stage, tag>>
         /\ w.parse_state[1] = stage /\ w.parse_state[2] = tag
         /\ w.oms_wanted = v.oms_wanted + more
         /\ w.oms_pos = v.oms_pos /\ w.oms_size = v.oms_size
         /\ w.iw = v.iw /\ w.ih = v.ih /\ w.zs = v.zs
BY DEF Goto, HasCursor, CursorFields

LEMMA AdvanceFields ==
  ASSUME NEW v, HasCursor(v), NEW n, NEW w, w = Advance(v, n)
  PROVE  /\ HasCursor(w) /\ w.oms_pos = v.oms_pos + n
         /\ w.parse_state = v.parse_state /\ w.oms_wanted = v.oms_wanted
         /\ w.oms_size = v.oms_size /\ w.iw = v.iw /\ w.ih = v.ih /\ w.zs = v.zs
BY DEF Advance, HasCursor, CursorFields

LEMMA SkipFields ==
  ASSUME NEW v, HasCursor(v), NEW w, w = Skip(v)
  PROVE  /\ HasCursor(w) /\ w.oms_pos = v.oms_wanted
         /\ w.parse_state = v.parse_state /\ w.oms_wanted = v.oms_wanted
         /\ w.oms_size = v.oms_size /\ w.iw = v.iw /\ w.ih = v.ih /\ w.zs = v.zs
BY DEF Skip, HasCursor, CursorFields

LEMMA SameFields ==
  ASSUME NEW v, NEW w, Same(v, w)
  PROVE  /\ HasCursor(w) /\ w.oms_pos = v.oms_pos /\ w.parse_state = v.parse_state
         /\ w.oms_wanted = v.oms_wanted /\ w.oms_size = v.oms_size
         /\ w.iw = v.iw /\ w.ih = v.ih /\ w.zs = v.zs
BY DEF Same, CursorFields

\* The parser gives up: only the data that have arrived count.
LEMMA StopIInv ==
  ASSUME IInv, page' = page, fed' \in 0 .. WireLength, call'.len \in Nat,
         NEW v, Sound(v), NEW size \in Nat, size >= v.oms_pos,
         \/ vd' = [AddMessage(v) EXCEPT !.parse_state = <<"STOP", "none">>, !.oms_size = size]
         \/ vd' = [AddMessage(v) EXCEPT !.parse_state = <<"STOP", "none">>]
  PROVE  IInv'
<1> DEFINE m == AddMessage(v)
<1>1. Same(v, m) BY MessageSame DEF Sound
<1>2. /\ HasCursor(m) /\ m.oms_pos = v.oms_pos /\ m.oms_wanted = v.oms_wanted
      /\ m.oms_size = v.oms_size /\ m.iw = v.iw /\ m.ih = v.ih
  BY <1>1, SameFields
<1> HIDE DEF m
<1>3. /\ HasCursor(vd') /\ vd'.parse_state = <<"STOP", "none">> /\ vd'.oms_pos = v.oms_pos
      /\ vd'.oms_wanted = v.oms_wanted /\ vd'.iw = v.iw /\ vd'.ih = v.ih
  <2>1. CASE vd' = [m EXCEPT !.parse_state = <<"STOP", "none">>, !.oms_size = size]
    BY <1>2, <2>1 DEF HasCursor, CursorFields
  <2>2. CASE vd' = [m EXCEPT !.parse_state = <<"STOP", "none">>]
    BY <1>2, <2>2 DEF HasCursor, CursorFields
  <2> QED BY <2>1, <2>2 DEF m
<1>4. vd'.oms_size \in {size, v.oms_size}
  BY <1>2 DEF m, HasCursor, CursorFields
<1>5. Sound(vd') BY <1>3, <1>4 DEF Sound
<1>6. vd'.parse_state[1] = "STOP"
  <2>1. vd'.parse_state = <<"STOP", "none">> BY <1>3
  <2> QED BY <2>1, Pair, Zenon
<1> QED BY <1>5, <1>6, NextIInv

LEMMA CurrentFacts ==
  ASSUME IInv
  PROVE  /\ Sound(vd) /\ HasCursor(vd) /\ WireLength \in Nat /\ fed \in Nat
         /\ page.plain \in Nat /\ Len(page.yield) \in Nat /\ page \in Pages
         /\ WireLength = page.plain + Len(page.yield)
<1>1. page \in Pages BY DEF IInv, CallOK
<1>2. page.mem \in Seq(0 .. 255) /\ page.plain \in 0 .. Len(page.mem) /\ page.yield \in Seq(Nat)
  BY <1>1, PagesAssumption
<1>3. page.plain \in Nat /\ Len(page.yield) \in Nat BY <1>2
<1> QED BY <1>1, <1>3 DEF IInv, CallOK, PlaceOK, WithinData, Sound, WireLength

LEMMA CompressedRange ==
  ASSUME IInv, NEW n \in 0 .. WireLength PROVE Compressed(n) \in 0 .. Len(page.yield)
BY CurrentFacts DEF Compressed

\* inflate puts what it returns behind the data, or the parser gives up.
LEMMA InflateIInv ==
  ASSUME IInv, page' = page, fed' \in 0 .. WireLength, NEW c \in 0 .. Len(page.yield),
         NEW len \in Nat, Inflate(vd, c, len, vd.oms_size)
  PROVE  IInv'
<1>1. Sound(vd) /\ HasCursor(vd) /\ vd.oms_size \in Nat BY CurrentFacts DEF Sound
<1>2. /\ call'.len \in Nat
      /\ \/ \E out \in Nat : vd' = [vd EXCEPT !.oms_size = vd.oms_size + out]
         \/ vd' = [AddMessage(vd) EXCEPT !.parse_state = <<"STOP", "none">>, !.oms_size = vd.oms_size]
  BY <1>1, InflateShape
<1>3. ASSUME NEW out \in Nat, vd' = [vd EXCEPT !.oms_size = vd.oms_size + out] PROVE IInv'
  <2>1. /\ HasCursor(vd') /\ vd'.oms_size = vd.oms_size + out
        /\ \A f \in CursorFields \ {"oms_size"} : vd'[f] = vd[f]
    BY <1>1, <1>3 DEF HasCursor, CursorFields
  <2> QED BY <1>1, <1>2, <2>1, GrowIInv
<1>4. CASE vd' = [AddMessage(vd) EXCEPT !.parse_state = <<"STOP", "none">>, !.oms_size = vd.oms_size]
  BY <1>1, <1>2, <1>4, StopIInv DEF Sound
<1> QED BY <1>2, <1>3, <1>4

LEMMA ReceiveIInv == ASSUME IInv, NEW len, Receive(len) PROVE IInv'
<1>1. page' = page /\ len \in Nat /\ fed' = fed + len /\ fed' \in 0 .. WireLength
  BY CurrentFacts DEF Receive
<1>2. CASE vd.zs = "none"
  <2> DEFINE w == [vd EXCEPT !.oms_size = @ + len]
  <2>1. vd' = Begun(w) /\ call'.len \in Nat BY <1>1, <1>2 DEF Receive
  <2>2. /\ HasCursor(w) /\ w.oms_size = vd.oms_size + len
        /\ \A f \in CursorFields \ {"oms_size"} : w[f] = vd[f]
    BY CurrentFacts DEF HasCursor, CursorFields
  <2>3. w.oms_size \in Nat /\ w.oms_size >= vd.oms_size
    BY <1>1, <2>2, CurrentFacts DEF Sound
  <2>3a. /\ w.oms_pos = vd.oms_pos /\ w.parse_state = vd.parse_state
         /\ w.iw = vd.iw /\ w.ih = vd.ih
    BY <2>2 DEF CursorFields
  <2> HIDE DEF w
  <2>4. CASE In("BEGIN")
    <3>1. vd' = [w EXCEPT !.oms_wanted = HEADER_COMMON, !.parse_state = <<"HDR_COMMON", "none">>]
      BY <2>1, <2>3a, <2>4 DEF Begun, In
    <3>2. vd.oms_pos = 0 BY <2>4 DEF IInv, Waits, Need, In
    <3>3. /\ HasCursor(vd') /\ vd'.oms_wanted = 6
          /\ vd'.oms_pos = 0 /\ vd'.oms_size = w.oms_size /\ vd'.iw = vd.iw /\ vd'.ih = vd.ih
      BY <2>2, <2>3a, <3>1, <3>2 DEF HasCursor, CursorFields, HEADER_COMMON
    <3>4. vd'.parse_state[1] = "HDR_COMMON"
      <4>1. vd'.parse_state = <<"HDR_COMMON", "none">>
        BY <2>2, <3>1 DEF HasCursor, CursorFields
      <4> QED BY <4>1, Pair, Zenon
    <3>5. vd.iw \in Nat /\ vd.ih \in Nat BY CurrentFacts DEF Sound
    <3>6. Sound(vd') BY <2>3, <3>3, <3>5 DEF Sound
    <3>7. NextNeed(vd')
      <4>1. vd'.oms_wanted = vd'.oms_pos + 6 BY <3>3
      <4> QED BY <3>4, <4>1 DEF NextNeed
    <3> QED BY <1>1, <2>1, <3>4, <3>6, <3>7, NextIInv
  <2>5. CASE ~In("BEGIN")
    <3>1. vd' = w BY <2>1, <2>3a, <2>5 DEF Begun, In
    <3> QED BY <1>1, <2>1, <2>2, <2>3, <3>1, GrowIInv
  <2> QED BY <2>4, <2>5
<1>3. CASE vd.zs # "none"
  <2>1. Inflate(vd, Compressed(fed'), len, vd.oms_size) BY <1>3 DEF Receive
  <2>2. Compressed(fed') \in 0 .. Len(page.yield) BY <1>1, CompressedRange
  <2> QED BY <1>1, <2>1, <2>2, InflateIInv
<1> QED BY <1>2, <1>3

LEMMA FinishIInv == ASSUME IInv, Finish PROVE IInv'
<1>1. page' = page /\ fed' = fed /\ fed \in 0 .. WireLength /\ call.len \in Nat
  BY DEF Finish, IInv, CallOK
<1>2. CASE vd.zs # "none" /\ call.avail_out = 0
  <2>1. Inflate(vd, Compressed(fed), call.len, vd.oms_size) BY <1>2 DEF Finish
  <2> QED BY <1>1, <2>1, CompressedRange, InflateIInv
<1>3. CASE ~(vd.zs # "none" /\ call.avail_out = 0)
  <2>1. vd' = vd /\ call' = NoCall BY <1>3 DEF Finish
  <2> QED BY <1>1, <2>1, CurrentFacts, GrowIInv DEF NoCall, Sound
<1> QED BY <1>2, <1>3

\* The piece, the page and the call as a pass of the loop leaves them.
PassFrame == page' = page /\ fed' = fed /\ call'.len \in Nat

\* A pass that goes on to another state, from a view that has read all it
\* waited for.
Done(v) == Sound(v) /\ v.oms_pos = v.oms_wanted

LEMMA GotoIInv ==
  ASSUME IInv, PassFrame, NEW v, Done(v), NEW tag, NEW more \in Nat,
         NEW stage \in {"HDR", "GZIPHDR", "PAGEURL_SIZE", "PAGEURL_DATA", "TAG_NAME",
                        "STAGE3", "STAGE4"},
         vd' = Goto(v, stage, tag, more),
         stage = "PAGEURL_SIZE" => more = 2,
         stage = "TAG_NAME" => more = 1,
         stage = "STAGE3" /\ tag \in TwoStrings => more = v.iw + 2,
         stage = "STAGE3" /\ tag = "s" => more = v.iw + 3,
         stage = "STAGE4" => /\ tag \in TwoStrings
                             /\ more = v.ih + (IF tag \in {"c", "r", "o"} THEN 1 ELSE 0)
  PROVE  IInv'
<1>1. /\ HasCursor(v) /\ v.oms_size \in Nat /\ v.oms_pos \in Nat /\ v.oms_wanted \in Nat
      /\ v.iw \in Nat /\ v.ih \in Nat /\ v.oms_pos <= v.oms_size /\ v.oms_pos = v.oms_wanted
  BY DEF Done, Sound
<1>2. /\ HasCursor(vd') /\ vd'.oms_wanted = v.oms_wanted + more
      /\ vd'.oms_pos = v.oms_pos /\ vd'.oms_size = v.oms_size
      /\ vd'.iw = v.iw /\ vd'.ih = v.ih
  BY <1>1, GotoFields
<1>3. vd'.parse_state[1] = stage /\ vd'.parse_state[2] = tag
  BY <1>1, GotoFields
<1>4. Sound(vd')
  BY <1>1, <1>2 DEF Sound
<1>5. vd'.oms_wanted = vd'.oms_pos + more BY <1>1, <1>2
<1>6. NextNeed(vd')
  <2>1. CASE stage \in {"HDR", "GZIPHDR", "PAGEURL_DATA"}
    BY <1>1, <1>2, <1>3, <1>5, <2>1 DEF NextNeed
  <2>2. CASE stage \in {"PAGEURL_SIZE", "TAG_NAME"}
    BY <1>3, <1>5, <2>2 DEF NextNeed
  <2>3. CASE stage = "STAGE3"
    <3>1. CASE tag \in TwoStrings
      <4>1. vd'.oms_wanted = vd'.oms_pos + vd'.iw + 2 BY <1>1, <1>2, <2>3, <3>1
      <4> QED BY <1>3, <2>3, <3>1, <4>1 DEF NextNeed, TwoStrings
    <3>2. CASE tag = "s"
      <4>1. vd'.oms_wanted = vd'.oms_pos + vd'.iw + 3 BY <1>1, <1>2, <2>3, <3>2
      <4> QED BY <1>3, <2>3, <3>2, <4>1 DEF NextNeed, TwoStrings
    <3>3. CASE tag \notin TwoStrings /\ tag # "s"
      <4>1. vd'.oms_wanted >= vd'.oms_pos BY <1>1, <1>2, <1>5
      <4> QED BY <1>3, <2>3, <3>3, <4>1 DEF NextNeed
    <3> QED BY <3>1, <3>2, <3>3
  <2>4. CASE stage = "STAGE4"
    <3>1. tag \in TwoStrings BY <2>4
    <3>2. vd'.oms_wanted = vd'.oms_pos + vd'.ih + (IF tag \in {"c", "r", "o"} THEN 1 ELSE 0)
      BY <1>1, <1>2, <2>4
    <3> QED BY <1>3, <2>4, <3>1, <3>2 DEF NextNeed
  <2> QED BY <2>1, <2>2, <2>3, <2>4
<1>7. vd'.parse_state[1] \notin {"BEGIN", "TAG_DATA"} BY <1>3
<1>8. page' = page /\ fed' \in 0 .. WireLength /\ call'.len \in Nat
  BY DEF PassFrame, IInv, CallOK
<1> QED BY <1>4, <1>6, <1>7, <1>8, NextIInv

LEMMA NextTagIInv ==
  ASSUME IInv, PassFrame, NEW v, Done(v), vd' = NextTag(v) PROVE IInv'
BY GotoIInv DEF NextTag

LEMMA GiveUpIInv ==
  ASSUME IInv, page' = page, fed' = fed, NEW v, Sound(v), GiveUp(v) PROVE IInv'
<1>1. /\ vd' = [AddMessage(v) EXCEPT !.parse_state = <<"STOP", "none">>]
      /\ call'.len \in Nat
  BY DEF GiveUp, Return, NoCall
<1>2. v.oms_size \in Nat /\ v.oms_size >= v.oms_pos BY DEF Sound
<1>3. fed' \in 0 .. WireLength BY DEF IInv, CallOK
<1> QED BY <1>1, <1>2, <1>3, StopIInv

\* inflate starts with what lies behind the header.
LEMMA StartIInv ==
  ASSUME IInv, page' = page, fed' = fed, NEW v, Sound(v), v.parse_state[1] = "HDR",
         v.oms_wanted >= v.oms_pos, StartZlib(v)
  PROVE  IInv'
<1> DEFINE bad == [v EXCEPT !.zs = "bad"]
           on == [v EXCEPT !.zs = "on"]
<1>1. /\ HasCursor(v) /\ v.oms_size \in Nat /\ v.oms_pos \in Nat /\ v.oms_wanted \in Nat
      /\ v.iw \in Nat /\ v.ih \in Nat /\ v.oms_pos <= v.oms_size
  BY DEF Sound
<1>2. Sound(bad) BY <1>1 DEF Sound, HasCursor, CursorFields
<1>3. /\ HasCursor(on) /\ on.oms_size = v.oms_size /\ on.oms_pos = v.oms_pos
      /\ on.oms_wanted = v.oms_wanted /\ on.iw = v.iw /\ on.ih = v.ih
      /\ on.parse_state = v.parse_state
  BY <1>1 DEF HasCursor, CursorFields
<1>4. Sound(on) BY <1>1, <1>3 DEF Sound
<1>5. fed \in 0 .. WireLength /\ fed' \in 0 .. WireLength BY DEF IInv, CallOK
<1>6. \/ GiveUp(bad)
      \/ Return(on)
      \/ Inflate(on, Compressed(fed), v.oms_size - v.oms_pos, v.oms_pos)
  BY DEF StartZlib
<1> HIDE DEF bad, on
<1>7. CASE GiveUp(bad) BY <1>2, <1>7, GiveUpIInv
<1>8. CASE Return(on)
  <2>1. vd' = on /\ call'.len \in Nat BY <1>8 DEF Return, NoCall
  <2>2. vd'.parse_state[1] = "HDR" /\ Sound(vd') BY <1>3, <1>4, <2>1
  <2>3. NextNeed(vd') BY <1>3, <2>1, <2>2 DEF NextNeed
  <2> QED BY <1>5, <2>1, <2>2, <2>3, NextIInv
<1>9. CASE Inflate(on, Compressed(fed), v.oms_size - v.oms_pos, v.oms_pos)
  <2>1. v.oms_size - v.oms_pos \in Nat BY <1>1
  <2>2. Compressed(fed) \in 0 .. Len(page.yield) BY <1>5, CompressedRange
  <2>3. /\ call'.len \in Nat
        /\ \/ \E out \in Nat : vd' = [on EXCEPT !.oms_size = v.oms_pos + out]
           \/ vd' = [AddMessage(on) EXCEPT !.parse_state = <<"STOP", "none">>, !.oms_size = v.oms_pos]
    <3>1. HasCursor(on) /\ v.oms_pos \in Nat BY <1>1, <1>3
    <3> QED BY <1>9, <2>1, <2>2, <3>1, InflateShape, ZenonT(60)
  <2>4. ASSUME NEW out \in Nat, vd' = [on EXCEPT !.oms_size = v.oms_pos + out] PROVE IInv'
    <3>1. /\ HasCursor(vd') /\ vd'.oms_size = v.oms_pos + out /\ vd'.oms_pos = v.oms_pos
          /\ vd'.oms_wanted = v.oms_wanted /\ vd'.iw = v.iw /\ vd'.ih = v.ih
          /\ vd'.parse_state = v.parse_state
      BY <1>3, <2>4 DEF HasCursor, CursorFields
    <3>2. Sound(vd') BY <1>1, <3>1 DEF Sound
    <3>3. vd'.parse_state[1] = "HDR" BY <3>1
    <3>4. NextNeed(vd') BY <3>1, <3>3 DEF NextNeed
    <3> QED BY <1>5, <2>3, <3>2, <3>3, <3>4, NextIInv
  <2>5. CASE vd' = [AddMessage(on) EXCEPT !.parse_state = <<"STOP", "none">>, !.oms_size = v.oms_pos]
    <3>1. v.oms_pos >= on.oms_pos BY <1>1, <1>3
    <3> QED BY <1>1, <1>4, <1>5, <2>3, <2>5, <3>1, StopIInv
  <2> QED BY <2>3, <2>4, <2>5
<1> QED BY <1>6, <1>7, <1>8, <1>9

-----------------------------------------------------------------------------
(* The passes of the loop.                                                   *)

\* A state runs: its data are there.
Pass == vd.oms_size >= vd.oms_wanted /\ page' = page /\ fed' = fed

LEMMA RunFrame ==
  ASSUME IInv, Pass, NEW v, Run(v) \/ Return(v) PROVE PassFrame /\ vd' = v
BY DEF Pass, PassFrame, Run, Return, NoCall, IInv, CallOK

LEMMA DoneFields ==
  ASSUME NEW v, HasCursor(v), v.iw \in Nat, v.ih \in Nat, v.oms_pos = v.oms_wanted,
         v.oms_wanted \in Nat, v.oms_size \in Nat, v.oms_wanted <= v.oms_size
  PROVE  Done(v)
BY DEF Done, Sound

LEMMA SkipDone ==
  ASSUME NEW v, Sound(v), v.oms_wanted <= v.oms_size PROVE Done(Skip(v))
<1>1. HasCursor(v) BY DEF Sound
<1> DEFINE w == Skip(v)
<1>2. /\ HasCursor(w) /\ w.oms_pos = v.oms_wanted /\ w.oms_wanted = v.oms_wanted
      /\ w.oms_size = v.oms_size /\ w.iw = v.iw /\ w.ih = v.ih
  BY <1>1, SkipFields
<1> HIDE DEF w
<1>3. Done(w) BY <1>2, DoneFields DEF Sound
<1> QED BY <1>3 DEF w

LEMMA AdvanceDone ==
  ASSUME NEW v, Sound(v), NEW n \in Nat, v.oms_wanted = v.oms_pos + n, v.oms_wanted <= v.oms_size
  PROVE  Done(Advance(v, n))
<1>1. HasCursor(v) BY DEF Sound
<1> DEFINE w == Advance(v, n)
<1>2. /\ HasCursor(w) /\ w.oms_pos = v.oms_pos + n /\ w.oms_wanted = v.oms_wanted
      /\ w.oms_size = v.oms_size /\ w.iw = v.iw /\ w.ih = v.ih
  BY <1>1, AdvanceFields
<1> HIDE DEF w
<1>3. Done(w) BY <1>2, DoneFields DEF Sound
<1> QED BY <1>3 DEF w

LEMMA SameSound == ASSUME NEW v, NEW w, Sound(v), Same(v, w) PROVE Sound(w)
BY SameFields DEF Sound

LEMMA PlaceDone == ASSUME NEW v, NEW w, Done(v), Place(v, w) PROVE Done(w)
<1>1. /\ HasCursor(w) /\ w.oms_pos = v.oms_pos /\ w.oms_wanted = v.oms_wanted
      /\ w.oms_size = v.oms_size /\ w.iw \in Nat /\ w.ih \in Nat
  BY DEF Place, CursorFields
<1> QED BY <1>1, DoneFields DEF Done, Sound

LEMMA GotoSound ==
  ASSUME NEW v, Sound(v), v.oms_pos <= v.oms_wanted, NEW stage, NEW tag, NEW more \in Nat,
         NEW w, w = Goto(v, stage, tag, more)
  PROVE  Sound(w) /\ w.oms_wanted >= w.oms_pos /\ w.parse_state[1] = stage
<1>1. HasCursor(v) BY DEF Sound
<1>2. w.parse_state[1] = stage BY <1>1, GotoFields
<1>3. /\ HasCursor(w) /\ w.oms_wanted = v.oms_wanted + more
      /\ w.oms_pos = v.oms_pos /\ w.oms_size = v.oms_size /\ w.iw = v.iw /\ w.ih = v.ih
  BY <1>1, GotoFields
<1> QED BY <1>2, <1>3 DEF Sound

LEMMA DoneSound == ASSUME NEW v, Done(v) PROVE Sound(v) /\ v.oms_pos <= v.oms_wanted
BY DEF Done, Sound

LEMMA StartHdrIInv ==
  ASSUME IInv, Pass, NEW v, Done(v), NEW more \in Nat,
         NEW w, w = Goto(v, "HDR", "none", more), StartZlib(w)
  PROVE  IInv'
<1>1. Sound(v) /\ v.oms_pos <= v.oms_wanted BY DoneSound
<1>2. Sound(w) /\ w.oms_wanted >= w.oms_pos /\ w.parse_state[1] = "HDR"
  BY <1>1, GotoSound
<1>3. page' = page /\ fed' = fed BY DEF Pass
<1> QED BY <1>2, <1>3, StartIInv

LEMMA GiveUpHdrIInv ==
  ASSUME IInv, Pass, NEW v, Done(v), NEW more \in Nat,
         NEW w, w = Goto(v, "HDR", "none", more), GiveUp(w)
  PROVE  IInv'
<1>1. Sound(v) /\ v.oms_pos <= v.oms_wanted BY DoneSound
<1>2. Sound(w) BY <1>1, GotoSound
<1>3. page' = page /\ fed' = fed BY DEF Pass
<1> QED BY <1>2, <1>3, GiveUpIInv

LEMMA HdrCommonIInv == ASSUME IInv, Pass, HdrCommon PROVE IInv'
<1> DEFINE u == [vd EXCEPT !.work_ref = EmptyRef, !.work_ref_Z = EmptyRef]
           v == Advance(u, 6)
<1>1. Sound(vd) /\ vd.oms_wanted = vd.oms_pos + 6 /\ vd.oms_wanted <= vd.oms_size
  <2>1. Sound(vd) /\ vd.oms_wanted <= vd.oms_size BY CurrentFacts DEF Pass, Sound
  <2>2. In("HDR_COMMON") BY DEF HdrCommon
  <2>3. Need BY <2>2 DEF IInv, Waits, In
  <2>4. vd.oms_wanted = vd.oms_pos + 6 BY <2>2, <2>3 DEF Need, In
  <2> QED BY <2>1, <2>4
<1>2. Same(vd, u) BY <1>1 DEF Sound, Same, HasCursor, CursorFields
<1>3. Sound(u) /\ u.oms_wanted = u.oms_pos + 6 /\ u.oms_wanted <= u.oms_size
  BY <1>1, <1>2, SameFields, SameSound
<1>4. \/ Run(Goto(v, "HDR", "none", HEADER_V1))
      \/ Run(Goto(v, "HDR", "none", HEADER_V2))
      \/ Run(Goto(v, "GZIPHDR", "none", GZIP_HEADER))
      \/ StartZlib(Goto(v, "HDR", "none", HEADER_V2))
      \/ GiveUp(Goto(v, "HDR", "none", HEADER_V2))
  BY DEF HdrCommon
<1> HIDE DEF u
<1>5. Done(v) BY <1>3, AdvanceDone
<1>6. HEADER_V1 \in Nat /\ HEADER_V2 \in Nat /\ GZIP_HEADER \in Nat
  BY HeaderAssumption DEF HEADER_V1
<1> HIDE DEF v
<1>7. CASE Run(Goto(v, "HDR", "none", HEADER_V1))
  <2>1. PassFrame /\ vd' = Goto(v, "HDR", "none", HEADER_V1) BY <1>7, RunFrame
  <2> QED BY <1>5, <1>6, <2>1, GotoIInv
<1>8. CASE Run(Goto(v, "HDR", "none", HEADER_V2))
  <2>1. PassFrame /\ vd' = Goto(v, "HDR", "none", HEADER_V2) BY <1>8, RunFrame
  <2> QED BY <1>5, <1>6, <2>1, GotoIInv
<1>9. CASE Run(Goto(v, "GZIPHDR", "none", GZIP_HEADER))
  <2>1. PassFrame /\ vd' = Goto(v, "GZIPHDR", "none", GZIP_HEADER) BY <1>9, RunFrame
  <2> QED BY <1>5, <1>6, <2>1, GotoIInv
<1>10. CASE StartZlib(Goto(v, "HDR", "none", HEADER_V2))
  BY <1>5, <1>6, <1>10, StartHdrIInv, Zenon
<1>11. CASE GiveUp(Goto(v, "HDR", "none", HEADER_V2))
  BY <1>5, <1>6, <1>11, GiveUpHdrIInv, Zenon
<1> QED BY <1>4, <1>7, <1>8, <1>9, <1>10, <1>11

LEMMA GzipHdrIInv == ASSUME IInv, Pass, GzipHdr PROVE IInv'
<1>1. Sound(vd) /\ vd.oms_wanted <= vd.oms_size BY CurrentFacts DEF Pass, Sound
<1>2. Done(Skip(vd)) BY <1>1, SkipDone
<1>3. HEADER_V1 \in Nat BY HeaderAssumption DEF HEADER_V1
<1>4. StartZlib(Goto(Skip(vd), "HDR", "none", HEADER_V1)) BY DEF GzipHdr
<1> QED BY <1>2, <1>3, <1>4, StartHdrIInv, Zenon

LEMMA HdrIInv == ASSUME IInv, Pass, Hdr PROVE IInv'
<1>1. Sound(vd) /\ vd.oms_wanted <= vd.oms_size BY CurrentFacts DEF Pass, Sound
<1>2. Done(Skip(vd)) BY <1>1, SkipDone
<1>3. PassFrame /\ vd' = Goto(Skip(vd), "PAGEURL_SIZE", "none", 2) BY RunFrame DEF Hdr
<1> QED BY <1>2, <1>3, GotoIInv

LEMMA PageUrlDataIInv == ASSUME IInv, Pass, PageUrlData PROVE IInv'
<1>1. Sound(vd) /\ vd.oms_wanted <= vd.oms_size BY CurrentFacts DEF Pass, Sound
<1>2. Done(Skip(vd)) BY <1>1, SkipDone
<1>3. PassFrame /\ vd' = NextTag(Skip(vd)) BY RunFrame DEF PageUrlData
<1> QED BY <1>2, <1>3, NextTagIInv

LEMMA PageUrlSizeIInv == ASSUME IInv, Pass, PageUrlSize PROVE IInv'
<1> DEFINE n == rshort(vd.oms_pos)
<1>1. Sound(vd) /\ vd.oms_wanted = vd.oms_pos + 2 /\ vd.oms_wanted <= vd.oms_size
  <2>1. Sound(vd) /\ vd.oms_wanted <= vd.oms_size BY CurrentFacts DEF Pass, Sound
  <2>2. In("PAGEURL_SIZE") BY DEF PageUrlSize
  <2>3. Need BY <2>2 DEF IInv, Waits, In
  <2>4. vd.oms_wanted = vd.oms_pos + 2 BY <2>2, <2>3 DEF Need, In
  <2> QED BY <2>1, <2>4
<1>2. n \in Nat BY <1>1, CurrentFacts, ByteRange DEF Sound
<1>3. PassFrame /\ vd' = Advance(Goto(vd, "PAGEURL_DATA", "none", n), 2)
  BY RunFrame DEF PageUrlSize
<1> HIDE DEF n
<1>4. ASSUME NEW v, v = Goto(vd, "PAGEURL_DATA", "none", n) PROVE IInv'
  <2>1. HasCursor(vd) BY <1>1 DEF Sound
  <2>2. v.parse_state[1] = "PAGEURL_DATA" BY <1>4, <2>1, GotoFields
  <2>3. /\ HasCursor(v) /\ v.oms_wanted = vd.oms_wanted + n
        /\ v.oms_pos = vd.oms_pos /\ v.oms_size = vd.oms_size /\ v.iw = vd.iw /\ v.ih = vd.ih
    BY <1>4, <2>1, GotoFields
  <2>4. vd' = Advance(v, 2) BY <1>3, <1>4
  <2>5. /\ HasCursor(vd') /\ vd'.parse_state = v.parse_state /\ vd'.oms_wanted = v.oms_wanted
        /\ vd'.oms_pos = v.oms_pos + 2 /\ vd'.oms_size = v.oms_size
        /\ vd'.iw = v.iw /\ vd'.ih = v.ih
    BY <2>3, <2>4, AdvanceFields
  <2>6. Sound(vd') /\ vd'.oms_wanted >= vd'.oms_pos BY <1>1, <1>2, <2>3, <2>5 DEF Sound
  <2>7. vd'.parse_state[1] = "PAGEURL_DATA" BY <2>2, <2>5
  <2>8. NextNeed(vd') BY <2>6, <2>7 DEF NextNeed
  <2>9. page' = page /\ fed' \in 0 .. WireLength /\ call'.len \in Nat
    BY <1>3 DEF PassFrame, IInv, CallOK
  <2> QED BY <2>6, <2>7, <2>8, <2>9, NextIInv
<1> QED BY <1>4

\* What a state waits for, when it runs.
LEMMA Waited ==
  ASSUME IInv, Pass
  PROVE  /\ Sound(vd) /\ vd.oms_wanted <= vd.oms_size /\ (In("STOP") \/ Need)
         /\ \A p \in Nat : At(p) \in Nat /\ rshort(p) \in Nat
<1>1. Sound(vd) /\ vd.oms_wanted <= vd.oms_size BY CurrentFacts DEF Pass, Sound
<1>2. page \in Pages /\ vd.oms_size \in Nat BY CurrentFacts DEF Sound
<1>3. ASSUME NEW p \in Nat PROVE At(p) \in Nat /\ rshort(p) \in Nat BY <1>2, ByteRange
<1> QED BY <1>1, <1>3 DEF IInv, Waits

LEMMA TagNameIInv == ASSUME IInv, Pass, TagName PROVE IInv'
<1> DEFINE t == TagAt(vd.oms_pos)
           v == CASE t = "i" -> AddBeginRef(vd)
                  [] t = "P" -> [vd EXCEPT !.ref_mode_P = 1]
                  [] OTHER   -> vd
<1>1. /\ HasCursor(vd) /\ Sound(vd) /\ vd.oms_wanted <= vd.oms_size
      /\ vd.oms_wanted = vd.oms_pos + 1
  BY Waited DEF TagName, Need, In, Sound
<1>2. Same(vd, v)
  <2>1. CASE t = "i" BY <1>1, <2>1, BeginSame
  <2>2. CASE t = "P" BY <1>1, <2>2 DEF Same, HasCursor, CursorFields
  <2>3. CASE t \notin {"i", "P"} BY <1>1, <2>3, SameRefl
  <2> QED BY <2>1, <2>2, <2>3
<1>3. \/ GiveUp(vd)
      \/ Return([vd EXCEPT !.parse_state = <<"STOP", "none">>])
      \/ Run(NextTag(Advance(DoBare(vd, t), 1)))
      \/ Run(Goto(v, "TAG_DATA", t, FixedLength(t)))
  BY DEF TagName
<1> HIDE DEF v
<1>4. CASE GiveUp(vd) BY <1>1, <1>4, GiveUpIInv DEF Pass
<1>5. CASE Return([vd EXCEPT !.parse_state = <<"STOP", "none">>])
  <2>1. /\ PassFrame /\ vd' = [vd EXCEPT !.parse_state = <<"STOP", "none">>]
    BY <1>5, RunFrame
  <2>2. vd'.parse_state = <<"STOP", "none">> BY <1>1, <2>1 DEF HasCursor, CursorFields
  <2>3. /\ HasCursor(vd') /\ vd'.oms_size = vd.oms_size /\ vd'.oms_pos = vd.oms_pos
        /\ vd'.oms_wanted = vd.oms_wanted /\ vd'.iw = vd.iw /\ vd'.ih = vd.ih
    BY <1>1, <2>1 DEF HasCursor, CursorFields
  <2>4. Sound(vd') BY <1>1, <2>3 DEF Sound
  <2>5. vd'.parse_state[1] = "STOP" BY <2>2, Pair, Zenon
  <2>6. page' = page /\ fed' \in 0 .. WireLength /\ call'.len \in Nat
    BY <2>1 DEF PassFrame, IInv, CallOK
  <2> QED BY <2>4, <2>5, <2>6, NextIInv
<1>6. CASE Run(NextTag(Advance(DoBare(vd, t), 1)))
  <2> DEFINE b == DoBare(vd, t)
  <2>1. Same(vd, b) BY <1>1, BareSame
  <2>2. PassFrame /\ vd' = NextTag(Advance(b, 1)) BY <1>6, RunFrame
  <2> HIDE DEF b
  <2>3. Sound(b) /\ b.oms_wanted = b.oms_pos + 1 /\ b.oms_wanted <= b.oms_size
    BY <1>1, <2>1, SameFields, SameSound
  <2>4. Done(Advance(b, 1)) BY <2>3, AdvanceDone
  <2> QED BY <2>2, <2>4, NextTagIInv
<1>7. CASE Run(Goto(v, "TAG_DATA", t, FixedLength(t)))
  <2> DEFINE n == FixedLength(t)
  <2>1. PassFrame /\ vd' = Goto(v, "TAG_DATA", t, n) BY <1>7, RunFrame
  <2>2. n \in Nat BY FixedNat
  <2>3. /\ HasCursor(v) /\ v.oms_size = vd.oms_size /\ v.oms_pos = vd.oms_pos
        /\ v.oms_wanted = vd.oms_wanted /\ v.iw = vd.iw /\ v.ih = vd.ih
    BY <1>2, SameFields
  <2> HIDE DEF t
  <2>4. /\ vd'.parse_state[1] = "TAG_DATA" /\ vd'.parse_state[2] = t
    BY <2>1, <2>3, GotoFields
  <2>5. /\ HasCursor(vd') /\ vd'.oms_size = vd.oms_size /\ vd'.oms_pos = vd.oms_pos
        /\ vd'.oms_wanted = vd.oms_wanted + n /\ vd'.iw = vd.iw /\ vd'.ih = vd.ih
    BY <2>1, <2>3, GotoFields
  <2>6. vd.oms_size \in Nat /\ vd.oms_pos \in Nat /\ vd.oms_size >= 1 BY <1>1 DEF Sound
  <2>7. FixedLength(Tag)' = n
    <3>1. At(0)' = At(0) BY <2>1, <2>5 DEF At, PassFrame
    <3>2. Tag' = t BY <2>4 DEF Tag
    <3> QED BY <3>1, <3>2 DEF FixedLength
  <2> HIDE DEF n
  <2>8. vd'.oms_wanted = vd'.oms_pos + 1 + FixedLength(Tag)' /\ vd'.oms_size >= 1
    BY <1>1, <2>2, <2>5, <2>6, <2>7
  <2>9. Waits' BY <2>4, <2>8 DEF Waits, Need, In
  <2>10. PlaceOK' /\ WithinData'
    BY <1>1, <2>2, <2>5 DEF Sound, PlaceOK, WithinData
  <2>11. CallOK' BY <2>1 DEF PassFrame, IInv, CallOK, WireLength
  <2> QED BY <2>9, <2>10, <2>11 DEF IInv
<1> QED BY <1>3, <1>4, <1>5, <1>6, <1>7

LEMMA LengthAtNat == ASSUME NEW t, NEW p \in Nat PROVE LengthAt(t, p) \in Nat
<1>1. FixedLength("x") \in {2, 3} BY DEF FixedLength
<1> QED BY <1>1 DEF LengthAt

LEMMA SizesPlace ==
  ASSUME NEW v, Sized(v), NEW t, NEW p \in Nat,
         \A q \in Nat : At(q) \in Nat /\ rshort(q) \in Nat
  PROVE  /\ Place(v, Sizes(v, t, p))
         /\ t \in TwoStrings \cup {"s"} => Sizes(v, t, p).iw = rshort(LengthAt(t, p))
<1>0. ASSUME NEW a \in Nat, NEW b \in Nat PROVE Place(v, [v EXCEPT !.iw = a, !.ih = b])
  BY DEF Place, Sized, HasCursor, CursorFields
<1>1. Place(v, v) BY DEF Place, Sized
<1>2. CASE t \in {"I", "X", "k", "@"}
  <2>1. /\ At(p) \in Nat /\ At(p + 1) \in Nat
        /\ rshort(p) \in Nat /\ rshort(p + 1) \in Nat /\ rshort(p + 2) \in Nat
    OBVIOUS
  <2>2. Place(v, Sizes(v, t, p))
    <3>1. CASE t = "I"
      <4>1. Sizes(v, t, p) = [v EXCEPT !.iw = rshort(p), !.ih = rshort(p + 2)] BY <3>1 DEF Sizes, TwoStrings
      <4> QED BY <1>0, <2>1, <4>1
    <3>2. CASE t = "X"
      <4>1. Sizes(v, t, p) = [v EXCEPT !.iw = At(p), !.ih = At(p + 1)] BY <3>2 DEF Sizes, TwoStrings
      <4> QED BY <1>0, <2>1, <4>1
    <3>3. CASE t = "k"
      <4>1. Sizes(v, t, p) = [v EXCEPT !.iw = rshort(p + 1), !.ih = At(p)] BY <3>3 DEF Sizes, TwoStrings
      <4> QED BY <1>0, <2>1, <4>1
    <3>4. CASE t = "@"
      <4>1. Sizes(v, t, p) = [v EXCEPT !.iw = rshort(p + 2), !.ih = rshort(p)] BY <3>4 DEF Sizes, TwoStrings
      <4> QED BY <1>0, <2>1, <4>1
    <3> QED BY <1>2, <3>1, <3>2, <3>3, <3>4
  <2>3. t \notin TwoStrings \cup {"s"} BY <1>2 DEF TwoStrings
  <2> QED BY <2>2, <2>3
<1>6. CASE t \in TwoStrings \cup {"s", "Z"}
  <2> DEFINE n == rshort(LengthAt(t, p))
  <2>1. n \in Nat BY LengthAtNat
  <2>2. Sizes(v, t, p) = [v EXCEPT !.iw = n] BY <1>6 DEF Sizes, TwoStrings
  <2> HIDE DEF n
  <2>3. Place(v, [v EXCEPT !.iw = n]) /\ [v EXCEPT !.iw = n].iw = n
    BY <2>1 DEF Place, Sized, HasCursor, CursorFields
  <2> QED BY <2>2, <2>3 DEF n
<1>7. CASE t \notin TwoStrings \cup {"I", "X", "k", "@", "s", "Z"}
  BY <1>1, <1>7 DEF Sizes
<1> QED BY <1>2, <1>6, <1>7

LEMMA TagDataIInv == ASSUME IInv, Pass, TagData PROVE IInv'
<1> DEFINE t == Tag
           p == vd.oms_pos + 1
           n == FixedLength(t)
           v == Advance(vd, 1 + n)
           s == Sizes(v, t, p)
           len == rshort(LengthAt(t, p))
<1>1. /\ Sound(vd) /\ vd.oms_wanted <= vd.oms_size
      /\ vd.oms_wanted = vd.oms_pos + (1 + n) /\ n \in Nat
  <2>1. /\ Sound(vd) /\ vd.oms_wanted <= vd.oms_size
        /\ vd.oms_wanted = vd.oms_pos + 1 + n
    BY Waited DEF TagData, Need, In
  <2>2. n \in Nat BY FixedNat
  <2> HIDE DEF n
  <2> QED BY <2>1, <2>2 DEF Sound
<1>2. p \in Nat /\ \A q \in Nat : At(q) \in Nat /\ rshort(q) \in Nat
  BY <1>1, Waited DEF Sound
<1>3. Done(v) /\ Sized(v)
  <2>1. 1 + n \in Nat BY <1>1
  <2> HIDE DEF n
  <2>2. Done(v) BY <1>1, <2>1, AdvanceDone
  <2> HIDE DEF v
  <2> QED BY <2>2 DEF Done, Sound, Sized
<1>4. \/ t \in Complete /\ Run(NextTag(DoComplete(v, t, p)))
      \/ GiveUp(Advance(vd, 1))
      \/ Run(NextTag(s))
      \/ Run(Goto(BeginTag(s, t), "STAGE3", t, len + Behind(t)))
  BY DEF TagData
<1>5. GiveUp(Advance(vd, 1)) => IInv'
  <2> DEFINE w == Advance(vd, 1)
  <2>1. HasCursor(vd) BY <1>1 DEF Sound
  <2>2. /\ HasCursor(w) /\ w.oms_pos = vd.oms_pos + 1 /\ w.oms_wanted = vd.oms_wanted
        /\ w.oms_size = vd.oms_size /\ w.iw = vd.iw /\ w.ih = vd.ih
    BY <2>1, AdvanceFields
  <2> HIDE DEF w, n
  <2>3. Sound(w) BY <1>1, <2>2 DEF Sound
  <2>4. GiveUp(w) => IInv' BY <2>3, GiveUpIInv DEF Pass
  <2> QED BY <2>4 DEF w
<1> HIDE DEF v
<1>6. Place(v, s) /\ (t \in TwoStrings \cup {"s"} => s.iw = len)
  <2> HIDE DEF t, p
  <2> QED BY <1>2, <1>3, SizesPlace
<1>7. LengthAt(t, p) \in Nat /\ len \in Nat
  <2> HIDE DEF t, p
  <2>1. LengthAt(t, p) \in Nat BY <1>2, LengthAtNat
  <2> QED BY <1>2, <2>1
<1> HIDE DEF t, p, s, len
<1>8. CASE t \in Complete /\ Run(NextTag(DoComplete(v, t, p)))
  <2>1. PassFrame /\ vd' = NextTag(DoComplete(v, t, p)) BY <1>8, RunFrame
  <2>2. p + 2 \in Nat BY <1>2
  <2>3. Place(v, DoComplete(v, t, p)) BY <1>2, <1>3, <1>8, <2>2, CompletePlace
  <2>4. Done(DoComplete(v, t, p)) BY <1>3, <2>3, PlaceDone
  <2> QED BY <2>1, <2>4, NextTagIInv
<1>9. Done(s) BY <1>3, <1>6, PlaceDone
<1>10. CASE Run(NextTag(s))
  <2>1. PassFrame /\ vd' = NextTag(s) BY <1>10, RunFrame
  <2> QED BY <1>9, <2>1, NextTagIInv
<1>11. CASE Run(Goto(BeginTag(s, t), "STAGE3", t, len + Behind(t)))
  <2> DEFINE b == BeginTag(s, t)
             more == len + Behind(t)
  <2>1. PassFrame /\ vd' = Goto(b, "STAGE3", t, more) BY <1>11, RunFrame
  <2>2. HasCursor(s) BY <1>9 DEF Done, Sound
  <2>3. Same(s, b) BY <2>2, BeginTagSame
  <2> HIDE DEF b
  <2>4. Done(b) /\ b.iw = s.iw
    BY <1>9, <2>3, SameFields, SameSound DEF Done
  <2>5. more \in Nat BY <1>7 DEF Behind
  <2>6. t \in TwoStrings => more = b.iw + 2 BY <1>6, <2>4 DEF Behind
  <2>7. t = "s" => more = b.iw + 3 BY <1>6, <2>4 DEF Behind, TwoStrings
  <2> HIDE DEF more
  <2> QED BY <2>1, <2>4, <2>5, <2>6, <2>7, GotoIInv
<1> QED BY <1>4, <1>5, <1>8, <1>10, <1>11

LEMMA Stage3IInv == ASSUME IInv, Pass, Stage3 PROVE IInv'
<1> DEFINE q == vd.oms_pos + vd.iw
<1>1. /\ HasCursor(vd) /\ Sound(vd) /\ vd.oms_wanted <= vd.oms_size /\ vd.oms_size \in Nat
      /\ vd.oms_pos \in Nat /\ vd.oms_wanted \in Nat /\ vd.iw \in Nat /\ vd.ih \in Nat
  BY Waited DEF Sound
<1>2. \A m \in Nat : At(m) \in Nat /\ rshort(m) \in Nat BY Waited
<1>3. Need /\ In("STAGE3") BY Waited DEF Stage3, In
<1>4. CASE Tag \in TwoStrings
  <2> DEFINE w == IF Tag \in {"h", "o"} THEN vd ELSE [vd EXCEPT !.work_ref.id = vd.oms_pos - 2]
             second == rshort(q)
             v == [w EXCEPT !.oms_pos = q + 2, !.ih = second]
             mark == IF Tag \in {"c", "r", "o"} THEN 1 ELSE 0
  <2>1. vd.oms_wanted = q + 2 BY <1>3, <1>4 DEF Need, In, TwoStrings
  <2>2. q \in Nat BY <1>1
  <2>3. second \in Nat BY <1>2, <2>2
  <2>4. PassFrame /\ vd' = Goto(v, "STAGE4", Tag, second + mark)
    BY <1>4, RunFrame DEF Stage3, FirstString, TwoStrings
  <2>5. Same(vd, w) BY <1>1 DEF Same, HasCursor, CursorFields
  <2> HIDE DEF q, second, w
  <2>6. /\ HasCursor(w) /\ w.oms_wanted = vd.oms_wanted /\ w.oms_size = vd.oms_size
        /\ w.iw = vd.iw
    BY <2>5, SameFields
  <2>7. /\ HasCursor(v) /\ v.oms_pos = q + 2 /\ v.oms_wanted = vd.oms_wanted
        /\ v.oms_size = vd.oms_size /\ v.iw = vd.iw /\ v.ih = second
    BY <2>6 DEF HasCursor, CursorFields
  <2> HIDE DEF v
  <2>8. Done(v) BY <1>1, <2>1, <2>3, <2>7, DoneFields
  <2>9. second + mark \in Nat /\ second + mark = v.ih + mark BY <2>3, <2>7
  <2> QED BY <1>4, <2>4, <2>8, <2>9, GotoIInv
<1>5. CASE Tag = "s"
  <2> DEFINE count == rshort(q + 1)
             v == [vd EXCEPT !.work_ref.id = vd.oms_pos - 2, !.work_ref.size = 0,
                             !.work_ref.multiselect = At(q), !.tag_o_count = count,
                             !.work_ref.data = [n \in 1 .. count |-> NOREF],
                             !.oms_pos = q + 3]
  <2>1. vd.oms_wanted = q + 3 BY <1>3, <1>5 DEF Need, In, TwoStrings
  <2>2. PassFrame /\ vd' = NextTag(v)
    BY <1>5, RunFrame DEF Stage3, ListHead, TwoStrings
  <2> HIDE DEF q, count
  <2>3. /\ HasCursor(v) /\ v.oms_pos = q + 3 /\ v.oms_wanted = vd.oms_wanted
        /\ v.oms_size = vd.oms_size /\ v.iw = vd.iw /\ v.ih = vd.ih
    BY <1>1 DEF HasCursor, CursorFields
  <2> HIDE DEF v
  <2>4. Done(v) BY <1>1, <2>1, <2>3, DoneFields
  <2> QED BY <2>2, <2>4, NextTagIInv
<1>6. CASE Tag \notin TwoStrings \cup {"s"}
  <2> DEFINE d == DoString(vd, Tag, vd.oms_wanted - vd.oms_pos)
  <2>1. PassFrame /\ vd' = NextTag(Skip(d)) BY <1>6, RunFrame DEF Stage3
  <2>2. Same(vd, d) BY <1>1, StringSame
  <2> HIDE DEF d
  <2>3. Sound(d) /\ d.oms_wanted <= d.oms_size BY <1>1, <2>2, SameFields, SameSound
  <2>4. Done(Skip(d)) BY <2>3, SkipDone
  <2> QED BY <2>1, <2>4, NextTagIInv
<1> QED BY <1>4, <1>5, <1>6

LEMMA Stage4IInv == ASSUME IInv, Pass, Stage4 PROVE IInv'
<1> DEFINE n == vd.ih + (IF Tag \in {"c", "r", "o"} THEN 1 ELSE 0)
           d == DoSecond(vd, Tag)
<1>1. HasCursor(vd) /\ Sound(vd) /\ vd.oms_wanted <= vd.oms_size /\ vd.ih \in Nat
      /\ vd.oms_pos \in Nat
  BY Waited DEF Sound
<1>2. Need /\ In("STAGE4") BY Waited DEF Stage4, In
<1>3. Tag \in TwoStrings /\ vd.oms_wanted = vd.oms_pos + n
  BY <1>1, <1>2 DEF Need, In
<1>4. n \in Nat BY <1>1
<1>5. PassFrame /\ vd' = NextTag(Advance(d, n)) BY RunFrame DEF Stage4
<1>6. Same(vd, d) BY <1>1, <1>3, SecondSame
<1> HIDE DEF d, n
<1>7. Sound(d) /\ d.oms_wanted = d.oms_pos + n /\ d.oms_wanted <= d.oms_size
  BY <1>1, <1>3, <1>6, SameFields, SameSound
<1>8. Done(Advance(d, n)) BY <1>4, <1>7, AdvanceDone
<1> QED BY <1>5, <1>8, NextTagIInv

LEMMA UnchangedIInv ==
  ASSUME IInv, vd' = vd, page' = page, fed' = fed, call'.len \in Nat PROVE IInv'
<1>1. HasCursor(vd) /\ vd.oms_size \in Nat BY CurrentFacts DEF Sound
<1>2. fed' \in 0 .. WireLength BY DEF IInv, CallOK
<1>3. /\ HasCursor(vd') /\ vd'.oms_size = vd.oms_size
      /\ \A f \in CursorFields \ {"oms_size", "zs"} : vd'[f] = vd[f]
  BY <1>1
<1> QED BY <1>1, <1>2, <1>3, GrowIInv

LEMMA ParseStepIInv == ASSUME IInv, ParseStep PROVE IInv'
<1>1. Pass BY DEF ParseStep, Pass
<1>2. CASE Stop
  <2>1. PassFrame /\ vd' = vd BY <1>1, <1>2, RunFrame DEF Stop
  <2> QED BY <2>1, UnchangedIInv DEF PassFrame
<1> QED
  BY <1>1, <1>2, HdrCommonIInv, GzipHdrIInv, HdrIInv, PageUrlSizeIInv, PageUrlDataIInv,
     TagNameIInv, TagDataIInv, Stage3IInv, Stage4IInv
  DEF ParseStep

LEMMA StepIInv == IInv /\ [Next]_vars => IInv'
<1> SUFFICES ASSUME IInv, [Next]_vars PROVE IInv'
  OBVIOUS
<1>1. CASE Finish BY <1>1, FinishIInv
<1>2. CASE ParseStep BY <1>2, ParseStepIInv
<1>3. CASE \E len \in Pieces : Receive(len) BY <1>3, ReceiveIInv
<1>4. CASE UNCHANGED vars
  <2>1. vd' = vd /\ page' = page /\ fed' = fed /\ call' = call BY <1>4 DEF vars
  <2>2. call'.len \in Nat BY <2>1 DEF IInv, CallOK
  <2> QED BY <2>1, <2>2, UnchangedIInv
<1> QED BY <1>1, <1>2, <1>3, <1>4 DEF Next

\* Whatever the page and the pieces, oms_pos never passes oms_size: no state
\* of the parser reads bytes that have not arrived (parse_oms.c:149).
THEOREM ParserWithinData == Spec => []WithinData
<1>1. Init => IInv BY InitIInv
<1>2. IInv /\ [Next]_vars => IInv' BY StepIInv
<1>3. IInv => WithinData BY DEF IInv
<1> QED BY <1>1, <1>2, <1>3, PTL DEF Spec

\* The inductive invariant itself: the state the parser is in waits for just
\* what it reads.
THEOREM ParserWaits == Spec => []Waits
<1>1. Init => IInv BY InitIInv
<1>2. IInv /\ [Next]_vars => IInv' BY StepIInv
<1>3. IInv => Waits BY DEF IInv
<1> QED BY <1>1, <1>2, <1>3, PTL DEF Spec

-----------------------------------------------------------------------------
(***************************************************************************)
(* The lines of a page.                                                    *)
(***************************************************************************)
Texts == {t \in Seq(Symbol) : IsText(t)}

Flag == {0, 1}
Line == [pos : Nat, bold : Flag, under : Flag, ref : Flag, center : Flag, right : Flag,
         centerAtAll : Flag, pixheight : Nat, ycoord : Nat]

-----------------------------------------------------------------------------
(* Numbers.                                                                  *)

\* The least of a set of numbers.
LEMMA MinOfNats ==
  ASSUME NEW S \in SUBSET Nat, S # {}
  PROVE  /\ Min(S) \in S
         /\ \A x \in S : Min(S) <= x
<1> DEFINE Less == {ss \in Nat \X Nat : ss[1] < ss[2]}
<1>1. IsWellFoundedOn(Less, Nat)
  BY NatLessThanWellFounded DEF OpToRel
<1>2. PICK u \in S : \A n \in S : <<n, u>> \notin Less
  <2> HIDE DEF Less
  <2> QED  BY <1>1, WFMin
<1>3. \A n \in S : u <= n
  <2> SUFFICES ASSUME NEW n \in S, n < u PROVE FALSE
    OBVIOUS
  <2>1. <<n, u>> \in Nat \X Nat /\ <<n, u>>[1] < <<n, u>>[2]
    OBVIOUS
  <2>2. <<n, u>> \in Less
    BY <2>1
  <2> QED  BY <1>2, <2>2
<1>4. \E x \in S : \A y \in S : x =< y
  BY <1>3
<1> QED  BY <1>4 DEF Min

LEMMA Induction ==
  ASSUME NEW K, 0 \in K, \A k \in Nat : k \in K => k + 1 \in K
  PROVE  \A k \in Nat : k \in K
<1> SUFFICES ASSUME NEW k \in Nat, k \notin K PROVE FALSE
  OBVIOUS
<1> DEFINE Out == {j \in Nat : j \notin K}
           m == Min(Out)
<1>1. m \in Out /\ \A x \in Out : m <= x
  <2>1. Out \in SUBSET Nat /\ Out # {}
    OBVIOUS
  <2> HIDE DEF Out
  <2> QED  BY <2>1, MinOfNats
<1>2. m # 0 /\ m \in Nat /\ m - 1 \notin Out
  <2>1. m # 0 /\ m \in Nat
    BY <1>1
  <2> HIDE DEF Out, m
  <2> QED  BY <1>1, <2>1
<1>3. m - 1 \in Nat /\ m - 1 \in K /\ (m - 1) + 1 = m
  <2>1. m - 1 \in Nat /\ (m - 1) + 1 = m
    <3> HIDE DEF m
    <3> QED  BY <1>2
  <2> QED  BY <1>2, <2>1
<1>4. m \in K
  BY <1>3
<1> QED  BY <1>1, <1>4

\* The same on an interval.
LEMMA InductionOn ==
  ASSUME NEW lo \in Int, NEW hi \in Int, NEW K,
         lo \in K, \A i \in lo + 1 .. hi : i - 1 \in K => i \in K
  PROVE  \A i \in lo .. hi : i \in K
<1> DEFINE J == {k \in Nat : lo + k <= hi => lo + k \in K}
<1>1. 0 \in J
  OBVIOUS
<1>2. ASSUME NEW k \in Nat, k \in J PROVE k + 1 \in J
  <2>1. ASSUME lo + (k + 1) <= hi PROVE lo + (k + 1) \in K
    <3>1. lo + k <= hi /\ lo + (k + 1) \in lo + 1 .. hi /\ (lo + (k + 1)) - 1 = lo + k
      BY <2>1
    <3> QED  BY <1>2, <3>1
  <2> QED  BY <2>1
<1>3. \A k \in Nat : k \in J
  <2> HIDE DEF J
  <2> QED  BY <1>1, <1>2, Induction
<1> SUFFICES ASSUME NEW i \in lo .. hi PROVE i \in K
  OBVIOUS
<1>4. i - lo \in Nat /\ lo + (i - lo) = i /\ i <= hi
  OBVIOUS
<1> QED  BY <1>3, <1>4


\* G takes each step of the interval within S.
StepsIn(G, S, lo, hi) ==
  lo \in Int /\ hi \in Int /\ lo <= hi /\ G \in [S \X (lo .. hi) -> S]

\* f begins with a and takes these steps.
Takes(f, G, S, a, lo, hi) ==
  /\ f \in [lo .. hi -> S]
  /\ f[lo] = a
  /\ \A n \in lo .. hi : n # lo => f[n] = G[<<f[n - 1], n>>]

\* A function that is defined by recursion on an interval.
LEMMA Iterated ==
  ASSUME NEW lo, NEW hi, NEW S, NEW a, a \in S, NEW G, StepsIn(G, S, lo, hi)
  PROVE  \E f : Takes(f, G, S, a, lo, hi)
<1> USE DEF StepsIn
<1> DEFINE Is(f, m) == f[lo] = a /\ \A n \in lo .. m : n # lo => f[n] = G[<<f[n - 1], n>>]
           K == {m \in lo .. hi : \E f \in [lo .. m -> S] : Is(f, m)}
<1>1. lo \in K
  <2>1. [n \in lo .. lo |-> a] \in [lo .. lo -> S] /\ Is([n \in lo .. lo |-> a], lo)
    OBVIOUS
  <2>2. lo \in lo .. hi
    OBVIOUS
  <2> HIDE DEF Is
  <2> QED  BY <2>1, <2>2
<1>2. ASSUME NEW i \in lo + 1 .. hi, i - 1 \in K PROVE i \in K
  <2>1. PICK f \in [lo .. i - 1 -> S] : Is(f, i - 1)
    BY <1>2
  <2> DEFINE g == [n \in lo .. i |-> IF n = i THEN G[<<f[i - 1], i>>] ELSE f[n]]
  <2>2. g \in [lo .. i -> S]
    OBVIOUS
  <2>3. g[lo] = a
    BY <2>1
  <2>4. ASSUME NEW n \in lo .. i, n # lo PROVE g[n] = G[<<g[n - 1], n>>]
    <3>1. n - 1 \in lo .. i /\ n - 1 # i /\ n \in lo .. i /\ g[n - 1] = f[n - 1]
      BY <2>4
    <3>2. CASE n = i BY <3>1, <3>2
    <3>3. CASE n # i
      <4>1. n \in lo .. i - 1 /\ g[n] = f[n]
        BY <3>3
      <4> QED  BY <2>1, <2>4, <3>1, <4>1
    <3> QED  BY <3>2, <3>3
  <2>5. i \in lo .. hi
    OBVIOUS
  <2> HIDE DEF g
  <2> QED  BY <2>2, <2>3, <2>4, <2>5
<1>3. hi \in K
  <2> HIDE DEF K
  <2>1. hi \in lo .. hi
    OBVIOUS
  <2> QED  BY <1>1, <1>2, <2>1, InductionOn
<1> QED  BY <1>3 DEF Takes

\* What its steps keep, it keeps.
LEMMA StaysIn ==
  ASSUME NEW lo \in Int, NEW hi \in Int, NEW f, NEW S,
         f[lo] \in S, \A n \in lo + 1 .. hi : f[n - 1] \in S => f[n] \in S
  PROVE  \A n \in lo .. hi : f[n] \in S
<1> DEFINE K == {n \in Int : f[n] \in S}
<1>1. lo \in K /\ \A n \in lo + 1 .. hi : n - 1 \in K => n \in K
  OBVIOUS
<1>2. \A n \in lo .. hi : n \in K
  <2> HIDE DEF K
  <2> QED  BY <1>1, InductionOn
<1> QED  BY <1>2

-----------------------------------------------------------------------------
(* The width of a stretch of text.                                           *)

\* W[j] is the width of the first j symbols of the text in the font b.
IsWidths(W, t, b) ==
  /\ W \in [0 .. Len(t) -> Nat]
  /\ W[0] = 0
  /\ \A j \in 1 .. Len(t) : W[j] = W[j - 1] + GetSymbolBitmapWidth(t[j], b)

LEMMA SymbolOf ==
  ASSUME NEW t \in Texts, NEW j \in 1 .. Len(t)
  PROVE  t[j] \in Symbol /\ Fits(t[j])
BY DEF Texts, IsText

LEMMA Distribute ==
  ASSUME NEW x \in Int, NEW y \in Int, NEW z \in Int
  PROVE  /\ x * (y + z) = x * y + x * z
         /\ x * (y - z) = x * y - x * z
         /\ (y + z) * x = y * x + z * x
         /\ x * y \in Int
OBVIOUS

LEMMA TimesGrows ==
  ASSUME NEW x \in Nat, NEW y \in Int, NEW z \in Int, y <= z
  PROVE  x * y <= x * z
OBVIOUS

LEMMA TimesCancels ==
  ASSUME NEW x \in Nat, x # 0, NEW y \in Int, NEW z \in Int, x * y <= x * z
  PROVE  y <= z
<1> SUFFICES ASSUME z + 1 <= y PROVE FALSE
  OBVIOUS
<1>1. x * (z + 1) <= x * y
  BY TimesGrows
<1>2. x * (z + 1) = x * z + x * 1 /\ x * 1 = x
  BY Distribute
<1>3. x * z \in Int /\ x * y \in Int
  BY Distribute
<1> QED  BY <1>1, <1>2, <1>3

LEMMA SumsCompared ==
  ASSUME NEW m \in Int, NEW s \in Int, NEW x \in Int, NEW b \in Int, NEW u \in Int,
         NEW a \in Int, NEW v \in Int, NEW y \in Int,
         m <= s + x, s <= b + u, b <= a, v = u + y, x <= y
  PROVE  m <= a + v
OBVIOUS

LEMMA Moved ==
  ASSUME NEW x \in Int, NEW y \in Int, NEW z \in Int
  PROVE  (x + z) - y = (x - y) + z
OBVIOUS

LEMMA LeftTaken ==
  ASSUME NEW x \in Nat, NEW y \in Nat, NEW w \in Nat, NEW cw \in Nat, NEW left \in Nat,
         NEW scr \in Nat, scr - left <= x - y, cw <= w
  PROVE  scr - (left - cw) <= (x + w) - y
OBVIOUS

LEMMA BothGrow ==
  ASSUME NEW a \in Nat, NEW b \in Nat, NEW c \in Nat, NEW d \in Nat, NEW u \in Nat, NEW w \in Nat,
         a <= b, c <= d, b - a <= d - c, u <= w
  PROVE  a <= b + u /\ c <= d + w /\ (b + u) - a <= (d + w) - c
OBVIOUS

\* A symbol fits on the screen, and in bold it is wider by what is allowed.
LEMMA SymbolWidth ==
  ASSUME NEW c \in Symbol, Fits(c)
  PROVE  /\ \A b \in Flag : GetSymbolBitmapWidth(c, b) \in 0 .. ScrW
         /\ GetSymbolBitmapWidth(c, 0) <= GetSymbolBitmapWidth(c, 1)
         /\ Letter * GetSymbolBitmapWidth(c, 1)
              <= (Letter + BoldExtra) * GetSymbolBitmapWidth(c, 0)
<1>1. c.w \in Nat /\ ScrW \in Nat /\ Letter \in Nat /\ BoldExtra \in Nat
  BY ScreenAssumption DEF Symbol
<1>2. CASE c.k \in {"txt", "sp"}
  <2>1. Letter <= c.w /\ c.w + BoldExtra <= ScrW
    BY <1>2 DEF Fits
  <2>2. /\ GetSymbolBitmapWidth(c, 0) = c.w
        /\ GetSymbolBitmapWidth(c, 1) = c.w + BoldExtra
    BY <1>1, <1>2 DEF GetSymbolBitmapWidth
  <2>3. Letter * (c.w + BoldExtra) <= (Letter + BoldExtra) * c.w
    <3>1. Letter * (c.w + BoldExtra) = Letter * c.w + Letter * BoldExtra
      BY <1>1, Distribute
    <3>2. (Letter + BoldExtra) * c.w = Letter * c.w + BoldExtra * c.w
      BY <1>1, Distribute
    <3>3. BoldExtra * Letter <= BoldExtra * c.w
      BY <1>1, <2>1, TimesGrows
    <3>4. BoldExtra * Letter = Letter * BoldExtra
      BY <1>1
    <3> QED  BY <1>1, <3>1, <3>2, <3>3, <3>4, Distribute
  <2> QED  BY <1>1, <2>1, <2>2, <2>3 DEF Flag
<1>3. CASE c.k = "pic"
  <2>1. c.w <= ScrW /\ \A b : GetSymbolBitmapWidth(c, b) = c.w
    BY <1>3 DEF Fits, GetSymbolBitmapWidth
  <2>2. Letter * c.w <= (Letter + BoldExtra) * c.w
    <3>1. (Letter + BoldExtra) * c.w = Letter * c.w + BoldExtra * c.w
      BY <1>1, Distribute
    <3>2. BoldExtra * 0 <= BoldExtra * c.w
      BY <1>1, TimesGrows
    <3> QED  BY <1>1, <3>1, <3>2, Distribute
  <2> QED  BY <1>1, <2>1, <2>2
<1>4. CASE c.k \notin {"txt", "sp", "pic"}
  <2>1. \A b : GetSymbolBitmapWidth(c, b) = 0
    BY <1>4 DEF GetSymbolBitmapWidth
  <2> QED  BY <1>1, <2>1
<1> QED  BY <1>2, <1>3, <1>4

LEMMA WidthsExist ==
  ASSUME NEW t \in Texts, NEW b \in Flag
  PROVE  \E W : IsWidths(W, t, b)
<1> DEFINE hi == Len(t)
           G == [x \in Nat \X (0 .. hi) |->
                   IF x[2] = 0 THEN 0 ELSE x[1] + GetSymbolBitmapWidth(t[x[2]], b)]
<1>1. hi \in Nat
  BY DEF Texts
<1>2. G \in [Nat \X (0 .. hi) -> Nat]
  <2>1. ASSUME NEW j \in 1 .. hi PROVE GetSymbolBitmapWidth(t[j], b) \in Nat
    <3>1. GetSymbolBitmapWidth(t[j], b) \in 0 .. ScrW
      BY SymbolOf, SymbolWidth
    <3> QED  BY <3>1
  <2> HIDE DEF hi
  <2> QED  BY <1>1, <2>1
<1>3. \A x \in Nat, j \in 1 .. hi : G[<<x, j>>] = x + GetSymbolBitmapWidth(t[j], b)
  <2> HIDE DEF hi
  <2> QED  BY <1>1
<1> HIDE DEF G, hi
<1>4. 0 <= hi /\ 0 \in Nat /\ 0 \in Int /\ hi \in Int
  BY <1>1
<1>5. PICK W : Takes(W, G, Nat, 0, 0, hi)
  <2>1. StepsIn(G, Nat, 0, hi) /\ 0 \in Nat
    BY <1>2, <1>4 DEF StepsIn
  <2> QED  BY <2>1, Iterated, Zenon
<1>6. ASSUME NEW j \in 1 .. hi PROVE W[j] = W[j - 1] + GetSymbolBitmapWidth(t[j], b)
  <2>1. j \in 0 .. hi /\ j - 1 \in 0 .. hi /\ j # 0
    BY <1>1
  <2>2. W[j - 1] \in Nat
    BY <1>5, <2>1 DEF Takes
  <2> QED  BY <1>3, <1>5, <2>1, <2>2 DEF Takes
<1> QED  BY <1>5, <1>6 DEF Takes, IsWidths, hi

\* A stretch is no narrower than its part, and in bold wider by what is allowed.
LEMMA WidthsCompared ==
  ASSUME NEW t \in Texts, NEW U, NEW W, IsWidths(U, t, 0), IsWidths(W, t, 1),
         NEW k \in 0 .. Len(t)
  PROVE  \A j \in k .. Len(t) :
           /\ U[k] <= U[j] /\ W[k] <= W[j] /\ U[j] - U[k] <= W[j] - W[k]
           /\ Letter * (W[j] - W[k]) <= (Letter + BoldExtra) * (U[j] - U[k])
<1> DEFINE Ok(j) == /\ U[k] <= U[j] /\ W[k] <= W[j] /\ U[j] - U[k] <= W[j] - W[k]
                    /\ Letter * (W[j] - W[k]) <= (Letter + BoldExtra) * (U[j] - U[k])
           K == {j \in Int : Ok(j)}
<1>1. /\ Len(t) \in Nat /\ Letter \in Nat /\ BoldExtra \in Nat
      /\ \A j \in 0 .. Len(t) : U[j] \in Nat /\ W[j] \in Nat
  <2>1. U \in [0 .. Len(t) -> Nat] /\ W \in [0 .. Len(t) -> Nat]
    BY DEF IsWidths
  <2>2. Len(t) \in Nat
    BY DEF Texts
  <2> QED  BY <2>1, <2>2, ScreenAssumption
<1>2. k \in K
  <2>1. W[k] - W[k] = 0 /\ U[k] - U[k] = 0
    BY <1>1
  <2>2. Letter * 0 = 0 /\ (Letter + BoldExtra) * 0 = 0
    BY <1>1
  <2> QED  BY <1>1, <2>1, <2>2
<1>3. ASSUME NEW j \in k + 1 .. Len(t), j - 1 \in K PROVE j \in K
  <2> DEFINE u == GetSymbolBitmapWidth(t[j], 0)
             w == GetSymbolBitmapWidth(t[j], 1)
             L == Letter
             M == Letter + BoldExtra
             x == W[j - 1] - W[k]
             y == U[j - 1] - U[k]
  <2>1. j \in 1 .. Len(t) /\ j - 1 \in 0 .. Len(t) /\ j \in 0 .. Len(t) /\ j \in Int
    BY <1>1
  <2>2. U[j] = U[j - 1] + u /\ W[j] = W[j - 1] + w
    BY <2>1 DEF IsWidths
  <2>3. u \in Nat /\ w \in Nat /\ u <= w /\ L * w <= M * u
    <3>1. t[j] \in Symbol /\ Fits(t[j])
      BY <2>1, SymbolOf
    <3>2. u \in 0 .. ScrW /\ w \in 0 .. ScrW
      BY <3>1, SymbolWidth DEF Flag
    <3> QED  BY <3>1, <3>2, SymbolWidth, ScreenAssumption
  <2>4. Ok(j - 1) /\ U[j - 1] \in Nat /\ W[j - 1] \in Nat /\ U[k] \in Nat /\ W[k] \in Nat
    BY <1>1, <1>3, <2>1
  <2>5. x \in Int /\ y \in Int /\ L \in Nat /\ M \in Nat /\ L * x <= M * y
    <3>1. L * x <= M * y
      BY <2>4
    <3>2. L \in Nat /\ M \in Nat
      BY <1>1
    <3>3. x \in Int /\ y \in Int
      <4>1. U[j - 1] \in Nat /\ W[j - 1] \in Nat /\ U[k] \in Nat /\ W[k] \in Nat
        BY <2>4
      <4> QED  BY <4>1
    <3> HIDE DEF L, M, x, y
    <3> QED  BY <3>1, <3>2, <3>3
  <2> HIDE DEF u, w, L, M
  <2>6. W[j] - W[k] = x + w /\ U[j] - U[k] = y + u
    BY <2>2, <2>3, <2>4
  <2> HIDE DEF x, y
  <2>7. L * (x + w) <= M * (y + u)
    <3>1. L * (x + w) = L * x + L * w /\ M * (y + u) = M * y + M * u
      BY <2>3, <2>5, Distribute
    <3>2. L * x \in Int /\ L * w \in Int /\ M * y \in Int /\ M * u \in Int
      BY <2>3, <2>5, Distribute
    <3> QED  BY <2>3, <2>5, <3>1, <3>2
  <2>8. L * (W[j] - W[k]) <= M * (U[j] - U[k])
    BY <2>6, <2>7
  <2>9. U[k] <= U[j] /\ W[k] <= W[j] /\ U[j] - U[k] <= W[j] - W[k]
    <3>1. U[k] <= U[j - 1] /\ W[k] <= W[j - 1] /\ U[j - 1] - U[k] <= W[j - 1] - W[k]
      BY <2>4
    <3>2. u \in Nat /\ w \in Nat /\ u <= w
      BY <2>3
    <3>3. U[j - 1] \in Nat /\ W[j - 1] \in Nat /\ U[k] \in Nat /\ W[k] \in Nat
      BY <2>4
    <3>4. U[j] \in Nat /\ W[j] \in Nat
      BY <1>1, <2>1
    <3>5. /\ U[k] <= U[j - 1] + u /\ W[k] <= W[j - 1] + w
          /\ (U[j - 1] + u) - U[k] <= (W[j - 1] + w) - W[k]
      BY ONLY <3>1, <3>2, <3>3, BothGrow
    <3> QED  BY <2>2, <3>5
  <2> QED  BY <2>1, <2>8, <2>9 DEF L, M
<1> HIDE DEF K
<1>4. \A j \in k .. Len(t) : j \in K
  <2>1. k \in Int /\ Len(t) \in Int
    BY <1>1
  <2> QED  BY <1>2, <1>3, <2>1, InductionOn
<1> QED  BY <1>4 DEF K

-----------------------------------------------------------------------------
(* One line.                                                                 *)

\* The widths Wrap looks back over from symbol i.
IsWrapWidths(f, t, i, bold) ==
  f = [b \in 0 .. i |-> IF b = 0 THEN 0
                        ELSE f[b - 1] + GetSymbolBitmapWidth(t[i - b + 1], bold)]

\* They add up.
LEMMA WrapWidths ==
  ASSUME NEW t \in Texts, NEW bold \in Flag, NEW V, IsWidths(V, t, bold), NEW i \in 1 .. Len(t),
         NEW h, IsWrapWidths(h, t, i, bold)
  PROVE  \A b \in 0 .. i : h[b] = V[i] - V[i - b]
<1> USE DEF IsWrapWidths
<1> DEFINE K == {b \in 0 .. i : h[b] = V[i] - V[i - b]}
<1>1. Len(t) \in Nat /\ i \in Nat /\ \A j \in 0 .. Len(t) : V[j] \in Nat
  <2>1. V \in [0 .. Len(t) -> Nat]
    BY DEF IsWidths
  <2> QED  BY <2>1 DEF Texts
<1>2. 0 \in K
  <2>1. h[0] = 0 /\ V[i] - V[i - 0] = 0
    BY <1>1
  <2> QED  BY <1>1, <2>1
<1>3. ASSUME NEW b \in 0 + 1 .. i, b - 1 \in K PROVE b \in K
  <2>1. b \in 0 .. i /\ b # 0 /\ b - 1 \in 0 .. i
    BY <1>1
  <2>2. h[b] = h[b - 1] + GetSymbolBitmapWidth(t[i - b + 1], bold)
    BY <2>1
  <2>3. h[b - 1] = V[i] - V[i - (b - 1)]
    BY <1>3
  <2> DEFINE j == i - b + 1
  <2>4. j \in 1 .. Len(t) /\ i - (b - 1) = j /\ j - 1 = i - b /\ j \in 0 .. Len(t) /\ j - 1 \in 0 .. Len(t)
    BY <1>1, <2>1
  <2> HIDE DEF j
  <2>5. V[j] = V[j - 1] + GetSymbolBitmapWidth(t[j], bold)
    BY <2>4 DEF IsWidths
  <2> DEFINE w == GetSymbolBitmapWidth(t[j], bold)
  <2>6. h[b] = (V[i] - V[j]) + w /\ V[j] = V[i - b] + w
    BY <2>2, <2>3, <2>4, <2>5 DEF j
  <2>7. V[i] \in Nat /\ V[j] \in Nat /\ V[i - b] \in Nat
    BY <1>1, <2>4
  <2>8. w \in Int
    <3>1. t[j] \in Symbol /\ Fits(t[j])
      BY <2>4, SymbolOf
    <3>2. w \in 0 .. ScrW
      BY <3>1, SymbolWidth
    <3> QED  BY <3>2
  <2> HIDE DEF w
  <2>9. h[b] = V[i] - V[i - b]
    BY <2>6, <2>7, <2>8
  <2> QED  BY <2>1, <2>9
<1>4. 0 \in Int /\ i \in Int
  BY <1>1
<1> HIDE DEF K
<1>5. \A b \in 0 .. i : b \in K
  BY <1>2, <1>3, <1>4, InductionOn
<1> QED  BY <1>5 DEF K


\* They are defined.
LEMMA WrapWidthsExist ==
  ASSUME NEW t \in Texts, NEW bold \in Flag, NEW V, IsWidths(V, t, bold), NEW i \in 1 .. Len(t)
  PROVE  \E f : IsWrapWidths(f, t, i, bold)
<1>1. Len(t) \in Nat /\ i \in Nat /\ (\A j \in 0 .. Len(t) : V[j] \in Nat)
  <2>1. V \in [0 .. Len(t) -> Nat]
    BY DEF IsWidths
  <2> QED  BY <2>1 DEF Texts
<1> DEFINE g == [b \in 0 .. i |-> V[i] - V[i - b]]
<1>2. ASSUME NEW b \in 0 .. i
      PROVE  g[b] = IF b = 0 THEN 0 ELSE g[b - 1] + GetSymbolBitmapWidth(t[i - b + 1], bold)
  <2>1. CASE b = 0
    <3>1. i - 0 = i /\ V[i] - V[i] = 0
      BY <1>1
    <3> QED  BY <2>1, <3>1
  <2>2. CASE b # 0
    <3> DEFINE j == i - b + 1
               w == GetSymbolBitmapWidth(t[j], bold)
    <3>1. /\ j \in 1 .. Len(t) /\ i - (b - 1) = j /\ j - 1 = i - b
          /\ j \in 0 .. Len(t) /\ j - 1 \in 0 .. Len(t) /\ b - 1 \in 0 .. i
      BY <1>1, <2>2
    <3>2. g[b] = V[i] - V[i - b] /\ g[b - 1] = V[i] - V[i - (b - 1)]
      BY <3>1
    <3> HIDE DEF j, g
    <3>3. V[j] = V[j - 1] + w
      BY <3>1 DEF IsWidths
    <3>4. w \in Int
      <4>1. t[j] \in Symbol /\ Fits(t[j])
        BY <3>1, SymbolOf
      <4>2. w \in 0 .. ScrW
        BY <1>1, <4>1, SymbolWidth
      <4> QED  BY <4>2
    <3>5. V[i] \in Nat /\ V[j] \in Nat /\ V[j - 1] \in Nat
      BY <1>1, <3>1
    <3>6. g[b] = V[i] - V[j - 1] /\ g[b - 1] = V[i] - V[j]
      BY <3>1, <3>2
    <3> HIDE DEF w
    <3>7. g[b] = g[b - 1] + w
      BY <3>3, <3>4, <3>5, <3>6
    <3> QED  BY <2>2, <3>7 DEF w, j
  <2> QED  BY <2>1, <2>2
<1>3. DOMAIN g = 0 .. i /\ g = [b \in 0 .. i |-> g[b]]
  OBVIOUS
<1> HIDE DEF g
<1>4. IsWrapWidths(g, t, i, bold)
  BY <1>2, <1>3 DEF IsWrapWidths
<1> QED  BY <1>4

\* It gives back no more than the line has, when the line is wide enough: there is
\* a place to cut behind its beginning.
LEMMA WrapWithin ==
  ASSUME NEW t \in Texts, NEW p \in Line, NEW V, IsWidths(V, t, p.bold),
         NEW i \in 1 .. Len(t), NEW from \in Nat, from + 2 <= i,
         V[i] - V[from] >= (ScrW * 3) \div 4,
         \A q \in from + 1 .. i : t[q].k # "br"
  PROVE  Wrap(t, p, i) \in 0 .. i - from - 1
<1> DEFINE Is(f) == IsWrapWidths(f, t, i, p.bold)
           h == CHOOSE f : Is(f)
           most == (ScrW * 3) \div 4
<1>1. Len(t) \in Nat /\ i \in Nat /\ (\A j \in 0 .. Len(t) : V[j] \in Nat) /\ p.bold \in Flag
  <2>1. V \in [0 .. Len(t) -> Nat]
    BY DEF IsWidths
  <2> QED  BY <2>1 DEF Texts, Line
<1>2. \E f : Is(f)
  BY <1>1, WrapWidthsExist
<1>3. Is(h)
  <2> HIDE DEF Is
  <2> QED  BY <1>2
<1> HIDE DEF h
<1>4. \A b \in 0 .. i : h[b] = V[i] - V[i - b]
  BY <1>1, <1>3, WrapWidths
<1> DEFINE at(b) == t[i - b + 1]
           tooFar(b) == h[b] >= most
           stops(b) ==
             \/ tooFar(b) \/ at(b).k = "br"
             \/ IF p.ref = 1 THEN (WordWrap /\ at(b).k = "sp") \/ IsMark(at(b), "ref", 1)
                ELSE at(b).k \in {"sp", "pic"} \/ IsMark(at(b), "ref", 0)
           S == {x \in 1 .. i : stops(x)}
           b == Min(S)
<1>5. Wrap(t, p, i) = IF (~WordWrap /\ p.ref = 0) \/ tooFar(b) THEN 1
                      ELSE IF at(b).k = "br" THEN b + 1
                      ELSE IF p.ref = 0 /\ at(b).k \in {"sp", "pic"} THEN b - 1
                      ELSE b
  BY DEF Wrap, h, IsWrapWidths
<1>6. i - from \in 1 .. i /\ tooFar(i - from)
  <2>1. i - from \in 1 .. i /\ i - from \in 0 .. i /\ i - (i - from) = from
    BY <1>1
  <2>2. h[i - from] = V[i] - V[from]
    BY <1>4, <2>1
  <2> QED  BY <2>1, <2>2
<1>7. i - from \in S /\ S \in SUBSET Nat
  BY <1>1, <1>6
<1>8. b \in S /\ b <= i - from
  <2> HIDE DEF S
  <2>1. S # {}
    BY <1>7
  <2> QED  BY <1>7, <2>1, MinOfNats
<1>9. b \in 1 .. i
  BY <1>8
<1> HIDE DEF b, S
<1>10. CASE (~WordWrap /\ p.ref = 0) \/ tooFar(b)
  BY <1>1, <1>5, <1>10
<1>11. CASE ~((~WordWrap /\ p.ref = 0) \/ tooFar(b))
  <2>1. b # i - from
    BY <1>6, <1>11
  <2>2. b < i - from /\ i - b + 1 \in from + 1 .. i
    BY <1>1, <1>8, <1>9, <2>1
  <2>3. at(b).k # "br"
    BY <2>2
  <2>4. Wrap(t, p, i) \in {b - 1, b}
    <3> HIDE DEF at, tooFar
    <3> QED  BY <1>5, <1>11, <2>3
  <2> QED  BY <1>1, <1>9, <2>2, <2>4
<1> QED  BY <1>10, <1>11


\* A line that is full is wide enough in the font at its end, whatever fonts it has.
LEMMA FullIsWide ==
  ASSUME NEW t \in Texts, NEW U, NEW W, IsWidths(U, t, 0), IsWidths(W, t, 1),
         NEW i \in 1 .. Len(t), NEW from \in 0 .. i - 1, NEW left \in Nat,
         ScrW - left <= W[i - 1] - W[from], NEW bold \in Flag,
         GetSymbolBitmapWidth(t[i], bold) > left
  PROVE  \E V : IsWidths(V, t, bold) /\ V[i] - V[from] >= (ScrW * 3) \div 4
<1> DEFINE u == GetSymbolBitmapWidth(t[i], 0)
           w == GetSymbolBitmapWidth(t[i], 1)
           most == (ScrW * 3) \div 4
           a == U[i - 1] - U[from]
           b == W[i - 1] - W[from]
           L == Letter
           M == Letter + BoldExtra
<1>1. Len(t) \in Nat /\ \A j \in 0 .. Len(t) : U[j] \in Nat /\ W[j] \in Nat
  <2>1. U \in [0 .. Len(t) -> Nat] /\ W \in [0 .. Len(t) -> Nat]
    BY DEF IsWidths
  <2>2. Len(t) \in Nat
    BY DEF Texts
  <2> QED  BY <2>1, <2>2
<1>2. /\ i \in 0 .. Len(t) /\ i - 1 \in 0 .. Len(t) /\ from \in 0 .. Len(t)
      /\ i - 1 \in from .. Len(t) /\ i \in 1 .. Len(t)
  BY <1>1
<1>3. t[i] \in Symbol /\ Fits(t[i])
  BY SymbolOf
<1>4. u \in Nat /\ w \in Nat
  <2>1. u \in 0 .. ScrW /\ w \in 0 .. ScrW
    BY <1>3, SymbolWidth DEF Flag
  <2> QED  BY <2>1
<1>5. U[i] = U[i - 1] + u /\ W[i] = W[i - 1] + w
  BY <1>2 DEF IsWidths
<1>6. L * b <= M * a
  BY <1>2, WidthsCompared
<1>7. /\ U[i] \in Nat /\ W[i] \in Nat /\ U[i - 1] \in Nat /\ W[i - 1] \in Nat
      /\ U[from] \in Nat /\ W[from] \in Nat
  BY <1>1, <1>2
<1>8. /\ L \in Nat /\ L # 0 /\ M \in Nat /\ M >= L /\ BoldExtra \in Nat /\ M = L + BoldExtra
      /\ ScrW \in Nat /\ most \in Nat /\ most <= ScrW
      /\ M * most <= L * (ScrW + 1) + BoldExtra
  <2>1. ScrW \in Nat /\ Letter \in Nat /\ Letter # 0 /\ BoldExtra \in Nat
    BY ScreenAssumption
  <2>2. most \in Nat /\ most <= ScrW
    BY <2>1
  <2>3. M * most <= L * (ScrW + 1) + BoldExtra
    BY BoldAssumption
  <2> HIDE DEF most
  <2> QED  BY <2>1, <2>2, <2>3
<1>9. a \in Int /\ b \in Int /\ ScrW - left <= b
  BY <1>7
<1> HIDE DEF u, w, most, L, M
<1>10. U[i] - U[from] = a + u /\ W[i] - W[from] = b + w
  <2>1. U[i] - U[from] = (U[i - 1] + u) - U[from] /\ W[i] - W[from] = (W[i - 1] + w) - W[from]
    BY <1>5
  <2>2. u \in Int /\ w \in Int
    BY <1>4
  <2>3. /\ U[i - 1] \in Int /\ U[from] \in Int
        /\ W[i - 1] \in Int /\ W[from] \in Int
    BY <1>7
  <2>4. (U[i - 1] + u) - U[from] = (U[i - 1] - U[from]) + u
    BY <2>2, <2>3, Moved
  <2>5. (W[i - 1] + w) - W[from] = (W[i - 1] - W[from]) + w
    BY <2>2, <2>3, Moved
  <2> QED  BY <2>1, <2>4, <2>5
<1> HIDE DEF a, b
<1>11. CASE bold = 1
  <2>1. w > left
    BY <1>11 DEF w
  <2>2. b + w >= most
    BY <1>4, <1>8, <1>9, <2>1
  <2>3. W[i] - W[from] >= most
    BY <1>10, <2>2
  <2> QED  BY <1>11, <2>3 DEF most
<1>12. CASE bold = 0
  <2>1. u > left
    BY <1>12 DEF u
  <2>2. b + u >= ScrW + 1 /\ u >= 1
    BY <1>4, <1>8, <1>9, <2>1
  <2>3. L * (ScrW + 1) <= L * (b + u)
    <3>1. ScrW + 1 \in Int /\ b + u \in Int
      BY <1>4, <1>8, <1>9
    <3> QED  BY <1>8, <2>2, <3>1, TimesGrows
  <2>4. L * (b + u) = L * b + L * u /\ M * (a + u) = M * a + M * u /\ M * u = L * u + BoldExtra * u
    BY <1>4, <1>8, <1>9, Distribute
  <2>5. BoldExtra <= BoldExtra * u
    <3>1. BoldExtra * 1 <= BoldExtra * u /\ BoldExtra * 1 = BoldExtra
      BY <1>4, <1>8, <2>2, TimesGrows
    <3> QED  BY <3>1
  <2>6. M * most <= M * (a + u)
    <3>1. /\ L * b \in Int /\ L * u \in Int /\ M * a \in Int /\ M * u \in Int /\ BoldExtra * u \in Int
          /\ L * (ScrW + 1) \in Int /\ M * most \in Int
      <4>1. ScrW + 1 \in Int
        BY <1>8
      <4> QED  BY <1>4, <1>8, <1>9, <4>1, Distribute
    <3>2. M * most <= M * a + M * u
      BY ONLY <1>6, <1>8, <2>3, <2>4, <2>5, <3>1, SumsCompared
    <3> QED  BY <2>4, <3>2
  <2>7. most <= a + u
    <3>1. M # 0 /\ a + u \in Int /\ most \in Int
      BY <1>4, <1>8, <1>9
    <3> QED  BY <1>8, <2>6, <3>1, TimesCancels
  <2>8. U[i] - U[from] >= most
    BY <1>4, <1>8, <1>9, <1>10, <2>7
  <2> QED  BY <1>12, <2>8 DEF most
<1> QED  BY <1>11, <1>12 DEF Flag


-----------------------------------------------------------------------------
(* The scan of a line.                                                       *)

ScanState == [p : Line, left : Int, out : {"more", "line", "end"}]

\* A scan from v.cpos on, y being where the line stands: what is on the line has
\* its width, none of it ends the line, and a line that is finished has something.
InScan(v, y, W, s) ==
  /\ s \in ScanState /\ s.p.ycoord = y
  /\ s.p.pos \in v.cpos .. Len(v.text)
  /\ s.out = "more" =>
       /\ s.left \in 0 .. ScrW
       /\ ScrW - s.left <= W[s.p.pos] - W[v.cpos]
       /\ \A q \in v.cpos + 1 .. s.p.pos : v.text[q].k # "br"
  /\ s.out = "line" => s.p.pos > v.cpos

\* The line goes on over symbols that take no room.
LEMMA ScanOver ==
  ASSUME NEW v, v.text \in Texts, v.cpos \in 0 .. Len(v.text), NEW y, NEW U, NEW W,
         IsWidths(U, v.text, 0), IsWidths(W, v.text, 1),
         NEW s, InScan(v, y, W, s), s.out = "more",
         NEW n \in s.p.pos .. Len(v.text), NEW p \in Line, p.pos = n, p.ycoord = y,
         \A q \in s.p.pos + 1 .. n : v.text[q].k # "br",
         NEW r, r = [s EXCEPT !.p = p]
  PROVE  InScan(v, y, W, r)
<1>1. r \in ScanState /\ r.p = p /\ r.left = s.left /\ r.out = "more"
  BY DEF InScan, ScanState
<1>2. /\ Len(v.text) \in Nat /\ v.cpos \in Nat /\ s.p.pos \in v.cpos .. Len(v.text)
      /\ n \in v.cpos .. Len(v.text)
  <2>1. Len(v.text) \in Nat
    BY DEF Texts
  <2> QED  BY <2>1 DEF InScan
<1>3. W[s.p.pos] <= W[n] /\ W[n] \in Nat /\ W[s.p.pos] \in Nat /\ W[v.cpos] \in Nat
  <2>1. s.p.pos \in 0 .. Len(v.text) /\ n \in 0 .. Len(v.text) /\ v.cpos \in 0 .. Len(v.text)
    BY <1>2
  <2>2. W[s.p.pos] <= W[n]
    BY <2>1, WidthsCompared
  <2>3. W \in [0 .. Len(v.text) -> Nat]
    BY DEF IsWidths
  <2> QED  BY <2>1, <2>2, <2>3
<1>4. s.left \in 0 .. ScrW /\ ScrW - s.left <= W[s.p.pos] - W[v.cpos] /\ ScrW \in Nat
  BY ScreenAssumption DEF InScan
<1>5. ScrW - s.left <= W[n] - W[v.cpos]
  BY <1>3, <1>4
<1>6. \A q \in v.cpos + 1 .. n : v.text[q].k # "br"
  <2> SUFFICES ASSUME NEW q \in v.cpos + 1 .. n PROVE v.text[q].k # "br"
    OBVIOUS
  <2>1. q \in v.cpos + 1 .. s.p.pos \/ q \in s.p.pos + 1 .. n
    BY <1>2
  <2> QED  BY <2>1 DEF InScan
<1> QED  BY <1>1, <1>2, <1>4, <1>5, <1>6 DEF InScan

\* A mark of colour comes with its words.
LEMMA WordsBehind ==
  ASSUME NEW t \in Texts, NEW i \in 1 .. Len(t), t[i].k \in DOMAIN Operands
  PROVE  /\ i + Operands[t[i].k] \in i .. Len(t)
         /\ \A q \in i .. i + Operands[t[i].k] : t[q].k # "br"
<1> DEFINE n == Operands[t[i].k]
<1>1. n \in {1, 2} /\ t[i].k # "br"
  BY DEF Operands
<1>2. Len(t) \in Nat /\ i \in DOMAIN t /\ DOMAIN t = 1 .. Len(t)
  BY DEF Texts
<1>3. \A d \in 1 .. n : i + d \in DOMAIN t /\ t[i + d].k = "word"
  BY <1>2 DEF Texts, IsText, WordsFollow
<1> HIDE DEF n
<1>4. i + n \in i .. Len(t)
  <2>1. n \in 1 .. n
    BY <1>1
  <2> QED  BY <1>1, <1>2, <1>3, <2>1
<1>5. ASSUME NEW q \in i .. i + n PROVE t[q].k # "br"
  <2>1. CASE q = i BY <1>1, <2>1
  <2>2. CASE q # i
    <3>1. q - i \in 1 .. n /\ i + (q - i) = q
      BY <1>1, <2>2
    <3>2. t[i + (q - i)].k = "word"
      BY <1>3, <3>1
    <3> QED  BY <3>1, <3>2
  <2> QED  BY <2>1, <2>2
<1> QED  BY <1>4, <1>5 DEF n


\* A mark that switches an attribute.
Switched(p, i, a, n) == [p EXCEPT !.pos = i, ![a] = n]

LEMMA SwitchOnLine ==
  ASSUME NEW p \in Line, NEW a \in Attributes, NEW n \in Flag, NEW i \in Nat
  PROVE  /\ Switched(p, i, a, n) \in Line
         /\ Switched(p, i, a, n).pos = i
         /\ Switched(p, i, a, n).ycoord = p.ycoord
BY DEF Switched, Line, Attributes, Flag

\* A symbol that is put on the line or ends it.
LEMMA PlaceKeeps ==
  ASSUME NEW v, v.text \in Texts, v.cpos \in 0 .. Len(v.text), NEW y, NEW U, NEW W,
         IsWidths(U, v.text, 0), IsWidths(W, v.text, 1),
         NEW s, InScan(v, y, W, s), s.out = "more",
         NEW i \in 1 .. Len(v.text), s.p.pos = i - 1
  PROVE  InScan(v, y, W, PlaceSymbol(v, s, i))
<1> DEFINE c == v.text[i]
           p == [s.p EXCEPT !.pos = i]
           h == CASE c.k = "pic" -> c.h
                  [] c.k = "br" -> 0
                  [] OTHER -> GetFontHeight(p.under, p.ref)
           cw == GetSymbolBitmapWidth(c, p.bold)
           high == [p EXCEPT !.pixheight = IF h > @ THEN h ELSE @]
           closed == IF i + 2 <= Len(v.text) THEN IsMark(v.text[i + 2], "ref", 0) ELSE v.behind
           r == PlaceSymbol(v, s, i)
<1>1. /\ Len(v.text) \in Nat /\ i \in Nat /\ v.cpos \in 0 .. i - 1 /\ ScrW \in Nat
      /\ s.left \in 0 .. ScrW /\ ScrW - s.left <= W[i - 1] - W[v.cpos]
      /\ (\A q \in v.cpos + 1 .. i - 1 : v.text[q].k # "br")
      /\ s \in ScanState /\ s.p \in Line /\ s.p.ycoord = y
  <2>1. Len(v.text) \in Nat
    BY DEF Texts
  <2>2. s.p.pos \in v.cpos .. Len(v.text) /\ s \in ScanState
    BY DEF InScan
  <2>3. s.p \in Line
    BY <2>2 DEF ScanState
  <2>4. v.cpos \in 0 .. i - 1
    BY <2>1, <2>2
  <2> QED  BY <2>1, <2>2, <2>3, <2>4, ScreenAssumption DEF InScan
<1>2. c \in Symbol /\ Fits(c)
  BY SymbolOf
<1>3. p \in Line /\ p.pos = i /\ p.ycoord = y /\ p.bold = s.p.bold
  BY <1>1 DEF Line
<1>4. h \in Nat
  <2>1. p.under \in Nat /\ p.ref \in Nat
    BY <1>3 DEF Line, Flag
  <2>2. GetFontHeight(p.under, p.ref) \in Nat
    BY <2>1, ScreenAssumption DEF GetFontHeight
  <2>3. c.h \in Nat
    BY <1>2 DEF Symbol
  <2> HIDE DEF c, p
  <2> QED  BY <2>2, <2>3
<1>5. cw \in 0 .. ScrW /\ (c.k = "br" => cw = 0)
  <2>1. p.bold \in Flag
    BY <1>3 DEF Line
  <2>2. cw \in 0 .. ScrW
    BY <1>2, <2>1, SymbolWidth
  <2> QED  BY <2>2 DEF GetSymbolBitmapWidth
<1>6. high \in Line /\ high.pos = i /\ high.ycoord = y
  <2> HIDE DEF p, h
  <2> QED  BY <1>3, <1>4 DEF Line
<1>7. r = IF cw > s.left
          THEN [s EXCEPT !.p = [p EXCEPT !.pos = i - Wrap(v.text, p, i)], !.out = "line"]
          ELSE IF AloneOnLine(c, cw, s.left)
          THEN IF i = Len(v.text) THEN [s EXCEPT !.p = high, !.out = "end"]
               ELSE [s EXCEPT
                      !.p = IF closed
                            THEN [high EXCEPT !.centerAtAll = 1, !.ref = 0, !.pos = i + 1]
                            ELSE [high EXCEPT !.centerAtAll = 1],
                      !.out = "line"]
          ELSE [s EXCEPT !.p = high, !.left = @ - cw,
                         !.out = IF c.k = "br" THEN "line" ELSE "more"]
  BY DEF PlaceSymbol
<1> HIDE DEF r, closed
<1>8. CASE cw > s.left
  <2>1. s.left \in Nat /\ p.bold \in Flag
    BY <1>1, <1>3 DEF Line
  <2>2. PICK V : IsWidths(V, v.text, p.bold) /\ V[i] - V[v.cpos] >= (ScrW * 3) \div 4
    <3>1. GetSymbolBitmapWidth(v.text[i], p.bold) > s.left
      BY <1>8
    <3> DEFINE bold == p.bold
    <3> HIDE DEF bold, c, p
    <3>2. bold \in Flag /\ GetSymbolBitmapWidth(v.text[i], bold) > s.left
      BY <2>1, <3>1 DEF bold
    <3>3. \E V : IsWidths(V, v.text, bold) /\ V[i] - V[v.cpos] >= (ScrW * 3) \div 4
      BY <1>1, <2>1, <3>2, FullIsWide
    <3> QED  BY <3>3 DEF bold
  <2>3. v.cpos + 2 <= i
    <3> SUFFICES ASSUME v.cpos = i - 1 PROVE FALSE
      BY <1>1
    <3>1. W[i - 1] \in Nat
      <4>1. W \in [0 .. Len(v.text) -> Nat] /\ i - 1 \in 0 .. Len(v.text)
        BY <1>1 DEF IsWidths
      <4> QED  BY <4>1
    <3>2. W[i - 1] - W[v.cpos] = 0
      BY <3>1
    <3> HIDE DEF cw
    <3> QED  BY <1>1, <1>5, <1>8, <3>2
  <2>4. \A q \in v.cpos + 1 .. i : v.text[q].k # "br"
    <3> SUFFICES ASSUME NEW q \in v.cpos + 1 .. i PROVE v.text[q].k # "br"
      OBVIOUS
    <3>1. CASE q = i
      <4>1. cw # 0
        <5> HIDE DEF cw
        <5> QED  BY <1>1, <1>8
      <4> QED  BY <1>5, <3>1, <4>1
    <3>2. CASE q # i
      <4>1. q \in v.cpos + 1 .. i - 1
        BY <1>1, <3>2
      <4> QED  BY <1>1, <4>1
    <3> QED  BY <3>1, <3>2
  <2> DEFINE b == Wrap(v.text, p, i)
  <2>5. b \in 0 .. i - v.cpos - 1
    <3>1. v.cpos \in Nat
      BY <1>1
    <3> HIDE DEF p
    <3> QED  BY <1>3, <2>2, <2>3, <2>4, <3>1, WrapWithin
  <2> HIDE DEF b
  <2>6. i - b \in v.cpos + 1 .. i /\ i - b \in Nat
    BY <1>1, <2>5
  <2> DEFINE q == [p EXCEPT !.pos = i - b]
  <2>7. q \in Line /\ q.pos = i - b /\ q.ycoord = y
    <3> HIDE DEF p
    <3> QED  BY <1>3, <2>6 DEF Line
  <2>8. r = [s EXCEPT !.p = q, !.out = "line"]
    BY <1>7, <1>8 DEF b
  <2> HIDE DEF q
  <2>9. r \in ScanState /\ r.p = q /\ r.out = "line"
    BY <1>1, <2>7, <2>8 DEF ScanState
  <2>10. i - b \in v.cpos .. Len(v.text) /\ i - b > v.cpos
    BY <1>1, <2>6
  <2> QED  BY <2>7, <2>9, <2>10 DEF InScan, r
<1>9. CASE ~(cw > s.left) /\ AloneOnLine(c, cw, s.left)
  <2> HIDE DEF cw, high, c
  <2>1. CASE i = Len(v.text)
    <3>1. r = [s EXCEPT !.p = high, !.out = "end"]
      BY <1>7, <1>9, <2>1
    <3>2. r \in ScanState /\ r.p = high /\ r.out = "end"
      BY <1>1, <1>6, <3>1 DEF ScanState
    <3>3. i \in v.cpos .. Len(v.text)
      BY <1>1
    <3> QED  BY <1>6, <3>2, <3>3 DEF InScan, r
  <2>2. CASE i # Len(v.text)
    <3> DEFINE q == IF closed THEN [high EXCEPT !.centerAtAll = 1, !.ref = 0, !.pos = i + 1]
                    ELSE [high EXCEPT !.centerAtAll = 1]
    <3>1. q \in Line /\ q.pos \in {i, i + 1} /\ q.ycoord = y
      <4>1. CASE closed
        <5>1. i + 1 \in Nat
          BY <1>1
        <5>2. q = [high EXCEPT !.centerAtAll = 1, !.ref = 0, !.pos = i + 1]
          BY <4>1
        <5> HIDE DEF q, high
        <5>3. q \in Line
          BY <1>6, <5>1, <5>2 DEF Line, Flag
        <5>4. q.pos = i + 1 /\ q.ycoord = high.ycoord
          BY <1>6, <5>1, <5>2 DEF Line
        <5> QED  BY <1>6, <5>3, <5>4
      <4>2. CASE ~closed BY <1>1, <1>6, <4>2 DEF Line, Flag
      <4> QED  BY <4>1, <4>2
    <3>2. r = [s EXCEPT !.p = q, !.out = "line"]
      BY <1>7, <1>9, <2>2
    <3> HIDE DEF q
    <3>3. r \in ScanState /\ r.p = q /\ r.out = "line"
      BY <1>1, <3>1, <3>2 DEF ScanState
    <3>4. q.pos \in v.cpos .. Len(v.text) /\ q.pos > v.cpos
      BY <1>1, <2>2, <3>1
    <3> QED  BY <3>1, <3>3, <3>4 DEF InScan, r
  <2> QED  BY <2>1, <2>2
<1>10. CASE ~(cw > s.left) /\ ~AloneOnLine(c, cw, s.left)
  <2> DEFINE left == s.left - cw
             out == IF c.k = "br" THEN "line" ELSE "more"
  <2>1. left \in 0 .. ScrW
    <3> HIDE DEF cw
    <3> QED  BY <1>1, <1>5, <1>10
  <2>2. r = [s EXCEPT !.p = high, !.left = left, !.out = out]
    <3> HIDE DEF cw, high
    <3> QED  BY <1>7, <1>10
  <2>3. r \in ScanState /\ r.p = high /\ r.out = out /\ r.left = left
    <3>1. left \in Int /\ out \in {"more", "line", "end"} /\ ScrW \in Nat
      BY <1>1, <2>1
    <3> HIDE DEF high, left, out
    <3> QED  BY <1>1, <1>6, <2>2, <3>1 DEF ScanState
  <2>4. ScrW - left <= W[i] - W[v.cpos]
    <3> DEFINE w == GetSymbolBitmapWidth(c, 1)
    <3>1. w \in Nat /\ cw <= w
      <4>1. w \in 0 .. ScrW
        BY <1>2, SymbolWidth DEF Flag
      <4>2. p.bold \in {0, 1}
        BY <1>3 DEF Line, Flag
      <4> QED  BY <1>2, <4>1, <4>2, SymbolWidth, ScreenAssumption
    <3>2. W[i] = W[i - 1] + w
      BY DEF IsWidths
    <3>3. W[i - 1] \in Nat /\ W[v.cpos] \in Nat
      <4>1. /\ W \in [0 .. Len(v.text) -> Nat] /\ i - 1 \in 0 .. Len(v.text)
            /\ v.cpos \in 0 .. Len(v.text)
        BY <1>1 DEF IsWidths
      <4> QED  BY <4>1
    <3>4. cw \in Nat /\ s.left \in Nat
      <4> HIDE DEF cw
      <4> QED  BY <1>1, <1>5
    <3> HIDE DEF w, cw
    <3>5. ScrW - (s.left - cw) <= (W[i - 1] + w) - W[v.cpos]
      BY <1>1, <3>1, <3>3, <3>4, LeftTaken
    <3> QED  BY <3>2, <3>5
  <2>5. out = "more" => \A q \in v.cpos + 1 .. i : v.text[q].k # "br"
    <3> SUFFICES ASSUME c.k # "br", NEW q \in v.cpos + 1 .. i PROVE v.text[q].k # "br"
      OBVIOUS
    <3>1. q = i \/ q \in v.cpos + 1 .. i - 1
      BY <1>1
    <3> QED  BY <1>1, <3>1
  <2>6. i \in v.cpos .. Len(v.text) /\ i > v.cpos
    BY <1>1
  <2> HIDE DEF high, left, out
  <2> QED  BY <1>6, <2>1, <2>3, <2>4, <2>5, <2>6 DEF InScan, r
<1> QED  BY <1>8, <1>9, <1>10 DEF r


\* A symbol of any kind.
LEMMA ScanKeeps ==
  ASSUME NEW v, v.text \in Texts, v.cpos \in 0 .. Len(v.text), NEW y, NEW U, NEW W,
         IsWidths(U, v.text, 0), IsWidths(W, v.text, 1),
         NEW s, InScan(v, y, W, s), s.out = "more",
         NEW i \in 1 .. Len(v.text), s.p.pos = i - 1
  PROVE  InScan(v, y, W, ScanSymbol(v, s, i))
<1> DEFINE c == v.text[i]
           n == Operands[c.k]
           r == ScanSymbol(v, s, i)
<1>1. /\ Len(v.text) \in Nat /\ i \in Nat /\ s \in ScanState /\ s.p \in Line /\ s.p.ycoord = y
      /\ s.p.pos \in v.cpos .. Len(v.text) /\ v.cpos \in Nat
  <2>1. Len(v.text) \in Nat
    BY DEF Texts
  <2>2. s.p \in Line
    BY DEF InScan, ScanState
  <2> QED  BY <2>1, <2>2 DEF InScan
<1>2. c \in Symbol /\ Fits(c)
  BY SymbolOf
<1>3. CASE c.k \in Attributes
  <2> DEFINE p == Switched(s.p, i, c.k, c.n)
  <2>1. r = [s EXCEPT !.p = p]
    BY <1>3 DEF ScanSymbol, Switched
  <2>2. p \in Line /\ p.pos = i /\ p.ycoord = y
    <3>1. c.n \in Flag
      BY <1>2, <1>3 DEF Fits, Flag
    <3> HIDE DEF c
    <3> QED  BY <1>1, <1>3, <3>1, SwitchOnLine
  <2>3. i \in s.p.pos .. Len(v.text) /\ \A q \in s.p.pos + 1 .. i : v.text[q].k # "br"
    <3>1. c.k # "br"
      BY <1>3 DEF Attributes
    <3>2. \A q \in s.p.pos + 1 .. i : q = i
      BY <1>1
    <3> QED  BY <1>1, <3>1, <3>2
  <2> HIDE DEF p, r
  <2> QED  BY <2>1, <2>2, <2>3, ScanOver DEF r
<1>4. CASE c.k \notin Attributes /\ c.k \in DOMAIN Operands
  <2>1. i + n \in i .. Len(v.text) /\ \A q \in i .. i + n : v.text[q].k # "br"
    BY <1>4, WordsBehind
  <2>2. CASE i > Len(v.text) - 2
    <3> DEFINE p == [s.p EXCEPT !.pos = i]
    <3>1. r = [s EXCEPT !.p = p, !.out = "end"]
      BY <1>4, <2>2 DEF ScanSymbol
    <3>2. p \in Line /\ p.pos = i /\ p.ycoord = y
      BY <1>1 DEF Line
    <3> HIDE DEF p, r
    <3>4. r \in ScanState /\ r.p = p /\ r.out = "end"
      BY <1>1, <3>1, <3>2 DEF ScanState
    <3>3. i \in v.cpos .. Len(v.text)
      BY <1>1
    <3> QED  BY <3>2, <3>3, <3>4 DEF InScan, r
  <2>3. CASE ~(i > Len(v.text) - 2)
    <3> DEFINE p == [s.p EXCEPT !.pos = i + n]
    <3>1. r = [s EXCEPT !.p = p]
      BY <1>4, <2>3 DEF ScanSymbol
    <3>2. p \in Line /\ p.pos = i + n /\ p.ycoord = y
      <4>1. i + n \in Nat
        BY <1>1, <2>1
      <4> HIDE DEF n
      <4> QED  BY <1>1, <4>1 DEF Line
    <3>3. i + n \in s.p.pos .. Len(v.text) /\ \A q \in s.p.pos + 1 .. i + n : v.text[q].k # "br"
      <4> HIDE DEF n
      <4>1. \A q \in s.p.pos + 1 .. i + n : q \in i .. i + n
        BY <1>1
      <4> QED  BY <1>1, <2>1, <4>1
    <3> HIDE DEF p, r, n
    <3> QED  BY <3>1, <3>2, <3>3, ScanOver DEF r
  <2> QED  BY <2>2, <2>3
<1>5. CASE c.k \notin Attributes /\ c.k \notin DOMAIN Operands
  <2>1. r = PlaceSymbol(v, s, i)
    BY <1>5 DEF ScanSymbol
  <2> HIDE DEF r
  <2> QED  BY <2>1, PlaceKeeps DEF r
<1> QED  BY <1>3, <1>4, <1>5


\* The steps of the scan.
ScanStep(v, s, i) == IF s.out = "more" /\ s.p.pos = i - 1 THEN ScanSymbol(v, s, i) ELSE s

IsScan(f, v, start) ==
  f = [i \in v.cpos .. Len(v.text) |-> IF i = v.cpos THEN start ELSE ScanStep(v, f[i - 1], i)]

LEMMA ScanIsDefined ==
  ASSUME NEW v, v.text \in Texts, v.cpos \in 0 .. Len(v.text), NEW S, NEW start, start \in S,
         \A s \in S, i \in v.cpos + 1 .. Len(v.text) : ScanStep(v, s, i) \in S
  PROVE  \E f : IsScan(f, v, start)
<1> DEFINE lo == v.cpos
           hi == Len(v.text)
           G == [x \in S \X (lo .. hi) |-> IF x[2] = lo THEN x[1] ELSE ScanStep(v, x[1], x[2])]
<1>1. lo \in Int /\ hi \in Int /\ lo <= hi
  BY DEF Texts
<1>2. G \in [S \X (lo .. hi) -> S]
  <2>1. ASSUME NEW s \in S, NEW i \in lo .. hi, i # lo PROVE ScanStep(v, s, i) \in S
    <3>1. i \in v.cpos + 1 .. Len(v.text)
      BY <1>1, <2>1
    <3> QED  BY <3>1
  <2> HIDE DEF lo, hi
  <2> QED  BY <1>1, <2>1
<1>3. \A s \in S, i \in lo .. hi : i # lo => G[<<s, i>>] = ScanStep(v, s, i)
  <2> HIDE DEF lo, hi
  <2> QED  OBVIOUS
<1> HIDE DEF G, lo, hi
<1>4. PICK f : Takes(f, G, S, start, lo, hi)
  <2>1. StepsIn(G, S, lo, hi)
    BY <1>1, <1>2 DEF StepsIn
  <2> QED  BY <2>1, Iterated
<1>5. f \in [lo .. hi -> S] /\ f[lo] = start
  BY <1>4 DEF Takes
<1>6. ASSUME NEW i \in lo .. hi
      PROVE  f[i] = IF i = lo THEN start ELSE ScanStep(v, f[i - 1], i)
  <2>1. CASE i = lo BY <1>5, <2>1
  <2>2. CASE i # lo
    <3>1. i - 1 \in lo .. hi
      BY <1>1, <2>2
    <3>2. f[i] = G[<<f[i - 1], i>>]
      BY <1>4, <2>2 DEF Takes
    <3>3. f[i - 1] \in S
      BY <1>5, <3>1
    <3> QED  BY <1>3, <2>2, <3>2, <3>3
  <2> QED  BY <2>1, <2>2
<1>7. f = [i \in lo .. hi |-> f[i]]
  BY <1>5
<1> QED  BY <1>6, <1>7 DEF IsScan, lo, hi

\* Where the scan of a line begins, and the scan.
StartOf(v, line) ==
  [p |-> [line EXCEPT !.centerAtAll = 0, !.pixheight = 0, !.pos = v.cpos],
   left |-> ScrW, out |-> "more"]

ScanOf(v, line) == CHOOSE f : IsScan(f, v, StartOf(v, line))

\* All of a scan lies in the text.
LEMMA ScanValues ==
  ASSUME NEW v, v.text \in Texts, v.cpos \in 0 .. Len(v.text), NEW line \in Line
  PROVE  LET h == ScanOf(v, line)
         IN  /\ \E U, W : /\ IsWidths(U, v.text, 0) /\ IsWidths(W, v.text, 1)
                         /\ \A n \in v.cpos .. Len(v.text) : InScan(v, line.ycoord, W, h[n])
             /\ h[v.cpos] = StartOf(v, line)
             /\ \A n \in v.cpos + 1 .. Len(v.text) : h[n] = ScanStep(v, h[n - 1], n)
             /\ SearchNextDisplayLine(v, line) = Scanned(h[Len(v.text)])
<1> DEFINE p == [line EXCEPT !.centerAtAll = 0, !.pixheight = 0, !.pos = v.cpos]
           start == StartOf(v, line)
           y == line.ycoord
<1>1. Len(v.text) \in Nat /\ v.cpos \in Nat /\ ScrW \in Nat
  BY ScreenAssumption DEF Texts
<1>2. PICK U, W : IsWidths(U, v.text, 0) /\ IsWidths(W, v.text, 1)
  BY WidthsExist DEF Flag
<1> DEFINE S == {s \in ScanState : InScan(v, y, W, s)}
<1>3. start \in S
  <2>1. p \in Line /\ p.pos = v.cpos /\ p.ycoord = y
    BY <1>1 DEF Line, Flag
  <2>4. start.p = p /\ start.left = ScrW /\ start.out = "more" /\ start = [p |-> p, left |-> ScrW, out |-> "more"]
    BY DEF StartOf
  <2> HIDE DEF p
  <2>2. start \in ScanState
    BY <1>1, <2>1, <2>4 DEF ScanState
  <2>3. W[v.cpos] - W[v.cpos] = 0
    <3>1. W \in [0 .. Len(v.text) -> Nat]
      BY <1>2 DEF IsWidths
    <3> QED  BY <3>1
  <2>5. ScrW - ScrW = 0 /\ v.cpos \in v.cpos .. Len(v.text) /\ ScrW \in 0 .. ScrW
    BY <1>1
  <2>6. \A q \in v.cpos + 1 .. v.cpos : FALSE
    BY <1>1
  <2>7. InScan(v, y, W, start)
    <3> HIDE DEF start
    <3>1. start.left \in 0 .. ScrW
      BY <2>4, <2>5
    <3>2. ScrW - start.left <= W[start.p.pos] - W[v.cpos]
      BY <2>1, <2>3, <2>4, <2>5
    <3> QED  BY <2>1, <2>2, <2>4, <2>5, <2>6, <3>1, <3>2 DEF InScan
  <2> QED  BY <2>2, <2>7
<1>4. ASSUME NEW s \in S, NEW i \in v.cpos + 1 .. Len(v.text) PROVE ScanStep(v, s, i) \in S
  <2>1. CASE s.out = "more" /\ s.p.pos = i - 1
    <3>1. i \in 1 .. Len(v.text)
      BY <1>1
    <3>2. InScan(v, y, W, ScanSymbol(v, s, i))
      BY <1>2, <2>1, <3>1, ScanKeeps
    <3> QED  BY <2>1, <3>2 DEF ScanStep, InScan
  <2>2. CASE ~(s.out = "more" /\ s.p.pos = i - 1)
    BY <2>2 DEF ScanStep
  <2> QED  BY <2>1, <2>2
<1> HIDE DEF S
<1> DEFINE h == ScanOf(v, line)
<1>6. SearchNextDisplayLine(v, line) = Scanned(h[Len(v.text)])
  BY DEF SearchNextDisplayLine, ScanOf, IsScan, ScanStep, StartOf
<1> HIDE DEF start
<1>5. IsScan(h, v, start)
  <2>1. \E f : IsScan(f, v, start)
    BY <1>3, <1>4, ScanIsDefined
  <2> QED  BY <2>1 DEF ScanOf, start
<1> HIDE DEF h
<1>7. h[v.cpos] = start /\ \A n \in v.cpos + 1 .. Len(v.text) : h[n] = ScanStep(v, h[n - 1], n)
  <2>1. v.cpos \in v.cpos .. Len(v.text)
    BY <1>1
  <2>2. \A n \in v.cpos + 1 .. Len(v.text) : n \in v.cpos .. Len(v.text) /\ n # v.cpos
    BY <1>1
  <2> QED  BY <1>5, <2>1, <2>2 DEF IsScan
<1>8. \A n \in v.cpos .. Len(v.text) : h[n] \in S
  <2>1. ASSUME NEW n \in v.cpos + 1 .. Len(v.text), h[n - 1] \in S PROVE h[n] \in S
    BY <1>4, <1>7, <2>1
  <2>2. v.cpos \in Int /\ Len(v.text) \in Int /\ h[v.cpos] \in S
    BY <1>1, <1>3, <1>7
  <2> QED  BY <2>1, <2>2, StaysIn
<1>9. \A n \in v.cpos .. Len(v.text) : InScan(v, y, W, h[n])
  BY <1>8 DEF S
<1> QED  BY <1>2, <1>6, <1>7, <1>9 DEF h, start

\* A search ends with a line that lies in the text; one that is found has a symbol.
LEMMA SearchFinds ==
  ASSUME NEW v, v.text \in Texts, v.cpos \in 0 .. Len(v.text), NEW line \in Line,
         NEW r, r = SearchNextDisplayLine(v, line)
  PROVE  /\ r.found \in BOOLEAN /\ r.line \in Line
         /\ r.line.ycoord = line.ycoord
         /\ r.line.pos \in v.cpos .. Len(v.text)
         /\ r.found => r.line.pos > v.cpos
<1> DEFINE e == ScanOf(v, line)[Len(v.text)]
<1>1. PICK U, W : InScan(v, line.ycoord, W, e)
  <2>1. Len(v.text) \in v.cpos .. Len(v.text)
    BY DEF Texts
  <2> QED  BY <2>1, ScanValues
<1>2. r.found = (e.out = "line") /\ r.line = e.p
  BY ScanValues DEF Scanned
<1> HIDE DEF e
<1>3. e.p \in Line
  BY <1>1 DEF InScan, ScanState
<1> QED  BY <1>1, <1>2, <1>3 DEF InScan

-----------------------------------------------------------------------------
(* One text, cut twice: the scan of a line over the text that has arrived and the   *)
(* scan over the text as a whole.                                                   *)

\* t is what has arrived of the text w.
Begins(t, w) == Len(t) <= Len(w) /\ \A i \in 1 .. Len(t) : t[i] = w[i]

SameAt(p, q) == \A a \in Attributes : p[a] = q[a]

\* Looking back over the same text in the same font finds the same place to cut.
LEMMA WrapSame ==
  ASSUME NEW t \in Texts, NEW w \in Texts, Begins(t, w), NEW i \in 1 .. Len(t),
         NEW p \in Line, NEW q \in Line, SameAt(p, q),
         NEW V, IsWidths(V, w, q.bold), NEW from \in 0 .. i - 1,
         V[i] - V[from] >= (ScrW * 3) \div 4
  PROVE  Wrap(t, p, i) = Wrap(w, q, i)
<1> DEFINE bold == q.bold
           f == CHOOSE x : IsWrapWidths(x, t, i, p.bold)
           g == CHOOSE x : IsWrapWidths(x, w, i, q.bold)
<1>1. /\ Len(t) \in Nat /\ Len(w) \in Nat /\ i \in Nat /\ i \in 1 .. Len(w)
      /\ bold \in Flag /\ p.bold = bold /\ p.ref = q.ref
      /\ \A j \in 1 .. i : t[j] = w[j]
  <2>1. Len(t) \in Nat /\ Len(w) \in Nat /\ Len(t) <= Len(w) /\ \A j \in 1 .. Len(t) : t[j] = w[j]
    BY DEF Texts, Begins
  <2>2. q.bold \in Flag /\ p.bold = q.bold /\ p.ref = q.ref
    BY DEF Line, SameAt, Attributes
  <2> QED  BY <2>1, <2>2
<1> HIDE DEF bold
<1>2. \A x : IsWrapWidths(x, t, i, bold) <=> IsWrapWidths(x, w, i, bold)
  <2>1. \A b \in 0 .. i : b # 0 => t[i - b + 1] = w[i - b + 1]
    <3>1. \A b \in 0 .. i : b # 0 => i - b + 1 \in 1 .. i
      BY <1>1
    <3> QED  BY <1>1, <3>1
  <2> DEFINE F(x) == [b \in 0 .. i |-> IF b = 0 THEN 0
                        ELSE x[b - 1] + GetSymbolBitmapWidth(t[i - b + 1], bold)]
             G(x) == [b \in 0 .. i |-> IF b = 0 THEN 0
                        ELSE x[b - 1] + GetSymbolBitmapWidth(w[i - b + 1], bold)]
  <2>2. \A x : F(x) = G(x)
    BY <2>1
  <2> QED  BY <2>2 DEF IsWrapWidths
<1>3. IsWrapWidths(f, t, i, bold) /\ IsWrapWidths(g, w, i, bold)
  <2>1. \E x : IsWrapWidths(x, w, i, bold)
    <3>1. IsWidths(V, w, bold)
      BY DEF bold
    <3> QED  BY <1>1, <3>1, WrapWidthsExist
  <2>2. \E x : IsWrapWidths(x, t, i, bold)
    BY <1>2, <2>1
  <2>3. (\E x : IsWrapWidths(x, t, i, p.bold)) /\ \E x : IsWrapWidths(x, w, i, q.bold)
    BY <1>1, <2>1, <2>2 DEF bold
  <2>4. IsWrapWidths(f, t, i, p.bold) /\ IsWrapWidths(g, w, i, q.bold)
    BY <2>3
  <2> QED  BY <1>1, <2>4 DEF bold
<1> HIDE DEF f, g
<1>4. \A b \in 0 .. i : f[b] = g[b] /\ g[b] = V[i] - V[i - b]
  <2>1. IsWidths(V, w, bold) /\ IsWrapWidths(f, w, i, bold)
    BY <1>2, <1>3 DEF bold
  <2>2. \A b \in 0 .. i : f[b] = V[i] - V[i - b]
    BY <1>1, <2>1, WrapWidths
  <2>3. \A b \in 0 .. i : g[b] = V[i] - V[i - b]
    BY <1>1, <1>3, <2>1, WrapWidths
  <2> QED  BY <2>2, <2>3
<1> DEFINE cut(x, width, ref, b) ==
             \/ width[b] >= (ScrW * 3) \div 4 \/ x[i - b + 1].k = "br"
             \/ IF ref = 1 THEN (WordWrap /\ x[i - b + 1].k = "sp") \/ IsMark(x[i - b + 1], "ref", 1)
                ELSE x[i - b + 1].k \in {"sp", "pic"} \/ IsMark(x[i - b + 1], "ref", 0)
           cuts(x, width, ref) == {b \in 1 .. i : cut(x, width, ref, b)}
           back(x, width, ref, b) ==
             IF (~WordWrap /\ ref = 0) \/ width[b] >= (ScrW * 3) \div 4 THEN 1
             ELSE IF x[i - b + 1].k = "br" THEN b + 1
             ELSE IF ref = 0 /\ x[i - b + 1].k \in {"sp", "pic"} THEN b - 1
             ELSE b
<1>5. /\ Wrap(t, p, i) = back(t, f, p.ref, Min(cuts(t, f, p.ref)))
      /\ Wrap(w, q, i) = back(w, g, q.ref, Min(cuts(w, g, q.ref)))
  BY DEF Wrap, f, g, IsWrapWidths
<1>6. \A b \in 1 .. i : f[b] = g[b] /\ t[i - b + 1] = w[i - b + 1]
  <2>1. \A b \in 1 .. i : b \in 0 .. i /\ i - b + 1 \in 1 .. i
    BY <1>1
  <2> QED  BY <1>1, <1>4, <2>1
<1>7. cuts(t, f, p.ref) = cuts(w, g, q.ref)
  <2>1. \A b \in 1 .. i : cut(t, f, p.ref, b) = cut(w, g, q.ref, b)
    BY <1>1, <1>6
  <2> HIDE DEF cut
  <2> QED  BY <2>1
<1> DEFINE S == cuts(w, g, q.ref)
<1>8. Min(S) \in 1 .. i
  <2>1. i - from \in 1 .. i /\ i - from \in 0 .. i /\ i - (i - from) = from
    BY <1>1
  <2>2. i - from \in S
    BY <1>4, <2>1
  <2>3. S \in SUBSET (1 .. i) /\ S \in SUBSET Nat
    BY <1>1
  <2> HIDE DEF S
  <2>4. Min(S) \in S
    BY <2>2, <2>3, MinOfNats
  <2> QED  BY <2>3, <2>4
<1>9. \A b \in 1 .. i : back(t, f, p.ref, b) = back(w, g, q.ref, b)
  BY <1>1, <1>6
<1> HIDE DEF back, cuts
<1> QED  BY <1>5, <1>7, <1>8, <1>9

\* No bold font that is wider, and no picture that has its line for itself.
Plain(t) ==
  /\ t \in Texts
  /\ \A i \in 1 .. Len(t) :
       (BoldExtra = 0 \/ ~IsMark(t[i], "bold", 1)) /\ ~AloneOnLine(t[i], t[i].w, ScrW)

Thin(p) == BoldExtra = 0 \/ p.bold = 0

\* All letters are as wide as in the plain font.
LEMMA ThinWidth ==
  ASSUME NEW c \in Symbol, NEW p \in Line, Thin(p)
  PROVE  GetSymbolBitmapWidth(c, p.bold) = GetSymbolBitmapWidth(c, 0)
<1>1. p.bold \in {0, 1} /\ BoldExtra \in Nat
  BY ScreenAssumption DEF Line, Flag
<1>2. p.bold * BoldExtra = 0 /\ 0 * BoldExtra = 0
  BY <1>1 DEF Thin
<1> QED  BY <1>2 DEF GetSymbolBitmapWidth

\* The symbol i of a plain text is put on the line, or ends it.
LEMMA PlacePlain ==
  ASSUME NEW v, NEW i \in Nat, NEW s \in ScanState,
         ~AloneOnLine(v.text[i], v.text[i].w, ScrW),
         NEW cw, cw = GetSymbolBitmapWidth(v.text[i], s.p.bold),
         NEW r, r = PlaceSymbol(v, s, i)
  PROVE  /\ SameAt(r.p, s.p)
         /\ cw > s.left =>
              /\ r.out = "line" /\ r.left = s.left
              /\ r.p.pos = i - Wrap(v.text, [s.p EXCEPT !.pos = i], i)
         /\ ~(cw > s.left) =>
              /\ r.left = s.left - cw /\ r.p.pos = i
              /\ r.out = IF v.text[i].k = "br" THEN "line" ELSE "more"
<1> DEFINE c == v.text[i]
           p == [s.p EXCEPT !.pos = i]
           h == CASE c.k = "pic" -> c.h
                  [] c.k = "br" -> 0
                  [] OTHER -> GetFontHeight(p.under, p.ref)
           high == [p EXCEPT !.pixheight = IF h > @ THEN h ELSE @]
           b == Wrap(v.text, p, i)
           back == [p EXCEPT !.pos = i - b]
           out == IF c.k = "br" THEN "line" ELSE "more"
           left == s.left - cw
           over == [s EXCEPT !.p = back, !.out = "line"]
           on == [s EXCEPT !.p = high, !.left = left, !.out = out]
<1>1. s.p \in Line /\ s.left \in Int
  BY DEF ScanState
<1>2. p.bold = s.p.bold /\ SameAt(p, s.p) /\ p.pos = i /\ DOMAIN p = DOMAIN s.p
  BY <1>1 DEF Line, SameAt, Attributes
<1>3. SameAt(high, s.p) /\ high.pos = i
  <2> HIDE DEF h
  <2> QED  BY <1>1, <1>2 DEF Line, SameAt, Attributes
<1>4. SameAt(back, s.p) /\ back.pos = i - b
  <2> HIDE DEF b
  <2> QED  BY <1>1, <1>2 DEF Line, SameAt, Attributes
<1>5. ~AloneOnLine(c, cw, s.left)
  <2>1. c.k = "pic" => cw = c.w
    BY DEF GetSymbolBitmapWidth
  <2> QED  BY <2>1 DEF AloneOnLine
<1>6. r = IF cw > s.left THEN over ELSE on
  <2>1. cw = GetSymbolBitmapWidth(c, p.bold)
    BY <1>2
  <2> QED  BY <1>5, <2>1 DEF PlaceSymbol
<1>7. over.p = back /\ over.left = s.left /\ over.out = "line"
  <2> HIDE DEF back
  <2> QED  BY DEF ScanState
<1>8. on.p = high /\ on.left = left /\ on.out = out
  <2> HIDE DEF high, left, out
  <2> QED  BY DEF ScanState
<1> HIDE DEF over, on, back, high, b
<1> QED  BY <1>3, <1>4, <1>6, <1>7, <1>8 DEF b

\* An attribute of both lines is switched, or each line keeps its own.
Follows(x, z, p, q) == \A a \in Attributes : x[a] = z[a] \/ (x[a] = p[a] /\ z[a] = q[a])

\* The scan x of what has arrived does as the scan z of the whole, one symbol after
\* s and u, unless it ends before the words of a mark of colour.
GoesAlong(x, z, s, u) ==
  /\ x.out = z.out /\ x.out \in {"more", "line"} /\ x.left = z.left
  /\ Follows(x.p, z.p, s.p, u.p)
  /\ x.out = "more" \/ SameAt(s.p, u.p) => x.p.pos = z.p.pos

EndsBefore(x, z, s, u, i, t, w) ==
  /\ x.out = "end" /\ SameAt(x.p, s.p) /\ SameAt(z.p, u.p)
  /\ i = Len(t) - 1 /\ z.out \in {"more", "end"}
  /\ z.out = "more" => z.p.pos = Len(t)
  /\ t = w => z.out = "end"

LEMMA StepAlong ==
  ASSUME NEW v, NEW b, v.text \in Texts, Plain(b.text), Begins(v.text, b.text),
         b.cpos \in 0 .. Len(v.text), NEW i \in 1 .. Len(v.text),
         NEW y, NEW U, NEW W, IsWidths(U, b.text, 0), IsWidths(W, b.text, 1),
         NEW u, InScan(b, y, W, u), u.out = "more", u.p.pos = i - 1,
         NEW s \in ScanState, s.out = "more", s.left = u.left, s.p.pos = i - 1,
         Thin(s.p), Thin(u.p)
  PROVE  LET x == ScanSymbol(v, s, i)
             z == ScanSymbol(b, u, i)
         IN  GoesAlong(x, z, s, u) \/ EndsBefore(x, z, s, u, i, v.text, b.text)
<1> DEFINE x == ScanSymbol(v, s, i)
           z == ScanSymbol(b, u, i)
           t == v.text
           w == b.text
           c == w[i]
           n == Operands[c.k]
<1>1. /\ Len(t) \in Nat /\ Len(w) \in Nat /\ Len(t) <= Len(w) /\ i \in Nat /\ i \in 1 .. Len(w)
      /\ t[i] = c /\ t \in Texts /\ w \in Texts
      /\ b.cpos \in 0 .. i - 1 /\ u \in ScanState /\ u.p \in Line /\ s.p \in Line
      /\ u.left \in 0 .. ScrW /\ ScrW - u.left <= W[i - 1] - W[b.cpos]
  <2>1. t \in Texts /\ w \in Texts /\ Len(t) \in Nat /\ Len(w) \in Nat
    BY DEF Plain, Texts
  <2>2. Len(t) <= Len(w) /\ t[i] = c
    BY DEF Begins
  <2>3. u \in ScanState /\ u.p.pos \in b.cpos .. Len(w)
    BY DEF InScan
  <2>4. u.p \in Line /\ s.p \in Line
    BY <2>3 DEF ScanState
  <2>5. b.cpos \in 0 .. i - 1
    BY <2>1, <2>3
  <2> QED  BY <2>1, <2>2, <2>3, <2>4, <2>5 DEF InScan
<1>2. c \in Symbol /\ Fits(c) /\ ~AloneOnLine(c, c.w, ScrW)
  BY <1>1, SymbolOf DEF Plain
<1>3. CASE c.k \in Attributes
  <2> DEFINE p == Switched(s.p, i, c.k, c.n)
             q == Switched(u.p, i, c.k, c.n)
  <2>1. x = [s EXCEPT !.p = p] /\ z = [u EXCEPT !.p = q]
    BY <1>1, <1>3 DEF ScanSymbol, Switched
  <2>2. p.pos = i /\ q.pos = i /\ Follows(p, q, s.p, u.p)
    <3> DEFINE k == c.k
               m == c.n
    <3>1. k \in Attributes
      BY <1>3
    <3> HIDE DEF k, m
    <3>2. /\ Switched(s.p, i, k, m).pos = i /\ Switched(u.p, i, k, m).pos = i
          /\ Follows(Switched(s.p, i, k, m), Switched(u.p, i, k, m), s.p, u.p)
      BY <1>1, <3>1 DEF Switched, Follows, Line, Attributes
    <3> QED  BY <3>2 DEF k, m
  <2> HIDE DEF p, q, x, z
  <2>3. x.p = p /\ z.p = q /\ x.out = "more" /\ z.out = "more" /\ x.left = z.left
    BY <1>1, <2>1 DEF ScanState
  <2> QED  BY <2>2, <2>3 DEF GoesAlong, x, z
<1>4. CASE c.k \notin Attributes /\ c.k \in DOMAIN Operands
  <2>1. n \in {1, 2} /\ i + n <= Len(t)
    <3>1. n \in {1, 2}
      BY <1>4 DEF Operands
    <3>2. i + Operands[t[i].k] \in i .. Len(t)
      BY <1>1, <1>4, WordsBehind
    <3> QED  BY <1>1, <3>1, <3>2
  <2> DEFINE p == [s.p EXCEPT !.pos = i]
             q == [u.p EXCEPT !.pos = i]
             pp == [s.p EXCEPT !.pos = i + n]
             qq == [u.p EXCEPT !.pos = i + n]
  <2>2. /\ x = IF i > Len(t) - 2 THEN [s EXCEPT !.p = p, !.out = "end"] ELSE [s EXCEPT !.p = pp]
        /\ z = IF i > Len(w) - 2 THEN [u EXCEPT !.p = q, !.out = "end"] ELSE [u EXCEPT !.p = qq]
    BY <1>1, <1>4 DEF ScanSymbol
  <2> HIDE DEF n
  <2>3. /\ SameAt(p, s.p) /\ SameAt(q, u.p) /\ SameAt(pp, s.p) /\ SameAt(qq, u.p)
        /\ pp.pos = i + n /\ qq.pos = i + n
    BY <1>1 DEF SameAt, Line, Attributes
  <2>4. Follows(pp, qq, s.p, u.p)
    BY <2>3 DEF SameAt, Follows
  <2> HIDE DEF p, q, pp, qq, x, z
  <2>5. CASE i > Len(t) - 2
    <3>1. x.out = "end" /\ SameAt(x.p, s.p) /\ i = Len(t) - 1 /\ n = 1
      <4>1. x.out = "end" /\ x.p = p
        BY <2>2, <2>5 DEF ScanState
      <4>2. i = Len(t) - 1 /\ n = 1
        BY <1>1, <2>1, <2>5
      <4> QED  BY <2>3, <4>1, <4>2
    <3>2. CASE i > Len(w) - 2
      <4>1. z.out = "end" /\ z.p = q
        BY <1>1, <2>2, <3>2 DEF ScanState
      <4> QED  BY <2>3, <3>1, <4>1 DEF EndsBefore, x, z
    <3>3. CASE ~(i > Len(w) - 2)
      <4>1. z.out = "more" /\ z.p = qq
        BY <1>1, <2>2, <3>3 DEF ScanState
      <4>2. t # w
        BY <1>1, <2>5, <3>3
      <4>3. qq.pos = Len(t)
        BY <1>1, <2>3, <3>1
      <4> QED  BY <2>3, <3>1, <4>1, <4>2, <4>3 DEF EndsBefore, x, z
    <3> QED  BY <3>2, <3>3
  <2>6. CASE ~(i > Len(t) - 2)
    <3>1. ~(i > Len(w) - 2)
      BY <1>1, <2>6
    <3>2. x.p = pp /\ z.p = qq /\ x.out = "more" /\ z.out = "more" /\ x.left = z.left
      BY <1>1, <2>2, <2>6, <3>1 DEF ScanState
    <3> QED  BY <2>3, <2>4, <3>2 DEF GoesAlong, x, z
  <2> QED  BY <2>5, <2>6
<1>5. CASE c.k \notin Attributes /\ c.k \notin DOMAIN Operands
  <2> DEFINE cw == GetSymbolBitmapWidth(c, 0)
             p == [s.p EXCEPT !.pos = i]
             q == [u.p EXCEPT !.pos = i]
  <2>1. x = PlaceSymbol(v, s, i) /\ z = PlaceSymbol(b, u, i)
    BY <1>1, <1>5 DEF ScanSymbol
  <2>2. cw = GetSymbolBitmapWidth(c, s.p.bold) /\ cw = GetSymbolBitmapWidth(c, u.p.bold)
    BY <1>1, <1>2, ThinWidth
  <2> HIDE DEF cw, x, z
  <2>3. /\ SameAt(x.p, s.p)
        /\ cw > s.left => x.out = "line" /\ x.left = s.left /\ x.p.pos = i - Wrap(t, p, i)
        /\ ~(cw > s.left) =>
             x.left = s.left - cw /\ x.p.pos = i /\ x.out = IF c.k = "br" THEN "line" ELSE "more"
    <3>1. ~AloneOnLine(t[i], t[i].w, ScrW) /\ cw = GetSymbolBitmapWidth(t[i], s.p.bold) /\ c = t[i]
      BY <1>1, <1>2, <2>2
    <3> HIDE DEF c
    <3> QED  BY <1>1, <2>1, <3>1, PlacePlain
  <2>4. /\ SameAt(z.p, u.p)
        /\ cw > u.left => z.out = "line" /\ z.left = u.left /\ z.p.pos = i - Wrap(w, q, i)
        /\ ~(cw > u.left) =>
             z.left = u.left - cw /\ z.p.pos = i /\ z.out = IF c.k = "br" THEN "line" ELSE "more"
    BY <1>1, <1>2, <2>1, <2>2, PlacePlain
  <2>5. Follows(x.p, z.p, s.p, u.p)
    BY <2>3, <2>4 DEF Follows, SameAt
  <2>6. CASE cw > u.left
    <3>1. SameAt(s.p, u.p) => Wrap(t, p, i) = Wrap(w, q, i)
      <4> SUFFICES ASSUME SameAt(s.p, u.p) PROVE Wrap(t, p, i) = Wrap(w, q, i)
        OBVIOUS
      <4>1. p \in Line /\ q \in Line /\ SameAt(p, q) /\ q.bold = u.p.bold
        BY <1>1 DEF Line, SameAt, Attributes
      <4>2. q.bold \in Flag /\ u.left \in Nat
        BY <1>1, <4>1 DEF Line
      <4> HIDE DEF p, q
      <4> DEFINE bold == q.bold
      <4>3. GetSymbolBitmapWidth(w[i], bold) > u.left
        BY <2>2, <2>6, <4>1
      <4>4. bold \in Flag
        BY <4>2
      <4> HIDE DEF bold
      <4>5. PICK V : IsWidths(V, w, bold) /\ V[i] - V[b.cpos] >= (ScrW * 3) \div 4
        BY <1>1, <4>2, <4>3, <4>4, FullIsWide
      <4> QED  BY <1>1, <4>1, <4>5, WrapSame DEF bold
    <3> QED  BY <2>3, <2>4, <2>5, <2>6, <3>1 DEF GoesAlong, x, z
  <2>7. CASE ~(cw > u.left)
    BY <2>3, <2>4, <2>5, <2>7 DEF GoesAlong, x, z
  <2> QED  BY <2>6, <2>7
<1> QED  BY <1>3, <1>4, <1>5

\* The line of the whole text w behind the line q, and its scan.
Base(w, q) == [text |-> w, cpos |-> q.pos, behind |-> FALSE]
FromLine(w, q) == SearchNextDisplayLine(Base(w, q), q)
ScanFrom(w, q) == ScanOf(Base(w, q), q)

\* It stops where a line ends, and in a plain text it stays in a plain font.
LEMMA FromValues ==
  ASSUME NEW w, Plain(w), NEW q \in Line, q.pos <= Len(w), Thin(q)
  PROVE  LET h == ScanFrom(w, q)
             N == Len(w)
         IN  /\ \E U, W : /\ IsWidths(U, w, 0) /\ IsWidths(W, w, 1)
                          /\ \A n \in q.pos .. N : InScan(Base(w, q), q.ycoord, W, h[n])
             /\ h[q.pos].out = "more" /\ h[q.pos].left = ScrW /\ SameAt(h[q.pos].p, q)
             /\ h[q.pos].p.pos = q.pos
             /\ \A n \in q.pos + 1 .. N : h[n] = ScanStep(Base(w, q), h[n - 1], n)
             /\ \A n \in q.pos .. N : h[n] \in ScanState /\ Thin(h[n].p)
             /\ \A k \in q.pos .. N : h[k].out # "more" => \A n \in k .. N : h[n] = h[k]
             /\ FromLine(w, q) = Scanned(h[N])
<1> DEFINE b == Base(w, q)
           h == ScanFrom(w, q)
           N == Len(w)
           lo == q.pos
<1>1. b.text = w /\ b.cpos = lo /\ w \in Texts /\ N \in Nat /\ lo \in Nat /\ lo <= N
  BY DEF Base, Plain, Texts, Line
<1> HIDE DEF lo, N, b
<1>2. PICK U, W : /\ IsWidths(U, w, 0) /\ IsWidths(W, w, 1)
                  /\ \A n \in lo .. N : InScan(b, q.ycoord, W, h[n])
  <2>1. lo \in 0 .. Len(w)
    BY <1>1 DEF N
  <2> QED  BY <1>1, <2>1, ScanValues DEF ScanFrom, b, N
<1>3. /\ h[lo] = StartOf(b, q) /\ FromLine(w, q) = Scanned(h[N])
      /\ \A n \in lo + 1 .. N : h[n] = ScanStep(b, h[n - 1], n)
  <2>1. lo \in 0 .. Len(w)
    BY <1>1 DEF N
  <2> QED  BY <1>1, <2>1, ScanValues DEF ScanFrom, FromLine, b, N
<1>4. h[lo].out = "more" /\ h[lo].left = ScrW /\ SameAt(h[lo].p, q) /\ h[lo].p.pos = lo
  <2> DEFINE p == [q EXCEPT !.centerAtAll = 0, !.pixheight = 0, !.pos = b.cpos]
  <2>1. SameAt(p, q) /\ p.pos = lo
    BY <1>1 DEF SameAt, Line, Attributes
  <2>2. StartOf(b, q) = [p |-> p, left |-> ScrW, out |-> "more"]
    BY DEF StartOf
  <2> HIDE DEF h, p
  <2> QED  BY <1>3, <2>1, <2>2
<1> HIDE DEF h
<1>5. \A n \in lo .. N : h[n] \in ScanState
  BY <1>2 DEF InScan
<1>6. \A n \in lo .. N : Thin(h[n].p)
  <2> DEFINE S == {s \in ScanState : Thin(s.p)}
  <2>1. lo \in lo .. N /\ lo \in Int /\ N \in Int
    BY <1>1
  <2>2. h[lo] \in S
    BY <1>4, <1>5, <2>1 DEF SameAt, Attributes, Thin
  <2>3. ASSUME NEW n \in lo + 1 .. N, h[n - 1] \in S PROVE h[n] \in S
    <3> DEFINE s == h[n - 1]
               x == ScanSymbol(b, s, n)
               c == w[n]
    <3>1. n \in lo .. N /\ n \in 1 .. N /\ n \in Nat
      BY <1>1
    <3>2. /\ c \in Symbol /\ Fits(c) /\ ~AloneOnLine(c, c.w, ScrW)
          /\ BoldExtra = 0 \/ ~IsMark(c, "bold", 1)
      BY <1>1, <3>1, SymbolOf DEF Plain, N
    <3>3. s \in ScanState /\ s.p \in Line /\ Thin(s.p)
      BY <2>3 DEF ScanState
    <3>4. h[n] = s \/ h[n] = x
      BY <1>3 DEF ScanStep
    <3>5. Thin(x.p)
      <4> HIDE DEF s
      <4>1. CASE c.k \in Attributes
        <5> DEFINE p == Switched(s.p, n, c.k, c.n)
        <5>1. x = [s EXCEPT !.p = p]
          BY <1>1, <4>1 DEF ScanSymbol, Switched
        <5>2. x.p = p
          <6> HIDE DEF p, x
          <6> QED  BY <3>3, <5>1 DEF ScanState
        <5>3. c.n \in {0, 1}
          BY <3>2, <4>1 DEF Fits
        <5>4. CASE c.k = "bold"
          <6>1. p.bold = c.n
            BY <3>3, <5>4 DEF Switched, Line
          <6>2. BoldExtra = 0 \/ c.n = 0
            BY <3>2, <5>3, <5>4 DEF IsMark
          <6> QED  BY <5>2, <6>1, <6>2 DEF Thin
        <5>5. CASE c.k # "bold"
          <6> DEFINE k == c.k
                     m == c.n
          <6>1. k # "bold"
            BY <5>5
          <6> HIDE DEF k, m
          <6>2. Switched(s.p, n, k, m).bold = s.p.bold
            BY <3>3, <6>1 DEF Switched, Line
          <6> QED  BY <3>3, <5>2, <6>2 DEF Thin, k, m
        <5> QED  BY <5>4, <5>5
      <4>2. CASE c.k \notin Attributes /\ c.k \in DOMAIN Operands
        <5> DEFINE i == n + Operands[c.k]
                   p1 == [s.p EXCEPT !.pos = n]
                   p2 == [s.p EXCEPT !.pos = i]
        <5>1. x = [s EXCEPT !.p = p1, !.out = "end"] \/ x = [s EXCEPT !.p = p2]
          BY <1>1, <4>2 DEF ScanSymbol
        <5>2. p1.bold = s.p.bold /\ p2.bold = s.p.bold
          <6> HIDE DEF i
          <6> QED  BY <3>3 DEF Line
        <5> HIDE DEF p1, p2, x
        <5>3. x.p = p1 \/ x.p = p2
          BY <3>3, <5>1 DEF ScanState
        <5> QED  BY <3>3, <5>2, <5>3 DEF Thin
      <4>3. CASE c.k \notin Attributes /\ c.k \notin DOMAIN Operands
        <5>1. x = PlaceSymbol(b, s, n)
          BY <1>1, <4>3 DEF ScanSymbol
        <5>2. SameAt(x.p, s.p)
          <6> HIDE DEF x
          <6> QED  BY <1>1, <3>1, <3>2, <3>3, <5>1, PlacePlain
        <5> QED  BY <3>3, <5>2 DEF SameAt, Attributes, Thin
      <4> QED  BY <4>1, <4>2, <4>3
    <3> HIDE DEF s, x
    <3> QED  BY <1>5, <3>1, <3>3, <3>4, <3>5
  <2>4. \A n \in lo .. N : h[n] \in S
    <3> HIDE DEF S
    <3> QED  BY <2>1, <2>2, <2>3, StaysIn
  <2> QED  BY <2>4
<1>7. ASSUME NEW k \in lo .. N, h[k].out # "more" PROVE \A n \in k .. N : h[n] = h[k]
  <2> DEFINE S == {h[k]}
  <2>1. k \in Int /\ N \in Int /\ h[k] \in S
    BY <1>1
  <2>2. ASSUME NEW n \in k + 1 .. N, h[n - 1] \in S PROVE h[n] \in S
    <3>1. n \in lo + 1 .. N
      BY <1>1
    <3> QED  BY <1>3, <1>7, <2>2, <3>1 DEF ScanStep
  <2>3. \A n \in k .. N : h[n] \in S
    <3> HIDE DEF S
    <3> QED  BY <2>1, <2>2, StaysIn
  <2> QED  BY <2>3
<1> QED  BY <1>2, <1>3, <1>4, <1>5, <1>6, <1>7 DEF h, b, N, lo

\* The line e has the attributes with which the whole text is scanned somewhere in
\* the line behind q, not further than symbol n.
Pending(w, q, n, e) ==
  \E m \in q.pos .. n : ScanFrom(w, q)[m].out = "more" /\ SameAt(e, ScanFrom(w, q)[m].p)

\* What a scan of the text that has arrived finds is the line of the whole text; if
\* it finds nothing, it leaves the attributes that belong somewhere in that line.
\* The attributes e begins with may be ahead of the text: a mark that is passed sets
\* its attribute again, and behind m all are those of the whole text.
LEMMA ScanCompared ==
  ASSUME NEW w, Plain(w), NEW v, v.text \in Texts, Begins(v.text, w),
         NEW q \in Line, Thin(q), v.cpos = q.pos, q.pos <= Len(v.text),
         NEW e \in Line, Pending(w, q, Len(v.text), e)
  PROVE  LET r == SearchNextDisplayLine(v, e)
             x == FromLine(w, q)
         IN  /\ r.found => x.found /\ SameAt(r.line, x.line) /\ r.line.pos = x.line.pos
             /\ ~r.found => Pending(w, q, Len(v.text), r.line)
             /\ ~r.found /\ v.text = w => ~x.found
<1> DEFINE g == ScanOf(v, e)
           h == ScanFrom(w, q)
           b == Base(w, q)
           t == v.text
           n == Len(t)
           N == Len(w)
           lo == q.pos
<1>1. /\ n \in Nat /\ N \in Nat /\ n <= N /\ lo \in Nat /\ lo <= n /\ w \in Texts /\ t \in Texts
      /\ b.text = w /\ b.cpos = lo /\ lo \in 0 .. n /\ v.cpos = lo /\ t = v.text
  BY DEF Plain, Texts, Begins, Line, Base
<1>2. PICK m \in lo .. n : h[m].out = "more" /\ SameAt(e, h[m].p)
  BY DEF Pending
<1>3. /\ FromLine(w, q) = Scanned(h[N]) /\ h[lo].out = "more" /\ h[lo].left = ScrW
      /\ h[lo].p.pos = lo
      /\ \A j \in lo + 1 .. N : h[j] = ScanStep(b, h[j - 1], j)
      /\ \A j \in lo .. N : h[j] \in ScanState /\ Thin(h[j].p)
      /\ \A k \in lo .. N : h[k].out # "more" => \A j \in k .. N : h[j] = h[k]
  <2>1. q.pos <= Len(w)
    BY <1>1
  <2> QED  BY <2>1, FromValues
<1>4. PICK U, W : /\ IsWidths(U, w, 0) /\ IsWidths(W, w, 1)
                  /\ \A j \in lo .. N : InScan(b, q.ycoord, W, h[j])
  <2>1. q.pos <= Len(w)
    BY <1>1
  <2> QED  BY <2>1, FromValues
<1>5. /\ SearchNextDisplayLine(v, e) = Scanned(g[n]) /\ g[lo] = StartOf(v, e)
      /\ \A j \in lo + 1 .. n : g[j] = ScanStep(v, g[j - 1], j)
      /\ \A j \in lo .. n : g[j] \in ScanState
  <2>1. v.cpos \in 0 .. Len(v.text)
    BY <1>1
  <2>2. PICK W1 : \A j \in v.cpos .. Len(v.text) : InScan(v, e.ycoord, W1, g[j])
    BY <2>1, ScanValues
  <2>3. \A j \in lo .. n : g[j] \in ScanState
    BY <1>1, <2>2 DEF InScan
  <2> QED  BY <1>1, <2>1, <2>3, ScanValues
<1> HIDE DEF g, h, b, lo, n, N, t
<1> DEFINE agrees(j) == \A a \in Attributes :
                          g[j].p[a] = h[j].p[a] \/ (j <= m /\ g[j].p[a] = h[m].p[a])
           same(j) == /\ g[j].out = h[j].out /\ g[j].out \in {"more", "line"}
                      /\ g[j].left = h[j].left /\ g[j].p.pos = h[j].p.pos /\ agrees(j)
           over(j) == /\ g[j].out = "end"
                      /\ \E k \in lo .. n : h[k].out = "more" /\ SameAt(g[j].p, h[k].p)
                      /\ t = w => h[j].out = "end"
           K == {j \in lo .. n : same(j) \/ over(j)}
<1>6. m \in Nat /\ lo \in lo .. n /\ n \in lo .. n /\ m \in lo .. N
  BY <1>1, <1>2
<1>7. lo \in K
  <2> DEFINE p == [e EXCEPT !.centerAtAll = 0, !.pixheight = 0, !.pos = v.cpos]
  <2>1. SameAt(p, e) /\ p.pos = lo
    BY <1>1 DEF SameAt, Line, Attributes
  <2>2. StartOf(v, e) = [p |-> p, left |-> ScrW, out |-> "more"]
    BY DEF StartOf
  <2> HIDE DEF p
  <2>3. g[lo].p = p /\ g[lo].left = ScrW /\ g[lo].out = "more"
    BY <1>5, <2>2
  <2>4. agrees(lo)
    BY <1>2, <2>1, <2>3 DEF SameAt
  <2> HIDE DEF agrees
  <2>5. same(lo)
    BY <1>3, <2>1, <2>3, <2>4
  <2> QED  BY <1>6, <2>5
<1>8. ASSUME NEW j \in lo + 1 .. n, j - 1 \in K PROVE j \in K
  <2>1. /\ j \in Nat /\ j - 1 \in lo .. n /\ j \in lo .. n /\ j \in lo + 1 .. N /\ j - 1 \in lo .. N
        /\ j \in lo .. N /\ j \in 1 .. n
    BY <1>1
  <2>2. g[j] = ScanStep(v, g[j - 1], j) /\ h[j] = ScanStep(b, h[j - 1], j)
    BY <1>3, <1>5, <2>1
  <2>3. m >= j => h[j].out = "more"
    <3> SUFFICES ASSUME m >= j, h[j].out # "more" PROVE FALSE
      OBVIOUS
    <3>1. m \in j .. N
      BY <1>6, <2>1
    <3> QED  BY <1>2, <1>3, <2>1, <3>1
  <2>4. CASE over(j - 1)
    <3>1. g[j] = g[j - 1]
      BY <2>2, <2>4 DEF ScanStep
    <3>2. t = w => h[j] = h[j - 1]
      BY <2>2, <2>4 DEF ScanStep
    <3>3. over(j)
      BY <2>4, <3>1, <3>2
    <3> HIDE DEF over
    <3> QED  BY <2>1, <3>3
  <2>5. CASE same(j - 1) /\ ~(g[j - 1].out = "more" /\ g[j - 1].p.pos = j - 1)
    <3>1. g[j] = g[j - 1] /\ h[j] = h[j - 1]
      BY <2>2, <2>5 DEF ScanStep
    <3>2. agrees(j)
      <4> SUFFICES ASSUME NEW a \in Attributes
                   PROVE  g[j].p[a] = h[j].p[a] \/ (j <= m /\ g[j].p[a] = h[m].p[a])
        OBVIOUS
      <4>1. g[j].p[a] = h[j].p[a] \/ (j - 1 <= m /\ g[j].p[a] = h[m].p[a])
        BY <2>5, <3>1
      <4>2. j - 1 <= m => j <= m \/ h[m] = h[j]
        BY <1>6, <2>1, <3>1
      <4> QED  BY <4>1, <4>2
    <3> HIDE DEF agrees
    <3>3. same(j)
      BY <2>5, <3>1, <3>2
    <3> HIDE DEF same
    <3> QED  BY <2>1, <3>3
  <2>6. CASE same(j - 1) /\ g[j - 1].out = "more" /\ g[j - 1].p.pos = j - 1
    <3> DEFINE s == g[j - 1]
               u == h[j - 1]
               x == g[j]
               z == h[j]
    <3>1. x = ScanSymbol(v, s, j) /\ z = ScanSymbol(b, u, j)
      BY <2>2, <2>6 DEF ScanStep
    <3>2. Thin(s.p) /\ Thin(u.p)
      <4>1. "bold" \in Attributes
        BY DEF Attributes
      <4>2. s.p.bold = h[j - 1].p.bold \/ s.p.bold = h[m].p.bold
        BY <2>6, <4>1
      <4>3. Thin(h[j - 1].p) /\ Thin(h[m].p)
        BY <1>3, <1>6, <2>1
      <4> QED  BY <4>2, <4>3 DEF Thin
    <3>3. GoesAlong(x, z, s, u) \/ EndsBefore(x, z, s, u, j, t, w)
      <4>1. InScan(b, q.ycoord, W, u)
        BY <1>4, <2>1
      <4>2. u.out = "more" /\ u.p.pos = j - 1 /\ s \in ScanState /\ s.out = "more"
            /\ s.left = u.left /\ s.p.pos = j - 1
        BY <1>5, <2>1, <2>6
      <4>3. /\ v.text \in Texts /\ Plain(b.text) /\ Begins(v.text, b.text)
            /\ b.cpos \in 0 .. Len(v.text) /\ j \in 1 .. Len(v.text)
            /\ IsWidths(U, b.text, 0) /\ IsWidths(W, b.text, 1)
        BY <1>1, <1>4, <2>1 DEF n, t
      <4>4. GoesAlong(ScanSymbol(v, s, j), ScanSymbol(b, u, j), s, u)
            \/ EndsBefore(ScanSymbol(v, s, j), ScanSymbol(b, u, j), s, u, j, v.text, b.text)
        <5> DEFINE y == q.ycoord
        <5> HIDE DEF s, u, y
        <5>1. InScan(b, y, W, u)
          BY <4>1 DEF y
        <5> QED  BY <3>2, <4>2, <4>3, <5>1, StepAlong
      <4> QED  BY <1>1, <3>1, <4>4
    <3>4. CASE GoesAlong(x, z, s, u)
      <4>1. x.out = z.out /\ x.out \in {"more", "line"} /\ x.left = z.left
            /\ Follows(x.p, z.p, s.p, u.p) /\ (x.out = "more" \/ SameAt(s.p, u.p) => x.p.pos = z.p.pos)
        BY <3>4 DEF GoesAlong
      <4>2. agrees(j)
        <5> SUFFICES ASSUME NEW a \in Attributes
                     PROVE  x.p[a] = z.p[a] \/ (j <= m /\ x.p[a] = h[m].p[a])
          OBVIOUS
        <5>1. s.p[a] = u.p[a] \/ (j - 1 <= m /\ s.p[a] = h[m].p[a])
          BY <2>6
        <5>2. j - 1 <= m => j <= m \/ h[m] = u
          BY <1>6, <2>1
        <5>3. x.p[a] = z.p[a] \/ (x.p[a] = s.p[a] /\ z.p[a] = u.p[a])
          BY <4>1 DEF Follows
        <5> QED  BY <5>1, <5>2, <5>3
      <4>3. x.p.pos = z.p.pos
        <5>1. CASE x.out = "more" BY <4>1, <5>1
        <5>2. CASE x.out # "more"
          <6>1. ~(m >= j)
            BY <2>3, <4>1, <5>2
          <6>2. j - 1 <= m => h[m] = u
            BY <1>6, <2>1, <6>1
          <6>3. \A a \in Attributes : s.p[a] = u.p[a] \/ (j - 1 <= m /\ s.p[a] = h[m].p[a])
            BY <2>6
          <6>4. SameAt(s.p, u.p)
            BY <6>2, <6>3 DEF SameAt
          <6> QED  BY <4>1, <6>4
        <5> QED  BY <5>1, <5>2
      <4> HIDE DEF agrees
      <4>4. same(j)
        BY <4>1, <4>2, <4>3
      <4> HIDE DEF same
      <4> QED  BY <2>1, <4>4
    <3>5. CASE EndsBefore(x, z, s, u, j, t, w)
      <4>1. /\ x.out = "end" /\ SameAt(x.p, s.p) /\ SameAt(z.p, u.p) /\ j = n - 1
            /\ z.out \in {"more", "end"} /\ (z.out = "more" => z.p.pos = n) /\ (t = w => z.out = "end")
        BY <3>5 DEF EndsBefore, n
      <4>2. m >= j => SameAt(h[m].p, u.p)
        <5> SUFFICES ASSUME m >= j PROVE SameAt(h[m].p, u.p)
          OBVIOUS
        <5>1. z.out = "more" /\ z.p.pos = n
          BY <2>3, <4>1
        <5>2. n \in lo + 1 .. N /\ n - 1 = j /\ n # n - 1
          BY <1>1, <2>1, <4>1
        <5>3. h[n] = z
          BY <1>3, <4>1, <5>1, <5>2 DEF ScanStep
        <5>4. m = j \/ m = n
          BY <1>1, <1>2, <2>1, <4>1
        <5> QED  BY <4>1, <5>3, <5>4
      <4>3. SameAt(x.p, u.p)
        <5> SUFFICES ASSUME NEW a \in Attributes PROVE x.p[a] = u.p[a]
          BY DEF SameAt
        <5>1. s.p[a] = u.p[a] \/ (j - 1 <= m /\ s.p[a] = h[m].p[a])
          BY <2>6
        <5>2. j - 1 <= m => m >= j \/ h[m] = u
          BY <1>6, <2>1
        <5>3. x.p[a] = s.p[a]
          BY <4>1 DEF SameAt
        <5>4. m >= j => h[m].p[a] = u.p[a]
          BY <4>2 DEF SameAt
        <5> QED  BY <5>1, <5>2, <5>3, <5>4
      <4>4. h[j - 1].out = "more"
        BY <2>6
      <4>5. over(j)
        BY <2>1, <4>1, <4>3, <4>4
      <4> HIDE DEF over
      <4> QED  BY <2>1, <4>5
    <3> QED  BY <3>3, <3>4, <3>5
  <2> HIDE DEF same, over
  <2> QED  BY <1>8, <2>4, <2>5, <2>6
<1>9. same(n) \/ over(n)
  <2> HIDE DEF same, over
  <2>1. \A j \in lo .. n : j \in K
    <3> HIDE DEF K
    <3>1. lo \in Int /\ n \in Int
      BY <1>1
    <3> QED  BY <1>7, <1>8, <3>1, InductionOn
  <2> QED  BY <1>6, <2>1
<1> DEFINE r == SearchNextDisplayLine(v, e)
           x == FromLine(w, q)
<1>10. /\ r.found = (g[n].out = "line") /\ r.line = g[n].p
       /\ x.found = (h[N].out = "line") /\ x.line = h[N].p
  BY <1>3, <1>5 DEF Scanned
<1>11. n \in lo .. N /\ N \in n .. N
  BY <1>1
<1>12. ASSUME r.found PROVE x.found /\ SameAt(r.line, x.line) /\ r.line.pos = x.line.pos
  <2>1. same(n) /\ h[n].out = "line"
    BY <1>9, <1>10, <1>12
  <2>2. h[N] = h[n]
    BY <1>3, <1>11, <2>1
  <2>3. ~(n <= m)
    BY <1>1, <1>2, <2>1
  <2>4. SameAt(g[n].p, h[n].p)
    BY <2>1, <2>3 DEF SameAt
  <2> HIDE DEF r, x
  <2> QED  BY <1>10, <2>1, <2>2, <2>4
<1>13. ASSUME ~r.found PROVE \E k \in lo .. n : h[k].out = "more" /\ SameAt(r.line, h[k].p)
  <2>1. CASE over(n) BY <1>10, <2>1
  <2>2. CASE same(n)
    <3>1. h[n].out = "more"
      BY <1>10, <1>13, <2>2
    <3>2. n <= m => m = n
      BY <1>1, <1>2
    <3>3. SameAt(g[n].p, h[n].p)
      BY <2>2, <3>2 DEF SameAt
    <3> QED  BY <1>6, <1>10, <3>1, <3>3
  <2> QED  BY <1>9, <2>1, <2>2
<1>14. ASSUME ~r.found, t = w PROVE ~x.found
  <2>1. n = N
    BY <1>14 DEF n, N
  <2>2. h[n].out # "line"
    BY <1>9, <1>10, <1>14
  <2> HIDE DEF r, x
  <2> QED  BY <1>10, <2>1, <2>2
<1> HIDE DEF r, x
<1> QED  BY <1>12, <1>13, <1>14 DEF r, x, t, lo, h, n, Pending

-----------------------------------------------------------------------------
(* The cache of lines.                                                       *)

Fields == {"text", "cache", "cpos", "view_line"}

\* The lines c of a text of n symbols, the scan being at from.
LinesSoundIn(n, c, from) ==
  /\ c \in Seq(Line) /\ c # <<>>
  /\ from = IF Len(c) = 1 THEN 0 ELSE c[Len(c) - 1].pos
  /\ \A i \in 1 .. Len(c) - 1 :
       /\ c[i].pos > IF i = 1 THEN 0 ELSE c[i - 1].pos
       /\ c[i + 1].ycoord = c[i].ycoord + c[i].pixheight
  /\ \A i \in 1 .. Len(c) : c[i].pos <= n

SoundLines(v) ==
  /\ Fields \subseteq DOMAIN v
  /\ v.text \in Texts
  /\ LinesSoundIn(Len(v.text), v.cache, v.cpos)
  /\ v.view_line \in 0 .. Len(v.cache) - 1

\* A page that was never drawn has no lines.
Undrawn(v) ==
  /\ Fields \subseteq DOMAIN v
  /\ v.text \in Texts
  /\ v.cache = <<>> /\ v.cpos = 0 /\ v.view_line = 0

Readable(v) == SoundLines(v) \/ Undrawn(v)

\* w is v but for what does not concern the lines.
SameLines(v, w) == Fields \subseteq DOMAIN w /\ \A f \in Fields : w[f] = v[f]

LEMMA SameLinesSound ==
  ASSUME NEW v, NEW w, SameLines(v, w)
  PROVE  (SoundLines(v) => SoundLines(w)) /\ (Undrawn(v) => Undrawn(w)) /\ (Readable(v) => Readable(w))
<1>1. w.text = v.text /\ w.cache = v.cache /\ w.cpos = v.cpos /\ w.view_line = v.view_line
  BY DEF SameLines, Fields
<1> QED  BY <1>1 DEF SoundLines, Undrawn, Readable, SameLines

LEMMA OtherFieldSame ==
  ASSUME NEW v, Fields \subseteq DOMAIN v, NEW f, f \notin Fields, NEW x
  PROVE  SameLines(v, [v EXCEPT ![f] = x])
BY DEF SameLines

LEMMA AtLine ==
  ASSUME NEW v, SoundLines(v), NEW n \in 0 .. Len(v.cache) - 1
  PROVE  SoundLines([v EXCEPT !.view_line = n])
BY DEF SoundLines, Fields

LEMMA Numbers ==
  ASSUME NEW v, SoundLines(v)
  PROVE  /\ Len(v.text) \in Nat /\ Len(v.cache) \in Nat /\ Len(v.cache) >= 1
         /\ v.cache \in Seq(Line) /\ v.view_line \in Nat /\ v.view_line < Len(v.cache)
         /\ v.cpos \in 0 .. Len(v.text)
<1>1. v.cache \in Seq(Line) /\ v.cache # <<>> /\ Len(v.text) \in Nat
  BY DEF SoundLines, LinesSoundIn, Texts
<1>2. Len(v.cache) \in Nat /\ Len(v.cache) >= 1
  BY <1>1
<1>3. v.cpos \in 0 .. Len(v.text)
  <2>1. CASE Len(v.cache) = 1 BY <1>1, <2>1 DEF SoundLines, LinesSoundIn
  <2>2. CASE Len(v.cache) # 1
    <3>1. Len(v.cache) - 1 \in 1 .. Len(v.cache)
      <4> DEFINE k == Len(v.cache)
      <4>1. k \in Nat /\ k >= 1 /\ k # 1
        BY <1>2, <2>2
      <4> HIDE DEF k
      <4>2. k - 1 \in 1 .. k
        BY <4>1
      <4> QED  BY <4>2 DEF k
    <3>2. v.cache[Len(v.cache) - 1] \in Line
      BY <1>1, <3>1
    <3>3. v.cache[Len(v.cache) - 1].pos \in Nat
      BY <3>2 DEF Line
    <3> QED  BY <1>1, <2>2, <3>1, <3>3 DEF SoundLines, LinesSoundIn
  <2> QED  BY <2>1, <2>2
<1> QED  BY <1>1, <1>2, <1>3 DEF SoundLines

\* The last line as a scan leaves it.
LastAs(c, e) == [c EXCEPT ![Len(c)] = e]

\* The scan of the last line keeps the lines, whether it finishes the line or not.
LEMMA LinesKept ==
  ASSUME NEW n \in Nat, NEW c, NEW from, LinesSoundIn(n, c, from),
         NEW e \in Line, e.ycoord = c[Len(c)].ycoord, e.pos \in from .. n, from \in Nat,
         NEW d, d = LastAs(c, e)
  PROVE  /\ LinesSoundIn(n, d, from) /\ Len(d) = Len(c)
         /\ e.pos > from => \A b \in Line :
              b.pos = e.pos /\ b.ycoord = e.ycoord + e.pixheight
              => LinesSoundIn(n, Append(d, b), e.pos)
<1> DEFINE k == Len(c)
<1>1. k \in Nat /\ k >= 1 /\ c \in Seq(Line) /\ k \in 1 .. k /\ k = Len(c) /\ DOMAIN c = 1 .. k
  BY DEF LinesSoundIn
<1> HIDE DEF k
<1>2. /\ d \in Seq(Line) /\ Len(d) = k /\ d # <<>> /\ d[k] = e
      /\ \A i \in 1 .. k : i # k => d[i] = c[i]
  BY <1>1 DEF LastAs
<1>3. \A i \in 1 .. k : d[i] \in Line /\ d[i].ycoord = c[i].ycoord /\ d[i].pos <= n
  <2> SUFFICES ASSUME NEW i \in 1 .. k
               PROVE  d[i] \in Line /\ d[i].ycoord = c[i].ycoord /\ d[i].pos <= n
    OBVIOUS
  <2>1. e.pos <= n
    OBVIOUS
  <2>2. c[i] \in Line /\ c[i].pos <= n
    BY <1>1 DEF LinesSoundIn
  <2> QED  BY <1>1, <1>2, <2>1, <2>2
<1>4. ASSUME NEW i \in 1 .. k - 1
      PROVE  /\ d[i].pos > IF i = 1 THEN 0 ELSE d[i - 1].pos
             /\ d[i + 1].ycoord = d[i].ycoord + d[i].pixheight
  <2>1. i \in 1 .. k /\ i # k /\ i + 1 \in 1 .. k /\ d[i] = c[i]
    BY <1>1, <1>2
  <2>2. i # 1 => i - 1 \in 1 .. k /\ i - 1 # k /\ d[i - 1] = c[i - 1]
    BY <1>1, <1>2
  <2>3. /\ c[i].pos > IF i = 1 THEN 0 ELSE c[i - 1].pos
        /\ c[i + 1].ycoord = c[i].ycoord + c[i].pixheight
    BY <1>1 DEF LinesSoundIn
  <2>4. d[i + 1].ycoord = c[i + 1].ycoord
    BY <1>3, <2>1
  <2> QED  BY <2>1, <2>2, <2>3, <2>4
<1>5. from = IF k = 1 THEN 0 ELSE d[k - 1].pos
  <2>1. k # 1 => k - 1 \in 1 .. k /\ k - 1 # k
    BY <1>1
  <2> QED  BY <1>1, <1>2, <2>1 DEF LinesSoundIn
<1>6. LinesSoundIn(n, d, from)
  BY <1>1, <1>2, <1>3, <1>4, <1>5 DEF LinesSoundIn
<1>7. ASSUME e.pos > from, NEW b \in Line, b.pos = e.pos, b.ycoord = e.ycoord + e.pixheight
      PROVE  LinesSoundIn(n, Append(d, b), e.pos)
  <2> DEFINE a == Append(d, b)
  <2>1. /\ a \in Seq(Line) /\ Len(a) = k + 1 /\ a # <<>> /\ a[k + 1] = b
        /\ \A i \in 1 .. k : a[i] = d[i]
    BY <1>1, <1>2
  <2> HIDE DEF a
  <2>2. ASSUME NEW i \in 1 .. (k + 1) - 1
        PROVE  /\ a[i].pos > IF i = 1 THEN 0 ELSE a[i - 1].pos
               /\ a[i + 1].ycoord = a[i].ycoord + a[i].pixheight
    <3>1. i \in 1 .. k /\ a[i] = d[i] /\ (i # 1 => i - 1 \in 1 .. k /\ a[i - 1] = d[i - 1])
      BY <1>1, <2>1
    <3>2. CASE i = k
      <4>1. a[i] = e /\ a[i + 1] = b
        BY <1>2, <2>1, <3>1, <3>2
      <4>2. e.pos > IF i = 1 THEN 0 ELSE a[i - 1].pos
        BY <1>5, <1>7, <3>1, <3>2
      <4> QED  BY <1>7, <4>1, <4>2
    <3>3. CASE i # k
      <4>1. i \in 1 .. k - 1 /\ i + 1 \in 1 .. k
        BY <1>1, <3>1, <3>3
      <4>2. a[i + 1] = d[i + 1]
        BY <2>1, <4>1
      <4> QED  BY <1>4, <3>1, <4>1, <4>2
    <3> QED  BY <3>2, <3>3
  <2>3. \A i \in 1 .. k + 1 : a[i].pos <= n
    <3> SUFFICES ASSUME NEW i \in 1 .. k + 1 PROVE a[i].pos <= n
      OBVIOUS
    <3>1. CASE i = k + 1 BY <1>7, <2>1, <3>1
    <3>2. CASE i # k + 1
      <4>1. i \in 1 .. k
        BY <1>1, <3>2
      <4> QED  BY <1>3, <2>1, <4>1
    <3> QED  BY <3>1, <3>2
  <2>4. e.pos = IF k + 1 = 1 THEN 0 ELSE a[(k + 1) - 1].pos
    <3>1. k + 1 # 1 /\ (k + 1) - 1 = k /\ k \in 1 .. k
      BY <1>1
    <3> QED  BY <1>2, <2>1, <3>1
  <2> QED  BY <2>1, <2>2, <2>3, <2>4 DEF LinesSoundIn, a
<1> QED  BY <1>1, <1>2, <1>6, <1>7


\* What LineDown does of a view: one line down, or none.
OneDown(v, d) ==
  /\ d.ok \in BOOLEAN /\ SoundLines(d.vd) /\ d.vd.text = v.text
  /\ d.vd.view_line = IF d.ok THEN v.view_line + 1 ELSE v.view_line

LEMMA ScanLineSound ==
  ASSUME NEW v, SoundLines(v), v.view_line + 1 = Len(v.cache)
  PROVE  OneDown(v, ScanLine(v))
<1> DEFINE k == Len(v.cache)
           line == v.cache[k]
           r == SearchNextDisplayLine(v, line)
           kept == [v EXCEPT !.cache[k] = r.line]
           b == [r.line EXCEPT !.ycoord = @ + r.line.pixheight]
           next == [newCacheLine(kept, b) EXCEPT !.view_line = @ + 1]
           d == ScanLine(v)
<1>1. /\ Len(v.text) \in Nat /\ k \in Nat /\ k >= 1 /\ v.cache \in Seq(Line)
      /\ v.cpos \in 0 .. Len(v.text) /\ v.text \in Texts /\ Fields \subseteq DOMAIN v
      /\ LinesSoundIn(Len(v.text), v.cache, v.cpos) /\ v.cpos \in Nat
  BY Numbers DEF SoundLines
<1>2. line \in Line
  BY <1>1
<1>3. /\ r.found \in BOOLEAN /\ r.line \in Line /\ r.line.ycoord = line.ycoord
      /\ r.line.pos \in v.cpos .. Len(v.text) /\ (r.found => r.line.pos > v.cpos)
  BY <1>1, <1>2, SearchFinds
<1>4. d = [ok |-> r.found, vd |-> IF r.found THEN next ELSE kept]
  BY DEF ScanLine, KeepLine, Last
<1> HIDE DEF r, d
<1>5. /\ kept.text = v.text /\ kept.cache = LastAs(v.cache, r.line) /\ kept.cpos = v.cpos
      /\ kept.view_line = v.view_line /\ Fields \subseteq DOMAIN kept
  BY <1>1 DEF Fields, LastAs
<1>6. b \in Line /\ b.pos = r.line.pos /\ b.ycoord = r.line.ycoord + r.line.pixheight
  BY <1>3 DEF Line
<1>7. /\ LinesSoundIn(Len(v.text), kept.cache, v.cpos) /\ Len(kept.cache) = k
      /\ r.found => LinesSoundIn(Len(v.text), Append(kept.cache, b), r.line.pos)
  <2> DEFINE e == r.line
             c == v.cache
             f == kept.cache
             n == Len(v.text)
  <2>1. /\ n \in Nat /\ LinesSoundIn(n, c, v.cpos) /\ e \in Line /\ e.ycoord = c[Len(c)].ycoord
        /\ e.pos \in v.cpos .. n /\ v.cpos \in Nat /\ f = LastAs(c, e)
        /\ b \in Line /\ b.pos = e.pos /\ b.ycoord = e.ycoord + e.pixheight
        /\ (r.found => e.pos > v.cpos)
    BY <1>1, <1>3, <1>5, <1>6
  <2> HIDE DEF b, kept, e, c, f, n
  <2>2. /\ LinesSoundIn(n, f, v.cpos) /\ Len(f) = Len(c)
        /\ r.found => LinesSoundIn(n, Append(f, b), e.pos)
    BY <2>1, LinesKept
  <2> QED  BY <2>2 DEF e, c, f, n
<1>8. /\ next.text = v.text /\ next.cache = Append(kept.cache, b) /\ next.cpos = r.line.pos
      /\ next.view_line = v.view_line + 1 /\ Fields \subseteq DOMAIN next
  <2> HIDE DEF b, kept
  <2> QED  BY <1>5, <1>6 DEF newCacheLine, Fields
<1>9. Len(Append(kept.cache, b)) = k + 1
  <2>1. kept.cache \in Seq(Line)
    BY <1>7 DEF LinesSoundIn
  <2> HIDE DEF b, kept
  <2> QED  BY <1>6, <1>7, <2>1
<1> HIDE DEF kept, b, next
<1>10. v.view_line \in Nat /\ v.view_line + 1 = k
  BY Numbers
<1> HIDE DEF k
<1>11. CASE r.found
  <2>1. d.ok = r.found /\ d.vd = next
    BY <1>4, <1>11
  <2>2. SoundLines(next)
    <3>1. next.view_line \in 0 .. Len(next.cache) - 1
      BY <1>1, <1>8, <1>9, <1>10
    <3> QED  BY <1>1, <1>7, <1>8, <1>11, <3>1 DEF SoundLines
  <2> QED  BY <1>3, <1>8, <1>11, <2>1, <2>2 DEF OneDown, d
<1>12. CASE ~r.found
  <2>1. d.ok = r.found /\ d.vd = kept
    BY <1>4, <1>12
  <2>2. SoundLines(kept)
    <3>1. kept.view_line \in 0 .. Len(kept.cache) - 1
      BY <1>1, <1>5, <1>7, <1>10
    <3> QED  BY <1>1, <1>5, <1>7, <3>1 DEF SoundLines
  <2> QED  BY <1>3, <1>5, <1>12, <2>1, <2>2 DEF OneDown, d
<1> QED  BY <1>11, <1>12

\* A page that was never drawn gets its first line.
LEMMA FirstLineSound ==
  ASSUME NEW v, Undrawn(v), NEW u, u = newCacheLine(v, FirstLine)
  PROVE  /\ LineDown(v) = ScanLine(u) /\ SoundLines(u) /\ u.view_line + 1 = Len(u.cache)
         /\ u.text = v.text /\ u.cache = <<FirstLine>> /\ u.view_line = 0
<1>1. LineDown(v) = ScanLine(u)
  <2>1. v.view_line = 0 /\ v.cache = <<>> /\ Len(v.cache) = 0
    BY DEF Undrawn
  <2> QED  BY <2>1 DEF LineDown
<1>2. /\ u.text = v.text /\ u.cache = <<FirstLine>> /\ u.cpos = 0 /\ u.view_line = 0
      /\ Fields \subseteq DOMAIN u
  BY DEF Undrawn, newCacheLine, FirstLine, Fields
<1>3. FirstLine \in Line /\ FirstLine.pos = 0
  BY DEF FirstLine, Line, Flag
<1>4. Len(v.text) \in Nat
  BY DEF Undrawn, Texts
<1>5. LinesSoundIn(Len(v.text), <<FirstLine>>, 0)
  <2> DEFINE c == <<FirstLine>>
  <2>1. c \in Seq(Line) /\ Len(c) = 1 /\ c # <<>> /\ c[1] = FirstLine
    BY <1>3
  <2>2. \A i \in 1 .. 1 - 1 : FALSE
    OBVIOUS
  <2>3. \A i \in 1 .. 1 : i = 1
    OBVIOUS
  <2> HIDE DEF c
  <2>4. \A i \in 1 .. Len(c) : c[i].pos <= Len(v.text)
    BY <1>3, <1>4, <2>1, <2>3
  <2>5. \A i \in 1 .. Len(c) - 1 : FALSE
    BY <2>1, <2>2
  <2> QED  BY <2>1, <2>4, <2>5 DEF LinesSoundIn, c
<1>6. SoundLines(u) /\ u.view_line + 1 = Len(u.cache)
  <2>1. Len(u.cache) = 1
    BY <1>2
  <2>2. v.text \in Texts
    BY DEF Undrawn
  <2> QED  BY <1>2, <1>5, <2>1, <2>2 DEF SoundLines
<1> QED  BY <1>1, <1>2, <1>6

LEMMA LineDownSound ==
  ASSUME NEW v, Readable(v)
  PROVE  OneDown(v, LineDown(v))
<1>1. CASE SoundLines(v)
  <2>1. /\ Len(v.cache) \in Nat /\ v.view_line \in Nat /\ v.view_line < Len(v.cache)
        /\ v.cache # <<>> /\ Fields \subseteq DOMAIN v
    BY <1>1, Numbers DEF SoundLines, LinesSoundIn
  <2>2. CASE v.view_line + 1 < Len(v.cache)
    <3> DEFINE w == [v EXCEPT !.view_line = @ + 1]
    <3>1. LineDown(v) = [ok |-> TRUE, vd |-> w]
      BY <2>2 DEF LineDown
    <3>2. v.view_line + 1 \in 0 .. Len(v.cache) - 1
      BY <2>1, <2>2
    <3>3. SoundLines(w)
      BY <1>1, <3>2, AtLine
    <3>4. w.text = v.text /\ w.view_line = v.view_line + 1
      BY <2>1 DEF Fields
    <3> HIDE DEF w
    <3>5. LineDown(v).ok = TRUE /\ LineDown(v).vd = w
      BY <3>1
    <3> QED  BY <3>3, <3>4, <3>5 DEF OneDown
  <2>3. CASE ~(v.view_line + 1 < Len(v.cache))
    <3>1. LineDown(v) = ScanLine(v)
      BY <2>1, <2>3 DEF LineDown
    <3>2. v.view_line + 1 = Len(v.cache)
      BY <2>1, <2>3
    <3> QED  BY <1>1, <3>1, <3>2, ScanLineSound
  <2> QED  BY <2>2, <2>3
<1>2. CASE Undrawn(v)
  <2> DEFINE w == newCacheLine(v, FirstLine)
  <2>1. /\ LineDown(v) = ScanLine(w) /\ SoundLines(w) /\ w.view_line + 1 = Len(w.cache)
        /\ w.text = v.text /\ w.view_line = 0
    BY <1>2, FirstLineSound
  <2> HIDE DEF w
  <2>2. OneDown(w, ScanLine(w))
    BY <2>1, ScanLineSound
  <2>3. v.view_line = 0
    BY <1>2 DEF Undrawn
  <2> QED  BY <2>1, <2>2, <2>3 DEF OneDown
<1> QED  BY <1>1, <1>2 DEF Readable

-----------------------------------------------------------------------------
(* The lines of what has arrived are those of the whole text w.              *)

LineBefore(c, i) == IF i = 1 THEN FirstLine ELSE c[i - 1]

\* The finished lines of c follow one another as in w.
Chain(w, c) ==
  \A i \in 1 .. Len(c) - 1 :
    LET r == FromLine(w, LineBefore(c, i))
    IN  Thin(c[i]) /\ r.found /\ SameAt(c[i], r.line) /\ c[i].pos = r.line.pos

\* And the last one stands where w is scanned somewhere in that line.
Cut(w, v) ==
  /\ Begins(v.text, w)
  /\ v.cache # <<>> =>
       /\ Chain(w, v.cache)
       /\ Pending(w, LineBefore(v.cache, Len(v.cache)), Len(v.text), v.cache[Len(v.cache)])

\* The last line of c is the last of w.
AtEnd(w, c) == ~FromLine(w, LineBefore(c, Len(c))).found

\* v has as many lines of w as w carries on to.
Carries(v, u) == \A w : Plain(w) /\ Cut(w, v) => Cut(w, u)

\* Where a line begins, its own attributes hold.
LEMMA FreshPending ==
  ASSUME NEW w, Plain(w), NEW q \in Line, Thin(q), NEW n \in Nat, q.pos <= n, n <= Len(w),
         NEW e, SameAt(e, q)
  PROVE  Pending(w, q, n, e)
<1>1. q.pos \in Nat /\ Len(w) \in Nat
  BY DEF Line, Plain, Texts
<1>2. q.pos \in q.pos .. n /\ q.pos <= Len(w)
  BY <1>1
<1>3. ScanFrom(w, q)[q.pos].out = "more" /\ SameAt(ScanFrom(w, q)[q.pos].p, q)
  BY <1>2, FromValues
<1>4. SameAt(e, ScanFrom(w, q)[q.pos].p)
  BY <1>3 DEF SameAt
<1> QED  BY <1>2, <1>3, <1>4 DEF Pending

LEMMA FirstThin == FirstLine \in Line /\ Thin(FirstLine) /\ FirstLine.pos = 0
BY DEF FirstLine, Line, Flag, Thin

\* The line before the last is one the scan may begin with.
LEMMA BeforeLast ==
  ASSUME NEW w, NEW v, SoundLines(v), Chain(w, v.cache)
  PROVE  LET q == LineBefore(v.cache, Len(v.cache))
         IN  q \in Line /\ Thin(q) /\ q.pos = v.cpos
<1> DEFINE c == v.cache
           k == Len(c)
<1>1. k \in Nat /\ k >= 1 /\ c \in Seq(Line) /\ v.cpos = IF k = 1 THEN 0 ELSE c[k - 1].pos
  BY Numbers DEF SoundLines, LinesSoundIn
<1> HIDE DEF k
<1>2. CASE k = 1 BY <1>1, <1>2, FirstThin DEF LineBefore, k
<1>3. CASE k # 1
  <2>1. k - 1 \in 1 .. k - 1 /\ k - 1 \in 1 .. k
    BY <1>1, <1>3
  <2>2. c[k - 1] \in Line
    BY <1>1, <2>1 DEF k
  <2>3. Thin(c[k - 1])
    BY <2>1 DEF Chain, k
  <2> QED  BY <1>1, <1>3, <2>2, <2>3 DEF LineBefore, k
<1> QED  BY <1>2, <1>3

\* What a scan of the last line makes of the cache.
LEMMA ScanLineValues ==
  ASSUME NEW v, SoundLines(v)
  PROVE  LET c == v.cache
             r == SearchNextDisplayLine(v, c[Len(c)])
             d == ScanLine(v)
         IN  /\ d.ok = r.found /\ d.vd.text = v.text
             /\ ~r.found => d.vd.cache = LastAs(c, r.line)
             /\ r.found => \E e : /\ SameAt(e, r.line)
                                  /\ d.vd.cache = Append(LastAs(c, r.line), e)
<1> DEFINE k == Len(v.cache)
           r == SearchNextDisplayLine(v, v.cache[k])
           kept == [v EXCEPT !.cache[k] = r.line]
           b == [r.line EXCEPT !.ycoord = @ + r.line.pixheight]
           next == [newCacheLine(kept, b) EXCEPT !.view_line = @ + 1]
           d == ScanLine(v)
<1>1. /\ Len(v.text) \in Nat /\ k \in Nat /\ k >= 1 /\ v.cache \in Seq(Line)
      /\ v.cpos \in 0 .. Len(v.text) /\ v.text \in Texts /\ Fields \subseteq DOMAIN v
  BY Numbers DEF SoundLines
<1>2. v.cache[k] \in Line
  BY <1>1
<1>3. r.found \in BOOLEAN /\ r.line \in Line
  BY <1>1, <1>2, SearchFinds
<1>4. d = [ok |-> r.found, vd |-> IF r.found THEN next ELSE kept]
  BY DEF ScanLine, KeepLine, Last
<1> HIDE DEF r, d
<1>5. kept.text = v.text /\ kept.cache = LastAs(v.cache, r.line) /\ Fields \subseteq DOMAIN kept
  BY <1>1 DEF Fields, LastAs
<1>6. SameAt(b, r.line)
  BY <1>3 DEF Line, SameAt, Attributes
<1> HIDE DEF b, kept
<1>7. next.text = v.text /\ next.cache = Append(kept.cache, b)
  BY <1>5 DEF newCacheLine, Fields
<1> HIDE DEF next
<1>8. d.ok = r.found /\ d.vd.text = v.text /\ (~r.found => d.vd.cache = LastAs(v.cache, r.line))
  BY <1>3, <1>4, <1>5, <1>7
<1>9. r.found => d.vd.cache = Append(LastAs(v.cache, r.line), b)
  BY <1>4, <1>5, <1>7
<1> QED  BY <1>6, <1>8, <1>9 DEF r, d

LEMMA ScanLineCut ==
  ASSUME NEW v, SoundLines(v), NEW w, Plain(w), Cut(w, v)
  PROVE  LET d == ScanLine(v)
         IN  Cut(w, d.vd) /\ (~d.ok /\ v.text = w => AtEnd(w, d.vd.cache))
<1> DEFINE c == v.cache
           k == Len(c)
           n == Len(v.text)
           q == LineBefore(c, k)
           r == SearchNextDisplayLine(v, c[k])
           x == FromLine(w, q)
           d == ScanLine(v)
           f == LastAs(c, r.line)
<1>1. /\ n \in Nat /\ k \in Nat /\ k >= 1 /\ c \in Seq(Line) /\ c # <<>> /\ v.text \in Texts
      /\ v.cpos \in 0 .. n /\ Len(w) \in Nat /\ n <= Len(w) /\ Begins(v.text, w)
  <2>1. Len(w) \in Nat /\ n <= Len(w) /\ Begins(v.text, w)
    BY DEF Plain, Texts, Cut, Begins
  <2> QED  BY <2>1, Numbers DEF SoundLines, LinesSoundIn
<1>2. Chain(w, c) /\ Pending(w, q, n, c[k])
  BY <1>1 DEF Cut
<1>3. q \in Line /\ Thin(q) /\ q.pos = v.cpos /\ q.pos <= n /\ q.pos <= Len(w)
  <2>1. q \in Line /\ Thin(q) /\ q.pos = v.cpos
    BY <1>2, BeforeLast
  <2> QED  BY <1>1, <2>1
<1>4. c[k] \in Line
  BY <1>1
<1> HIDE DEF q
<1>5. /\ r.found => x.found /\ SameAt(r.line, x.line) /\ r.line.pos = x.line.pos
      /\ ~r.found => Pending(w, q, n, r.line)
      /\ ~r.found /\ v.text = w => ~x.found
  BY <1>1, <1>2, <1>3, <1>4, ScanCompared
<1>6. Thin(x.line)
  <2>1. x = Scanned(ScanFrom(w, q)[Len(w)]) /\ Thin(ScanFrom(w, q)[Len(w)].p)
    <3>1. Len(w) \in q.pos .. Len(w)
      BY <1>1, <1>3 DEF Line
    <3> QED  BY <1>3, <3>1, FromValues
  <2> QED  BY <2>1 DEF Scanned
<1>7. r.found \in BOOLEAN /\ r.line \in Line /\ r.line.pos \in 0 .. n
  <2>1. r.found \in BOOLEAN /\ r.line \in Line /\ r.line.pos \in v.cpos .. n
    BY <1>1, <1>4, SearchFinds
  <2> QED  BY <1>1, <2>1
<1>8. /\ d.ok = r.found /\ d.vd.text = v.text /\ (~r.found => d.vd.cache = f)
      /\ r.found => \E e : SameAt(e, r.line) /\ d.vd.cache = Append(f, e)
  BY ScanLineValues
<1> HIDE DEF r, x, d
<1>9. f \in Seq(Line) /\ Len(f) = k /\ f[k] = r.line /\ \A i \in 1 .. k - 1 : f[i] = c[i]
  <2>1. /\ f \in Seq(Line) /\ Len(f) = k /\ \A i \in 1 .. k : f[i] = IF i = k THEN r.line ELSE c[i]
    BY <1>1, <1>7 DEF LastAs
  <2> HIDE DEF f, k
  <2>2. k \in 1 .. k /\ \A i \in 1 .. k - 1 : i \in 1 .. k /\ i # k
    BY <1>1
  <2> QED  BY <2>1, <2>2
<1> HIDE DEF f
<1>10. LineBefore(f, k) = q /\ \A i \in 1 .. k : LineBefore(f, i) = LineBefore(c, i)
  <2> HIDE DEF k
  <2>1. \A i \in 1 .. k : i # 1 => i - 1 \in 1 .. k - 1
    BY <1>1
  <2>2. \A i \in 1 .. k : LineBefore(f, i) = LineBefore(c, i)
    BY <1>9, <2>1 DEF LineBefore
  <2>3. k \in 1 .. k
    BY <1>1
  <2> QED  BY <2>2, <2>3 DEF q
<1>11. \A i \in 1 .. k - 1 :
         LET z == FromLine(w, LineBefore(f, i))
         IN  Thin(f[i]) /\ z.found /\ SameAt(f[i], z.line) /\ f[i].pos = z.line.pos
  <2>1. \A i \in 1 .. k - 1 : i \in 1 .. k
    BY <1>1
  <2> QED  BY <1>2, <1>9, <1>10, <2>1 DEF Chain
<1>12. CASE ~r.found
  <2>1. d.vd.cache = f /\ f # <<>>
    BY <1>1, <1>8, <1>9, <1>12
  <2>2. Chain(w, f)
    BY <1>9, <1>11 DEF Chain
  <2>3. Cut(w, d.vd)
    BY <1>1, <1>5, <1>8, <1>9, <1>10, <1>12, <2>1, <2>2 DEF Cut
  <2>4. v.text = w => AtEnd(w, d.vd.cache)
    BY <1>5, <1>9, <1>10, <1>12, <2>1 DEF AtEnd, x
  <2> QED  BY <2>3, <2>4 DEF d
<1>13. CASE r.found
  <2>1. PICK e : SameAt(e, r.line) /\ d.vd.cache = Append(f, e)
    BY <1>8, <1>13
  <2> DEFINE g == Append(f, e)
  <2> HIDE DEF k
  <2>2. Len(g) = k + 1 /\ g # <<>> /\ g[k + 1] = e /\ \A i \in 1 .. k : g[i] = f[i]
    BY <1>1, <1>9
  <2> HIDE DEF g
  <2>3. \A i \in 1 .. k : LineBefore(g, i) = LineBefore(f, i)
    <3>1. \A i \in 1 .. k : i # 1 => i - 1 \in 1 .. k
      BY <1>1
    <3> QED  BY <2>2, <3>1 DEF LineBefore
  <2>4. LineBefore(g, k + 1) = r.line
    <3>1. k + 1 # 1 /\ (k + 1) - 1 = k /\ k \in 1 .. k
      BY <1>1
    <3> QED  BY <1>9, <2>2, <3>1 DEF LineBefore
  <2>5. Thin(r.line)
    BY <1>5, <1>6, <1>13 DEF Thin, SameAt, Attributes
  <2>6. Chain(w, g)
    <3> SUFFICES ASSUME NEW i \in 1 .. k
                 PROVE  LET z == FromLine(w, LineBefore(g, i))
                        IN  /\ Thin(g[i]) /\ z.found /\ SameAt(g[i], z.line)
                            /\ g[i].pos = z.line.pos
      <4>1. Len(g) - 1 = k
        BY <1>1, <2>2
      <4> QED  BY <4>1 DEF Chain
    <3>1. CASE i = k
      <4>1. g[i] = r.line /\ LineBefore(g, i) = q
        BY <1>9, <1>10, <2>2, <2>3, <3>1
      <4> QED  BY <1>5, <1>13, <2>5, <4>1 DEF x
    <3>2. CASE i # k
      <4>1. i \in 1 .. k - 1
        BY <1>1, <3>2
      <4> QED  BY <1>11, <2>2, <2>3, <4>1
    <3> QED  BY <3>1, <3>2
  <2>7. Pending(w, r.line, n, e)
    <3>1. r.line.pos <= n
      BY <1>7
    <3> HIDE DEF n
    <3> QED  BY <1>1, <1>7, <2>1, <2>5, <3>1, FreshPending
  <2>8. Cut(w, d.vd)
    BY <1>1, <1>8, <2>1, <2>2, <2>4, <2>6, <2>7 DEF Cut, g
  <2> QED  BY <1>8, <1>13, <2>8 DEF d
<1> QED  BY <1>12, <1>13

\* A line down carries on, and where there is none, the whole text has none.
LEMMA LineDownCut ==
  ASSUME NEW v, Readable(v), NEW w, Plain(w), Cut(w, v)
  PROVE  LET d == LineDown(v)
         IN  Cut(w, d.vd) /\ (~d.ok /\ v.text = w => AtEnd(w, d.vd.cache))
<1>1. CASE SoundLines(v)
  <2>1. /\ Len(v.cache) \in Nat /\ v.cache # <<>> /\ Fields \subseteq DOMAIN v
    BY <1>1, Numbers DEF SoundLines, LinesSoundIn
  <2>2. CASE v.view_line + 1 < Len(v.cache)
    <3> DEFINE u == [v EXCEPT !.view_line = @ + 1]
    <3>1. LineDown(v) = [ok |-> TRUE, vd |-> u]
      BY <2>2 DEF LineDown
    <3>2. u.text = v.text /\ u.cache = v.cache
      BY <2>1 DEF Fields
    <3> HIDE DEF u
    <3> QED  BY <3>1, <3>2 DEF Cut
  <2>3. CASE ~(v.view_line + 1 < Len(v.cache))
    <3>1. LineDown(v) = ScanLine(v)
      BY <2>1, <2>3 DEF LineDown
    <3> QED  BY <1>1, <3>1, ScanLineCut
  <2> QED  BY <2>2, <2>3
<1>2. CASE Undrawn(v)
  <2> DEFINE u == newCacheLine(v, FirstLine)
  <2>1. /\ LineDown(v) = ScanLine(u) /\ SoundLines(u) /\ u.text = v.text /\ u.cache = <<FirstLine>>
    BY <1>2, FirstLineSound
  <2> HIDE DEF u
  <2>2. Len(u.cache) = 1 /\ u.cache[1] = FirstLine
    BY <2>1
  <2>3. Chain(w, u.cache)
    <3>1. \A i \in 1 .. 1 - 1 : FALSE
      OBVIOUS
    <3> QED  BY <2>2, <3>1 DEF Chain
  <2>4. Pending(w, FirstLine, Len(u.text), FirstLine)
    <3>1. Len(u.text) \in Nat /\ Len(u.text) <= Len(w)
      BY <1>2, <2>1 DEF Undrawn, Texts, Cut, Begins
    <3>2. SameAt(FirstLine, FirstLine) /\ FirstLine.pos <= Len(u.text)
      BY <3>1, FirstThin DEF SameAt
    <3> QED  BY <3>1, <3>2, FirstThin, FreshPending
  <2>5. Cut(w, u)
    <3>1. LineBefore(u.cache, 1) = FirstLine
      BY DEF LineBefore
    <3> QED  BY <2>1, <2>2, <2>3, <2>4, <3>1 DEF Cut
  <2> QED  BY <2>1, <2>5, ScanLineCut
<1> QED  BY <1>1, <1>2 DEF Readable

-----------------------------------------------------------------------------
(* The loops: the walk down to a line, the rows of the screen, the steps of a scroll. *)

WalkStep(w, pos) ==
  IF w.ok /\ (w.vd.cache = <<>> \/ w.vd.cache[w.vd.view_line + 1].pos < pos)
  THEN LineDown(w.vd) ELSE [w EXCEPT !.ok = FALSE]

RowStep(s) == IF s.on /\ s.ypos <= ScrH THEN RenderRow(s) ELSE s

RunStep(s) == IF s.on THEN ScrollStep(s.vd) ELSE s

LoopStep(loop, pos, x) ==
  IF loop = "walk" THEN WalkStep(x, pos) ELSE IF loop = "rows" THEN RowStep(x) ELSE RunStep(x)

\* f is the loop from a on, m steps long.
IsLoop(f, loop, pos, a, m) ==
  f = [k \in 0 .. m |-> IF k = 0 THEN a ELSE LoopStep(loop, pos, f[k - 1])]

\* The values of a loop, step by step.
LEMMA LoopValues ==
  ASSUME NEW f, NEW loop, NEW pos, NEW a, NEW m \in Nat, IsLoop(f, loop, pos, a, m)
  PROVE  f[0] = a /\ \A k \in 1 .. m : f[k] = LoopStep(loop, pos, f[k - 1])
<1>1. ASSUME NEW k \in 0 .. m PROVE f[k] = IF k = 0 THEN a ELSE LoopStep(loop, pos, f[k - 1])
  BY DEF IsLoop
<1> QED  BY <1>1

\* A function with these values is the loop.
LEMMA LoopIs ==
  ASSUME NEW loop, NEW pos, NEW a, NEW m \in Nat, NEW f, f = [k \in 0 .. m |-> f[k]],
         f[0] = a, \A k \in 1 .. m : f[k] = LoopStep(loop, pos, f[k - 1])
  PROVE  IsLoop(f, loop, pos, a, m)
<1>1. ASSUME NEW k \in 0 .. m PROVE f[k] = IF k = 0 THEN a ELSE LoopStep(loop, pos, f[k - 1])
  <2>1. k # 0 => k \in 1 .. m
    OBVIOUS
  <2> QED  BY <2>1
<1> QED  BY <1>1 DEF IsLoop

\* Every loop is defined.
LEMMA LoopExists ==
  ASSUME NEW loop, NEW pos, NEW a, NEW m \in Nat
  PROVE  \E f : IsLoop(f, loop, pos, a, m)
<1> DEFINE K == {j \in Nat : \E f : IsLoop(f, loop, pos, a, j)}
<1>1. 0 \in K
  <2> DEFINE f == [k \in 0 .. 0 |-> a]
  <2>1. f = [k \in 0 .. 0 |-> f[k]] /\ f[0] = a /\ \A k \in 1 .. 0 : FALSE
    OBVIOUS
  <2> HIDE DEF f
  <2>2. IsLoop(f, loop, pos, a, 0)
    BY <2>1, LoopIs
  <2> QED  BY <2>2
<1>2. ASSUME NEW j \in Nat, j \in K PROVE j + 1 \in K
  <2>1. PICK f : IsLoop(f, loop, pos, a, j)
    BY <1>2
  <2>2. f[0] = a /\ \A k \in 1 .. j : f[k] = LoopStep(loop, pos, f[k - 1])
    BY <2>1, LoopValues
  <2> DEFINE x == LoopStep(loop, pos, f[j])
             g == [k \in 0 .. j + 1 |-> IF k = j + 1 THEN x ELSE f[k]]
  <2> HIDE DEF x
  <2>3. g = [k \in 0 .. j + 1 |-> g[k]] /\ g[j + 1] = x /\ \A k \in 0 .. j : g[k] = f[k]
    OBVIOUS
  <2>4. g[0] = a
    BY <2>2, <2>3
  <2> HIDE DEF g
  <2>5. ASSUME NEW k \in 1 .. j + 1 PROVE g[k] = LoopStep(loop, pos, g[k - 1])
    <3>1. k - 1 \in 0 .. j /\ g[k - 1] = f[k - 1]
      <4>1. k - 1 \in 0 .. j
        OBVIOUS
      <4> QED  BY <2>3, <4>1
    <3>2. CASE k = j + 1
      <4>1. k - 1 = j
        BY <3>2
      <4> QED  BY <2>3, <3>1, <3>2, <4>1 DEF x
    <3>3. CASE k # j + 1
      <4>1. k \in 1 .. j /\ k \in 0 .. j
        BY <3>3
      <4> QED  BY <2>2, <2>3, <3>1, <4>1
    <3> QED  BY <3>2, <3>3
  <2>6. j + 1 \in Nat
    OBVIOUS
  <2>7. IsLoop(g, loop, pos, a, j + 1)
    BY <2>3, <2>4, <2>5, <2>6, LoopIs
  <2> QED  BY <2>6, <2>7
<1>3. \A k \in Nat : k \in K
  <2> HIDE DEF K
  <2> QED  BY <1>1, <1>2, Induction
<1> QED  BY <1>3

LEMMA CarriesSame ==
  ASSUME NEW v, NEW w, w.text = v.text, w.cache = v.cache
  PROVE  Carries(v, w)
BY DEF Carries, Cut

LEMMA CarriesOn ==
  ASSUME NEW u, NEW v, NEW w, Carries(u, v), Carries(v, w)
  PROVE  Carries(u, w)
BY DEF Carries

\* w is a view of the same text, further down.
Down(v, w) ==
  /\ SoundLines(w) /\ w.text = v.text /\ Carries(v, w)
  /\ w.view_line \in Nat /\ v.view_line \in Nat /\ w.view_line >= v.view_line

\* A line down is down.
LEMMA OneIsDown ==
  ASSUME NEW v, Readable(v)
  PROVE  Down(v, LineDown(v).vd) /\ LineDown(v).ok \in BOOLEAN
<1>1. OneDown(v, LineDown(v))
  BY LineDownSound
<1>2. v.view_line \in Nat
  BY Numbers DEF Readable, Undrawn
<1>3. Carries(v, LineDown(v).vd)
  BY LineDownCut DEF Carries
<1> QED  BY <1>1, <1>2, <1>3 DEF OneDown, Down

LEMMA DownDown ==
  ASSUME NEW u, NEW v, NEW w, Down(u, v), Down(v, w)
  PROVE  Down(u, w)
<1>1. Carries(u, w)
  BY CarriesOn DEF Down
<1> QED  BY <1>1 DEF Down

LEMMA SoundIsDown ==
  ASSUME NEW v, SoundLines(v)
  PROVE  Down(v, v) /\ Readable(v)
BY Numbers, CarriesSame DEF Down, Readable

\* The text and the lines are of some length.
LEMMA ReadyNumbers ==
  ASSUME NEW v, Readable(v)
  PROVE  Len(v.text) \in Nat /\ Len(v.cache) \in Nat /\ v.view_line \in Nat
<1>1. CASE SoundLines(v) BY <1>1, Numbers
<1>2. CASE Undrawn(v)
  <2>1. Len(v.text) \in Nat /\ v.cache = <<>> /\ v.view_line = 0
    BY <1>2 DEF Undrawn, Texts
  <2> QED  BY <2>1
<1> QED  BY <1>1, <1>2 DEF Readable

LEMMA LineUpSound ==
  ASSUME NEW v, SoundLines(v)
  PROVE  SoundLines(LineUp(v)) /\ LineUp(v).text = v.text /\ Carries(v, LineUp(v))
<1>1. v.view_line \in 0 .. Len(v.cache) - 1 /\ Len(v.cache) \in Nat /\ Fields \subseteq DOMAIN v
  BY Numbers DEF SoundLines
<1>2. v.view_line > 0 => v.view_line - 1 \in 0 .. Len(v.cache) - 1
  BY <1>1
<1>3. LineUp(v).text = v.text /\ LineUp(v).cache = v.cache
  BY <1>1 DEF LineUp, Fields
<1> QED  BY <1>1, <1>2, <1>3, AtLine, CarriesSame DEF LineUp

\* The walk down to a line.
LEMMA WalkSound ==
  ASSUME NEW v, Readable(v), NEW pos
  PROVE  Down(v, LinesDownTo(v, pos))
<1> DEFINE most == Len(v.text) + Len(v.cache) + 2
           a == [ok |-> TRUE, vd |-> v]
           h == CHOOSE f : IsLoop(f, "walk", pos, a, most)
           good(w) == {"ok", "vd"} \subseteq DOMAIN w /\ Down(v, w.vd) /\ w.ok \in BOOLEAN
<1>1. most \in Nat /\ most >= 2
  <2> DEFINE m == Len(v.text)
             n == Len(v.cache)
  <2>1. m \in Nat /\ n \in Nat
    BY ReadyNumbers
  <2> HIDE DEF m, n
  <2>2. m + n + 2 \in Nat /\ m + n + 2 >= 2
    BY <2>1
  <2> QED  BY <2>2 DEF m, n
<1>2. IsLoop(h, "walk", pos, a, most)
  <2>1. \E f : IsLoop(f, "walk", pos, a, most)
    <3> HIDE DEF most, a
    <3> QED  BY <1>1, LoopExists
  <2> QED  BY <2>1
<1>3. LinesDownTo(v, pos) = h[most].vd
  BY DEF LinesDownTo, IsLoop, LoopStep, WalkStep
<1> HIDE DEF h, most
<1>4. h[0] = a /\ \A k \in 1 .. most : h[k] = WalkStep(h[k - 1], pos)
  <2> HIDE DEF a
  <2>1. h[0] = a /\ \A k \in 1 .. most : h[k] = LoopStep("walk", pos, h[k - 1])
    BY <1>1, <1>2, LoopValues
  <2> QED  BY <2>1 DEF LoopStep
<1>5. ASSUME NEW w, good(w) PROVE good(WalkStep(w, pos))
  <2> DEFINE d == LineDown(w.vd)
  <2>1. Readable(w.vd)
    BY <1>5, SoundIsDown DEF Down
  <2>2. Down(v, d.vd) /\ d.ok \in BOOLEAN
    <3>1. Down(w.vd, d.vd) /\ d.ok \in BOOLEAN
      BY <2>1, OneIsDown
    <3> HIDE DEF d
    <3> QED  BY <1>5, <3>1, DownDown
  <2>3. {"ok", "vd"} \subseteq DOMAIN d
    BY DEF LineDown, ScanLine, KeepLine
  <2> DEFINE e == [w EXCEPT !.ok = FALSE]
  <2>4. good(e)
    <3>1. e.ok = FALSE /\ e.vd = w.vd /\ {"ok", "vd"} \subseteq DOMAIN e
      BY <1>5
    <3> HIDE DEF e
    <3> QED  BY <1>5, <3>1
  <2>5. good(d)
    BY <2>2, <2>3
  <2>6. WalkStep(w, pos) = d \/ WalkStep(w, pos) = e
    BY DEF WalkStep
  <2> HIDE DEF d, e, good
  <2> QED  BY <2>4, <2>5, <2>6
<1>6. 1 \in 1 .. most /\ good(h[1])
  <2>1. 1 \in 1 .. most /\ 1 - 1 = 0
    BY <1>1
  <2>2. h[1] = WalkStep(a, pos)
    BY <1>4, <2>1
  <2>3. CASE SoundLines(v)
    <3>1. good(a)
      BY <2>3, SoundIsDown
    <3> HIDE DEF a
    <3> QED  BY <1>5, <2>1, <2>2, <3>1
  <2>4. CASE Undrawn(v)
    <3> DEFINE d == LineDown(v)
    <3>1. h[1] = d
      BY <2>2, <2>4 DEF WalkStep, Undrawn
    <3>2. {"ok", "vd"} \subseteq DOMAIN d
      BY DEF LineDown, ScanLine, KeepLine
    <3>3. Down(v, d.vd) /\ d.ok \in BOOLEAN
      BY OneIsDown
    <3> HIDE DEF d
    <3> QED  BY <2>1, <3>1, <3>2, <3>3
  <2> QED  BY <2>3, <2>4 DEF Readable
<1> DEFINE K == {k \in 1 .. most : good(h[k])}
<1>7. \A k \in 1 .. most : k \in K
  <2> HIDE DEF good
  <2>1. ASSUME NEW k \in 1 + 1 .. most, k - 1 \in K PROVE k \in K
    <3>1. k \in 1 .. most
      BY <1>1
    <3>2. h[k] = WalkStep(h[k - 1], pos)
      BY <1>4, <3>1
    <3> QED  BY <1>5, <2>1, <3>1, <3>2
  <2>2. 1 \in K
    BY <1>6
  <2> HIDE DEF K
  <2> QED  BY <1>1, <2>1, <2>2, InductionOn
<1>8. good(h[most])
  <2>1. most \in 1 .. most
    BY <1>1
  <2> HIDE DEF good
  <2> QED  BY <1>7, <2>1
<1> QED  BY <1>3, <1>8

\* w is a view of the same text with sound lines.
Kept(v, w) == SoundLines(w) /\ w.text = v.text /\ Carries(v, w)

\* What may be drawn: a page with lines, or a new one at its top.
Drawable(v) == SoundLines(v) \/ (Undrawn(v) /\ v.pixdisp = 0)

LEMMA RefsSame ==
  ASSUME NEW v, Fields \subseteq DOMAIN v, NEW refs
  PROVE  SameLines(v, RefsRoundCursor(v, refs))
BY DEF SameLines, RefsRoundCursor, Fields

\* A row takes the view a line down or leaves it.
LEMMA RowDown ==
  ASSUME NEW s, "vd" \in DOMAIN s, Readable(s.vd)
  PROVE  LET n == RenderRow(s)
         IN  /\ "vd" \in DOMAIN n
             /\ Down(s.vd, n.vd) \/ (s.lcheck # 0 /\ n.vd = s.vd)
<1> DEFINE r == IF s.lcheck = 0 THEN LineDown(s.vd) ELSE [ok |-> FALSE, vd |-> s.vd]
           n == RenderLine(s, r)
<1>1. RenderRow(s) = n
  BY DEF RenderRow
<1>2. Down(s.vd, r.vd) \/ (s.lcheck # 0 /\ r.vd = s.vd)
  BY OneIsDown
<1>3. s.lcheck = 0 => ~((IF r.ok THEN 0 ELSE s.lcheck + 1) > 1)
  OBVIOUS
<1> HIDE DEF r
<1>4. "vd" \in DOMAIN n /\ (n.vd = r.vd \/ (s.lcheck # 0 /\ n.vd = s.vd))
  BY <1>3 DEF RenderLine
<1> HIDE DEF n
<1> QED  BY <1>1, <1>2, <1>4

\* The lines that are put on the screen are sound, and the view stays at its line.
LEMMA RenderSound ==
  ASSUME NEW v, Drawable(v), NEW draw
  PROVE  /\ Kept(v, RenderPage(v, draw).vd)
         /\ RenderPage(v, draw).vd.view_line = v.view_line
<1> DEFINE most == Len(v.text) + Len(v.cache) + 3
           a == RenderStart(v)
           h == CHOOSE f : IsLoop(f, "rows", 0, a, most)
           good(s) == "vd" \in DOMAIN s /\ Down(v, s.vd)
           e == h[most]
           w == RenderPage(v, draw).vd
<1>1. most \in Nat /\ most >= 3
  <2> DEFINE m == Len(v.text)
             n == Len(v.cache)
  <2>1. m \in Nat /\ n \in Nat
    BY ReadyNumbers DEF Drawable, Readable
  <2> HIDE DEF m, n
  <2>2. m + n + 3 \in Nat /\ m + n + 3 >= 3
    BY <2>1
  <2> QED  BY <2>2 DEF m, n
<1>2. IsLoop(h, "rows", 0, a, most)
  <2>1. \E f : IsLoop(f, "rows", 0, a, most)
    <3> HIDE DEF most, a
    <3> QED  BY <1>1, LoopExists
  <2> QED  BY <2>1
<1>3. w = Rendered(v, draw, e).vd
  BY DEF RenderPage, IsLoop, LoopStep, RowStep
<1> HIDE DEF h, most, w
<1>4. h[0] = a /\ \A k \in 1 .. most : h[k] = RowStep(h[k - 1])
  <2> HIDE DEF a
  <2>1. h[0] = a /\ \A k \in 1 .. most : h[k] = LoopStep("rows", 0, h[k - 1])
    BY <1>1, <1>2, LoopValues
  <2> QED  BY <2>1 DEF LoopStep
<1>5. ASSUME NEW s, good(s) PROVE good(RowStep(s))
  <2> DEFINE n == RenderRow(s)
  <2>1. Readable(s.vd)
    BY <1>5, SoundIsDown DEF Down
  <2>2. "vd" \in DOMAIN n /\ (Down(s.vd, n.vd) \/ n.vd = s.vd)
    BY <1>5, <2>1, RowDown
  <2> HIDE DEF n
  <2>3. good(n)
    BY <1>5, <2>2, DownDown
  <2> HIDE DEF good
  <2> QED  BY <1>5, <2>3 DEF RowStep, n
<1>6. 1 \in 1 .. most /\ good(h[1])
  <2>1. 1 \in 1 .. most /\ 1 - 1 = 0
    BY <1>1
  <2>2. h[1] = RowStep(a)
    BY <1>4, <2>1
  <2>3. a.vd = v /\ "vd" \in DOMAIN a /\ a.lcheck = 0 /\ a.on = TRUE /\ a.ypos = -v.pixdisp
    BY DEF RenderStart
  <2>4. CASE SoundLines(v)
    <3>1. good(a)
      BY <2>3, <2>4, SoundIsDown
    <3> HIDE DEF a, good
    <3> QED  BY <1>5, <2>1, <2>2, <3>1
  <2>5. CASE Undrawn(v) /\ v.pixdisp = 0
    <3> DEFINE n == RenderRow(a)
    <3>1. a.on /\ a.ypos <= ScrH
      BY <2>3, <2>5, ScreenAssumption
    <3>2. h[1] = n
      BY <2>2, <3>1 DEF RowStep
    <3>3. "vd" \in DOMAIN n /\ Down(v, n.vd)
      <4>1. Readable(a.vd)
        BY <2>3, <2>5 DEF Readable
      <4> HIDE DEF a
      <4> QED  BY <2>3, <4>1, RowDown
    <3> HIDE DEF n
    <3> QED  BY <2>1, <3>2, <3>3
  <2> QED  BY <2>4, <2>5 DEF Drawable
<1> DEFINE K == {k \in 1 .. most : good(h[k])}
<1>7. \A k \in 1 .. most : k \in K
  <2> HIDE DEF good
  <2>1. ASSUME NEW k \in 1 + 1 .. most, k - 1 \in K PROVE k \in K
    <3>1. k \in 1 .. most
      BY <1>1
    <3>2. h[k] = RowStep(h[k - 1])
      BY <1>4, <3>1
    <3> QED  BY <1>5, <2>1, <3>1, <3>2
  <2>2. 1 \in K
    BY <1>6
  <2> HIDE DEF K
  <2> QED  BY <1>1, <2>1, <2>2, InductionOn
<1>8. Down(v, e.vd)
  <2>1. most \in 1 .. most
    BY <1>1
  <2>2. good(e)
    <3> HIDE DEF good
    <3> QED  BY <1>7, <2>1
  <2> QED  BY <2>2
<1> HIDE DEF e
<1> DEFINE u == [e.vd EXCEPT !.view_line = v.view_line]
           x == [u EXCEPT !.found = IF draw THEN @ ELSE NONE]
<1>9. w = RefsRoundCursor(x, e.refs)
  BY <1>3 DEF Rendered
<1>10. SoundLines(u) /\ u.text = v.text /\ u.view_line = v.view_line /\ Carries(v, u)
  <2>1. SoundLines(e.vd) /\ e.vd.text = v.text /\ v.view_line \in 0 .. Len(e.vd.cache) - 1
    <3>1. SoundLines(e.vd) /\ e.vd.text = v.text /\ e.vd.view_line >= v.view_line /\ v.view_line \in Nat
      BY <1>8 DEF Down
    <3>2. Len(e.vd.cache) \in Nat /\ e.vd.view_line < Len(e.vd.cache) /\ e.vd.view_line \in Nat
      BY <3>1, Numbers
    <3> QED  BY <3>1, <3>2
  <2>2. SoundLines(u)
    BY <2>1, AtLine
  <2>3. u.text = e.vd.text /\ u.view_line = v.view_line /\ u.cache = e.vd.cache
    BY <2>1 DEF SoundLines, Fields
  <2>4. Carries(v, u)
    <3> HIDE DEF u
    <3> QED  BY <1>8, <2>3, CarriesSame, CarriesOn DEF Down
  <2> QED  BY <2>1, <2>2, <2>3, <2>4
<1> HIDE DEF u
<1>11. SameLines(u, x) /\ SameLines(x, w)
  <2>1. Fields \subseteq DOMAIN u
    BY <1>10 DEF SoundLines
  <2>2. SameLines(u, x)
    BY <2>1, OtherFieldSame DEF Fields
  <2>3. Fields \subseteq DOMAIN x
    BY <2>2 DEF SameLines
  <2> HIDE DEF x
  <2> QED  BY <1>9, <2>2, <2>3, RefsSame
<1> HIDE DEF x
<1>12. SoundLines(w) /\ w.text = v.text /\ w.view_line = v.view_line /\ Carries(v, w)
  <2>1. SoundLines(x)
    BY <1>10, <1>11, SameLinesSound
  <2>2. SoundLines(w)
    BY <1>11, <2>1, SameLinesSound
  <2>3. Carries(u, x) /\ Carries(x, w)
    BY <1>11, CarriesSame DEF SameLines, Fields
  <2>4. Carries(v, w)
    BY <1>10, <2>3, CarriesOn
  <2> QED  BY <1>10, <1>11, <2>2, <2>4 DEF SameLines, Fields
<1> QED  BY <1>12 DEF Kept, w

-----------------------------------------------------------------------------
(* Scrolling and jumps.                                                      *)

LEMMA KeptKept ==
  ASSUME NEW u, NEW v, NEW w, Kept(u, v), Kept(v, w)
  PROVE  Kept(u, w)
<1>1. Carries(u, w)
  BY CarriesOn DEF Kept
<1> QED  BY <1>1 DEF Kept

LEMMA KeptSelf ==
  ASSUME NEW v, SoundLines(v)
  PROVE  Kept(v, v)
BY CarriesSame DEF Kept

LEMMA LineUpKept ==
  ASSUME NEW u, NEW v, Kept(u, v)
  PROVE  Kept(u, LineUp(v))
<1>1. Kept(v, LineUp(v))
  BY LineUpSound DEF Kept
<1> QED  BY <1>1, KeptKept

LEMMA LineDownKept ==
  ASSUME NEW u, NEW v, Kept(u, v)
  PROVE  Kept(u, LineDown(v).vd)
<1>1. Kept(v, LineDown(v).vd)
  BY OneIsDown DEF Readable, Down, Kept
<1> QED  BY <1>1, KeptKept

LEMMA WalkKept ==
  ASSUME NEW u, NEW v, Kept(u, v), NEW pos
  PROVE  Kept(u, LinesDownTo(v, pos))
<1>1. Kept(v, LinesDownTo(v, pos))
  BY WalkSound DEF Readable, Down, Kept
<1> QED  BY <1>1, KeptKept

LEMMA SameKept ==
  ASSUME NEW v, SoundLines(v), NEW w, SameLines(v, w)
  PROVE  Kept(v, w)
<1>1. Carries(v, w)
  BY CarriesSame DEF SameLines, Fields
<1> QED  BY <1>1, SameLinesSound DEF Kept, SameLines, Fields

LEMMA FieldKept ==
  ASSUME NEW v, SoundLines(v), NEW f, f \notin Fields, NEW x
  PROVE  Kept(v, [v EXCEPT ![f] = x])
<1>1. SameLines(v, [v EXCEPT ![f] = x])
  BY OtherFieldSame DEF SoundLines
<1> DEFINE w == [v EXCEPT ![f] = x]
<1> HIDE DEF w
<1> QED  BY <1>1, SameKept DEF w

\* A line of the page on top, and another part of it.
MovedTo(v, n, x) == [v EXCEPT !.view_line = n, !.pixdisp = x]
TopAt(v, n) == [v EXCEPT !.view_line = n]

LEMMA MovedKept ==
  ASSUME NEW v, SoundLines(v), NEW n \in 0 .. v.view_line, NEW x
  PROVE  Kept(v, MovedTo(v, n, x)) /\ Kept(v, TopAt(v, n))
<1> DEFINE u == [v EXCEPT !.view_line = n]
           w == [v EXCEPT !.view_line = n, !.pixdisp = x]
<1>1. n \in 0 .. Len(v.cache) - 1 /\ Fields \subseteq DOMAIN v
  BY Numbers DEF SoundLines
<1>2. SoundLines(u) /\ u.text = v.text /\ u.cache = v.cache
  BY <1>1, AtLine DEF Fields
<1>3. SameLines(u, w)
  BY <1>1 DEF SameLines, Fields
<1> HIDE DEF u, w
<1>4. Kept(v, u) /\ Kept(u, w)
  BY <1>2, <1>3, SameKept, CarriesSame DEF Kept
<1>5. Kept(v, w)
  BY <1>4, KeptKept
<1> QED  BY <1>4, <1>5 DEF u, w, MovedTo, TopAt

LEMMA ScrollUpKept ==
  ASSUME NEW v, SoundLines(v), NEW amount
  PROVE  Kept(v, scrollUp(v, amount))
<1>1. v.view_line \in Nat
  BY Numbers
<1>2. PICK S : /\ S \in SUBSET (0 .. v.view_line)
               /\ \/ scrollUp(v, amount) = MovedTo(v, 0, 0)
                  \/ S # {} /\ \E x : scrollUp(v, amount) =
                                       MovedTo(v, v.view_line - Min(S), x)
  <2> DEFINE above == CHOOSE f : f = [n \in 0 .. v.view_line |->
                        IF n = 0 THEN 0 ELSE f[n - 1] + v.cache[v.view_line - n + 1].pixheight]
             S == {n \in 0 .. v.view_line : v.pixdisp + above[n] >= amount}
             w == scrollUp(v, amount)
             x == v.pixdisp + above[Min(S)] - amount
  <2>1. w = IF S = {} THEN MovedTo(v, 0, 0)
            ELSE MovedTo(v, v.view_line - Min(S), x)
    BY DEF scrollUp, MovedTo
  <2>2. S \in SUBSET (0 .. v.view_line)
    OBVIOUS
  <2> HIDE DEF S, above, w, x
  <2> QED  BY <2>1, <2>2 DEF w
<1>3. CASE scrollUp(v, amount) = MovedTo(v, 0, 0)
  <2>1. 0 \in 0 .. v.view_line
    BY <1>1
  <2> QED  BY <1>3, <2>1, MovedKept
<1>4. ASSUME S # {}, NEW x, scrollUp(v, amount) =
               MovedTo(v, v.view_line - Min(S), x)
      PROVE  Kept(v, scrollUp(v, amount))
  <2>1. S \in SUBSET Nat
    <3>1. \A y \in 0 .. v.view_line : y \in Nat
      BY <1>1
    <3> QED  BY <1>2, <3>1
  <2>2. Min(S) \in S
    BY <1>4, <2>1, MinOfNats
  <2>3. v.view_line - Min(S) \in 0 .. v.view_line
    <3> DEFINE m == Min(S)
    <3>1. m \in 0 .. v.view_line
      BY <1>2, <2>2
    <3> HIDE DEF m
    <3>2. v.view_line - m \in 0 .. v.view_line
      BY <1>1, <3>1
    <3> QED  BY <3>2 DEF m
  <2> QED  BY <1>4, <2>3, MovedKept
<1> QED  BY <1>2, <1>3, <1>4

LEMMA ToEndKept ==
  ASSUME NEW v, SoundLines(v)
  PROVE  Kept(v, scrollToEnd(v))
<1> DEFINE e == LinesDownToEnd(v)
           x == Last(e.cache).pixheight
           u == [e EXCEPT !.pixdisp = x]
<1>1. Kept(v, e)
  BY WalkSound DEF LinesDownToEnd, Readable, Down, Kept
<1> HIDE DEF e
<1>2. Kept(e, u)
  <2> HIDE DEF x
  <2> QED  BY <1>1, FieldKept DEF Kept, Fields
<1>3. scrollToEnd(v) = scrollUp(u, ScrH)
  BY DEF scrollToEnd, LastLineUp, e
<1> HIDE DEF u
<1>4. Kept(u, scrollUp(u, ScrH))
  BY <1>2, ScrollUpKept DEF Kept
<1> QED  BY <1>1, <1>2, <1>3, <1>4, KeptKept

LEMMA RenderKept ==
  ASSUME NEW v, SoundLines(v), NEW draw
  PROVE  Kept(v, RenderPage(v, draw).vd)
BY RenderSound DEF Drawable

\* A step of a scroll.
LEMMA StepKept ==
  ASSUME NEW v, SoundLines(v)
  PROVE  Kept(v, ScrollStep(v).vd)
<1>1. ASSUME NEW u, Kept(v, u), NEW part
      PROVE  LET r == RenderPage(u, FALSE)
             IN  Kept(v, ScrollWithin(r).vd) /\ Kept(v, ScrollOn(r, part).vd)
  <2> DEFINE r == RenderPage(u, FALSE)
             y == [r.vd EXCEPT !.pixdisp = part]
             z == scrollToEnd(r.vd)
  <2>1. Kept(u, r.vd)
    BY <1>1, RenderKept DEF Kept
  <2> HIDE DEF r
  <2>2. Kept(r.vd, y) /\ Kept(r.vd, z)
    BY <2>1, FieldKept, ToEndKept DEF Kept, Fields
  <2>3. ScrollWithin(r).vd \in {r.vd, z} /\ ScrollOn(r, part).vd \in {y, z}
    BY DEF ScrollWithin, ScrollOn
  <2> HIDE DEF y, z
  <2>4. Kept(v, r.vd) /\ Kept(v, y) /\ Kept(v, z)
    BY <1>1, <2>1, <2>2, KeptKept
  <2>5. Kept(v, ScrollWithin(r).vd) /\ Kept(v, ScrollOn(r, part).vd)
    BY <2>3, <2>4
  <2> QED  BY <2>5 DEF r
<1> DEFINE d == LineDown(v).vd
           u == [d EXCEPT !.pixdisp = 0]
           part == v.pixdisp - v.cache[v.view_line + 1].pixheight
<1>2. Kept(v, v) /\ Kept(v, u)
  <2>1. Kept(v, d)
    BY OneIsDown DEF Readable, Down, Kept
  <2> HIDE DEF d
  <2>2. Kept(d, u)
    BY <2>1, FieldKept DEF Kept, Fields
  <2> HIDE DEF u
  <2> QED  BY <2>1, <2>2, KeptKept, KeptSelf
<1>3. \/ ScrollStep(v) = ScrollWithin(RenderPage(v, FALSE))
      \/ ScrollStep(v) = ScrollOn(RenderPage(u, FALSE), part)
  BY DEF ScrollStep
<1> HIDE DEF u, part
<1> QED  BY <1>1, <1>2, <1>3

LEMMA ScrollDownKept ==
  ASSUME NEW v, SoundLines(v), NEW amount
  PROVE  Kept(v, scrollDown(v, amount))
<1> DEFINE r == RenderPage(v, FALSE)
           most == Len(r.vd.text) + 2
           y == r.vd.pixdisp + amount
           b == [r.vd EXCEPT !.pixdisp = y]
           a == [on |-> TRUE, vd |-> b]
           h == CHOOSE f : IsLoop(f, "run", 0, a, most)
           w == scrollDown(v, amount)
           e == h[most]
           good(s) == Kept(v, s.vd)
<1>1. Kept(v, r.vd)
  BY RenderKept
<1>2. w = IF r.more THEN e.vd ELSE r.vd
  BY DEF scrollDown, ScrollFrom, IsLoop, LoopStep, RunStep
<1> HIDE DEF r, w
<1>3. most \in Nat
  <2> DEFINE n == Len(r.vd.text)
  <2>1. n \in Nat
    BY <1>1, Numbers DEF Kept
  <2> HIDE DEF n
  <2>2. n + 2 \in Nat
    BY <2>1
  <2> QED  BY <2>2 DEF n
<1> HIDE DEF most
<1>4. a.vd = b /\ Kept(v, b)
  <2>1. Kept(r.vd, b)
    <3> HIDE DEF y
    <3> QED  BY <1>1, FieldKept DEF Kept, Fields
  <2>2. a.vd = b
    OBVIOUS
  <2> HIDE DEF b
  <2> QED  BY <1>1, <2>1, <2>2, KeptKept
<1> HIDE DEF a, b
<1>5. IsLoop(h, "run", 0, a, most)
  <2>1. \E f : IsLoop(f, "run", 0, a, most)
    BY <1>3, LoopExists
  <2> QED  BY <2>1
<1> HIDE DEF h
<1>6. h[0] = a /\ \A k \in 1 .. most : h[k] = RunStep(h[k - 1])
  <2>1. h[0] = a /\ \A k \in 1 .. most : h[k] = LoopStep("run", 0, h[k - 1])
    BY <1>3, <1>5, LoopValues
  <2> QED  BY <2>1 DEF LoopStep
<1>7. ASSUME NEW s, good(s) PROVE good(RunStep(s))
  <2>1. Kept(s.vd, ScrollStep(s.vd).vd)
    BY <1>7, StepKept DEF Kept
  <2> DEFINE n == ScrollStep(s.vd)
  <2>2. RunStep(s) = s \/ RunStep(s) = n
    BY DEF RunStep
  <2> HIDE DEF n
  <2>3. Kept(v, n.vd)
    BY <1>7, <2>1, KeptKept DEF n
  <2> QED  BY <1>7, <2>2, <2>3
<1> DEFINE K == {k \in 0 .. most : good(h[k])}
<1>8. \A k \in 0 .. most : k \in K
  <2>0. 0 \in K
    BY <1>3, <1>4, <1>6
  <2> HIDE DEF good
  <2>1. ASSUME NEW k \in 0 + 1 .. most, k - 1 \in K PROVE k \in K
    <3>1. k \in 1 .. most /\ k \in 0 .. most
      BY <1>3
    <3>2. h[k] = RunStep(h[k - 1])
      BY <1>6, <3>1
    <3> QED  BY <1>7, <2>1, <3>1, <3>2
  <2> HIDE DEF K
  <2> QED  BY <1>3, <2>0, <2>1, InductionOn
<1>9. Kept(v, e.vd)
  <2>1. most \in 0 .. most
    BY <1>3
  <2> QED  BY <1>8, <2>1
<1> HIDE DEF e
<1> QED  BY <1>1, <1>2, <1>9 DEF w

LEMMA JumpKept ==
  ASSUME NEW v, SoundLines(v), NEW id2
  PROVE  Kept(v, GoToLocalLinkPos(v, id2))
<1> DEFINE above == {a \in 0 .. v.view_line : v.cache[a + 1].pos >= id2}
           d == LineDown(v)
           f == LinesDownTo(d.vd, id2)
           g == IF f.cache[f.view_line + 1].pos >= id2 THEN LineUp(f) ELSE f
           w == GoToLocalLinkPos(v, id2)
<1>1. w = IF above # {} THEN TopAt(v, Min(above))
          ELSE IF d.ok THEN LineUp(g) ELSE d.vd
  BY DEF GoToLocalLinkPos, TopAt
<1>2. above # {} => Min(above) \in 0 .. v.view_line
  <2>1. above \in SUBSET Nat /\ above \in SUBSET (0 .. v.view_line)
    OBVIOUS
  <2> HIDE DEF above
  <2> QED  BY <2>1, MinOfNats
<1>3. Kept(v, d.vd)
  BY OneIsDown DEF Readable, Down, Kept
<1> HIDE DEF above, d, w
<1>4. Kept(v, f)
  BY <1>3, WalkKept
<1> HIDE DEF f
<1>5. Kept(v, g)
  BY <1>4, LineUpKept
<1> HIDE DEF g
<1>6. Kept(v, LineUp(g))
  BY <1>5, LineUpKept
<1>7. above # {} => Kept(v, TopAt(v, Min(above)))
  BY <1>2, MovedKept
<1> QED  BY <1>1, <1>3, <1>6, <1>7 DEF w

LEMMA SearchKept ==
  ASSUME NEW v, SoundLines(v), NEW s
  PROVE  Kept(v, FindStringOnPage(v, s))
<1> DEFINE d == LineDown(v)
           i == MatchBelow(d.vd, s)
           u == [d.vd EXCEPT !.found = i]
           e == LineDown(u)
           f == LinesDownTo(e.vd, i)
           moved == IF i = Len(d.vd.text) THEN d.vd ELSE IF e.ok THEN f ELSE e.vd
           w == FindStringOnPage(v, s)
<1>1. w = IF d.ok THEN LineUp(moved) ELSE moved
  BY DEF FindStringOnPage, ShowMatch
<1>2. Kept(v, d.vd)
  BY OneIsDown DEF Readable, Down, Kept
<1> HIDE DEF d, i, w
<1>3. Kept(v, u)
  <2>1. Kept(d.vd, u)
    BY <1>2, FieldKept DEF Kept, Fields
  <2> HIDE DEF u
  <2> QED  BY <1>2, <2>1, KeptKept
<1> HIDE DEF u
<1>4. Kept(v, e.vd)
  BY <1>3, LineDownKept
<1> HIDE DEF e
<1>5. Kept(v, f)
  BY <1>4, WalkKept
<1> HIDE DEF f
<1>6. Kept(v, moved)
  BY <1>2, <1>4, <1>5
<1> HIDE DEF moved
<1>7. Kept(v, LineUp(moved))
  BY <1>6, LineUpKept
<1> QED  BY <1>1, <1>6, <1>7 DEF w

-----------------------------------------------------------------------------
(* The text.                                                                 *)

LEMMA EmptyText == <<>> \in Texts
<1>1. <<>> \in Seq(Symbol) /\ DOMAIN <<>> = {}
  OBVIOUS
<1> QED  BY <1>1 DEF Texts, IsText, WordsFollow

\* A text behind a text is a text.
LEMMA TextsJoin ==
  ASSUME NEW t \in Texts, NEW u \in Texts
  PROVE  t \o u \in Texts /\ Len(t) <= Len(t \o u)
<1> DEFINE w == t \o u
           m == Len(t)
           n == Len(u)
<1>1. /\ t \in Seq(Symbol) /\ u \in Seq(Symbol) /\ m \in Nat /\ n \in Nat
      /\ DOMAIN t = 1 .. m /\ DOMAIN u = 1 .. n
  BY DEF Texts
<1>2. /\ w \in Seq(Symbol) /\ Len(w) = m + n /\ DOMAIN w = 1 .. m + n
      /\ \A i \in 1 .. m : w[i] = t[i]
      /\ \A i \in 1 .. n : w[m + i] = u[i]
  BY <1>1
<1>3. WordsFollow(t) /\ WordsFollow(u) /\ (\A i \in 1 .. m : Fits(t[i])) /\ \A i \in 1 .. n : Fits(u[i])
  BY <1>1 DEF Texts, IsText
<1> HIDE DEF w, m, n
<1>4. ASSUME NEW i \in m + 1 .. m + n
      PROVE  i - m \in 1 .. n /\ w[i] = u[i - m]
  <2>1. i - m \in 1 .. n /\ m + (i - m) = i
    BY <1>1
  <2> QED  BY <1>2, <2>1
<1>5. \A i \in 1 .. m + n : i \in 1 .. m \/ i \in m + 1 .. m + n
  BY <1>1
<1>6. ASSUME NEW i \in 1 .. m + n PROVE Fits(w[i])
  BY <1>2, <1>3, <1>4, <1>5
<1>7. \A k \in DOMAIN Operands : Operands[k] \in Nat
  BY DEF Operands
<1>8. ASSUME NEW i \in 1 .. m + n, w[i].k \in DOMAIN Operands, NEW d \in 1 .. Operands[w[i].k]
      PROVE  i + d \in 1 .. m + n /\ w[i + d].k = "word"
  <2>1. d \in Nat
    BY <1>7, <1>8
  <2>2. CASE i \in 1 .. m
    <3>1. w[i] = t[i]
      BY <1>2, <2>2
    <3>2. i + d \in 1 .. m /\ t[i + d].k = "word"
      BY <1>1, <1>3, <1>8, <2>2, <3>1 DEF WordsFollow
    <3> QED  BY <1>1, <1>2, <3>2
  <2>3. CASE i \in m + 1 .. m + n
    <3> DEFINE j == i - m
    <3>1. j \in 1 .. n /\ w[i] = u[j]
      BY <1>4, <2>3
    <3> HIDE DEF j
    <3>2. j + d \in 1 .. n /\ u[j + d].k = "word"
      BY <1>1, <1>3, <1>8, <3>1 DEF WordsFollow
    <3>3. m + (j + d) = i + d /\ i + d \in 1 .. m + n
      <4>1. i = m + j
        BY <1>1, <2>3 DEF j
      <4> QED  BY <1>1, <2>1, <3>1, <3>2, <4>1
    <3>4. w[m + (j + d)] = u[j + d]
      BY <1>2, <3>2
    <3> QED  BY <3>2, <3>3, <3>4
  <2> QED  BY <1>5, <2>2, <2>3
<1>9. WordsFollow(w)
  BY <1>2, <1>8 DEF WordsFollow
<1>10. w \in Texts /\ m <= Len(w)
  BY <1>1, <1>2, <1>6, <1>9 DEF Texts, IsText
<1> QED  BY <1>10 DEF w, m

\* The groups of s one after another: f[i] is the text up to group i.
Grows(f, s) ==
  /\ f \in [1 .. Len(s) -> Texts] /\ f[1] = s[1]
  /\ \A i \in 2 .. Len(s) : f[i] = f[i - 1] \o s[i]

LEMMA GroupsGrow ==
  ASSUME NEW s \in Seq(Texts), s # <<>>
  PROVE  \E f : Grows(f, s) /\ FlattenSeq(s) = f[Len(s)]
<1> DEFINE n == Len(s)
           G == [x \in Texts \X (1 .. n) |-> x[1] \o s[x[2]]]
           IsFlat(f) == f = [i \in 1 .. n |-> IF i = 1 THEN s[i] ELSE f[i - 1] \o s[i]]
           h == CHOOSE f : IsFlat(f)
<1>1. n \in Nat /\ \A i \in 1 .. n : s[i] \in Texts
  OBVIOUS
<1>2. FlattenSeq(s) = IF n = 0 THEN s ELSE h[n]
  BY DEF FlattenSeq
<1>3. n # 0
  OBVIOUS
<1> HIDE DEF n
<1>5. \E g : /\ g \in [1 .. n -> Texts] /\ g[1] = s[1] /\ FlattenSeq(s) = g[n]
            /\ \A i \in 2 .. n : g[i] = g[i - 1] \o s[i]
  <2>1. 1 \in 1 .. n /\ n \in 1 .. n /\ 1 <= n
    BY <1>1, <1>3
  <2>2. StepsIn(G, Texts, 1, n)
    <3>1. ASSUME NEW x \in Texts \X (1 .. n) PROVE x[1] \o s[x[2]] \in Texts
      <4>1. x[1] \in Texts /\ s[x[2]] \in Texts
        BY <1>1
      <4> QED  BY <4>1, TextsJoin
    <3> QED  BY <1>1, <2>1, <3>1 DEF StepsIn
  <2>3. \A t \in Texts, i \in 1 .. n : G[<<t, i>>] = t \o s[i]
    OBVIOUS
  <2> HIDE DEF G
  <2>4. PICK f : Takes(f, G, Texts, s[1], 1, n)
    BY <1>1, <2>1, <2>2, Iterated
  <2>5. f \in [1 .. n -> Texts] /\ f[1] = s[1]
    BY <2>4 DEF Takes
  <2>6. ASSUME NEW i \in 1 .. n PROVE f[i] = IF i = 1 THEN s[i] ELSE f[i - 1] \o s[i]
    <3>1. CASE i = 1 BY <2>5, <3>1
    <3>2. CASE i # 1
      <4>1. i - 1 \in 1 .. n
        BY <1>1, <3>2
      <4>2. f[i] = G[<<f[i - 1], i>>]
        BY <2>4, <3>2 DEF Takes
      <4> QED  BY <2>3, <2>5, <3>2, <4>1, <4>2
    <3> QED  BY <3>1, <3>2
  <2>7. f = [i \in 1 .. n |-> f[i]]
    BY <2>5
  <2>8. IsFlat(f)
    BY <2>6, <2>7
  <2>9. IsFlat(h)
    BY <2>8
  <2> HIDE DEF h
  <2>10. \A i \in 1 .. n : h[i] = IF i = 1 THEN s[i] ELSE h[i - 1] \o s[i]
    BY <2>9
  <2>11. h = [i \in 1 .. n |-> h[i]]
    BY <2>9
  <2> HIDE DEF IsFlat
  <2>12. h[1] \in Texts /\ h[1] = s[1]
    BY <1>1, <2>1, <2>10
  <2>13. ASSUME NEW i \in 2 .. n PROVE h[i] = h[i - 1] \o s[i]
    <3>1. i \in 1 .. n /\ i # 1
      BY <1>1
    <3> QED  BY <2>10, <3>1
  <2>14. ASSUME NEW i \in 1 + 1 .. n, h[i - 1] \in Texts PROVE h[i] \in Texts
    <3>1. i \in 2 .. n /\ i \in 1 .. n
      OBVIOUS
    <3> QED  BY <1>1, <2>13, <2>14, <3>1, TextsJoin
  <2>15. \A i \in 1 .. n : h[i] \in Texts
    <3>1. 1 \in Int /\ n \in Int
      BY <1>1
    <3> QED  BY <2>12, <2>14, <3>1, StaysIn
  <2>16. h \in [1 .. n -> Texts]
    BY <2>11, <2>15
  <2> QED  BY <1>2, <1>3, <2>12, <2>13, <2>16
<1> QED  BY <1>5 DEF Grows, n

\* Groups that follow one another are a text.
LEMMA GroupsAreText ==
  ASSUME NEW s \in Seq(Texts)
  PROVE  FlattenSeq(s) \in Texts
<1>1. CASE s = <<>>
  <2>1. FlattenSeq(<<>>) = <<>>
    BY DEF FlattenSeq
  <2> QED  BY <1>1, <2>1, EmptyText
<1>2. CASE s # <<>>
  <2>1. PICK f : Grows(f, s) /\ FlattenSeq(s) = f[Len(s)]
    BY <1>2, GroupsGrow
  <2>2. Len(s) \in 1 .. Len(s)
    BY <1>2
  <2> QED  BY <2>1, <2>2 DEF Grows
<1> QED  BY <1>1, <1>2

\* What has arrived, and behind it what has not.
LEMMA GroupsSplit ==
  ASSUME NEW s \in Seq(Texts), NEW k \in 0 .. Len(s)
  PROVE  FlattenSeq(s) = FlattenSeq(SubSeq(s, 1, k)) \o FlattenSeq(SubSeq(s, k + 1, Len(s)))
<1> DEFINE n == Len(s)
           a == SubSeq(s, 1, k)
           b == SubSeq(s, k + 1, n)
<1>1. n \in Nat /\ k \in Nat /\ k <= n /\ Texts \subseteq Seq(Symbol)
  BY DEF Texts
<1>2. FlattenSeq(s) \in Seq(Symbol)
  BY <1>1, GroupsAreText
<1>3. FlattenSeq(<<>>) = <<>>
  BY DEF FlattenSeq
<1>4. CASE k = 0
  <2>1. a = <<>> /\ b = s
    BY <1>4
  <2> HIDE DEF a, b
  <2>2. FlattenSeq(s) = <<>> \o FlattenSeq(s)
    BY <1>2, ConcatEmptySeq
  <2> QED  BY <1>3, <2>1, <2>2 DEF a, b
<1>5. CASE k = n
  <2>1. a = s /\ b = <<>>
    BY <1>5
  <2> HIDE DEF a, b
  <2>2. FlattenSeq(s) = FlattenSeq(s) \o <<>>
    BY <1>2, ConcatEmptySeq
  <2> QED  BY <1>3, <2>1, <2>2 DEF a, b
<1>6. CASE k # 0 /\ k # n
  <2>1. /\ a \in Seq(Texts) /\ Len(a) = k /\ \A i \in 1 .. k : a[i] = s[i]
        /\ b \in Seq(Texts) /\ Len(b) = n - k /\ \A i \in 1 .. n - k : b[i] = s[k + i]
    <3>1. \A i \in 1 .. n : s[i] \in Texts
      OBVIOUS
    <3>2. a = [i \in 1 .. k |-> s[i]]
      BY <1>1
    <3>3. \A i \in 1 .. k : s[i] \in Texts
      BY <1>1, <3>1
    <3>4. a \in Seq(Texts) /\ Len(a) = k /\ \A i \in 1 .. k : a[i] = s[i]
      <4> HIDE DEF a, n
      <4> QED  BY <1>1, <3>2, <3>3
    <3>5. b = [i \in 1 .. n - k |-> s[k + i]]
      BY <1>1
    <3>6. n - k \in Nat /\ \A i \in 1 .. n - k : k + i \in 1 .. n
      <4> HIDE DEF a, b, n
      <4> QED  BY <1>1
    <3>7. b \in Seq(Texts) /\ Len(b) = n - k /\ \A i \in 1 .. n - k : b[i] = s[k + i]
      <4> HIDE DEF a, b, n
      <4> QED  BY <3>1, <3>5, <3>6
    <3> QED  BY <3>4, <3>7
  <2> HIDE DEF a, b
  <2>2. s # <<>> /\ a # <<>> /\ b # <<>>
    <3>1. n # 0 /\ n - k # 0
      BY <1>1, <1>6
    <3> QED  BY <1>6, <2>1, <3>1
  <2>3. PICK f : Grows(f, s) /\ FlattenSeq(s) = f[n]
    BY <2>2, GroupsGrow
  <2>4. PICK g : Grows(g, a) /\ FlattenSeq(a) = g[k]
    BY <2>1, <2>2, GroupsGrow
  <2>5. PICK h : Grows(h, b) /\ FlattenSeq(b) = h[n - k]
    BY <2>1, <2>2, GroupsGrow
  <2> HIDE DEF n
  <2>6. /\ f \in [1 .. n -> Texts] /\ f[1] = s[1] /\ \A i \in 2 .. n : f[i] = f[i - 1] \o s[i]
        /\ g \in [1 .. k -> Texts] /\ g[1] = a[1] /\ \A i \in 2 .. k : g[i] = g[i - 1] \o a[i]
        /\ h \in [1 .. n - k -> Texts] /\ h[1] = b[1]
        /\ \A i \in 2 .. n - k : h[i] = h[i - 1] \o b[i]
    BY <2>1, <2>3, <2>4, <2>5 DEF Grows, n
  <2> DEFINE K == {i \in 1 .. k : g[i] = f[i]}
             J == {i \in 1 .. n - k : f[k + i] = f[k] \o h[i]}
  <2>7. \A i \in 1 .. k : i \in K
    <3>1. 1 \in K
      <4>1. 1 \in 1 .. k
        BY <1>1, <1>6
      <4>2. g[1] = f[1]
        BY <2>1, <2>6, <4>1
      <4> QED  BY <4>1, <4>2
    <3>2. ASSUME NEW i \in 1 + 1 .. k, i - 1 \in K PROVE i \in K
      <4>1. i \in 2 .. k /\ i \in 2 .. n /\ i \in 1 .. k
        BY <1>1
      <4>2. g[i - 1] = f[i - 1]
        BY <3>2
      <4>3. g[i] = f[i]
        BY <2>1, <2>6, <4>1, <4>2
      <4> QED  BY <4>1, <4>3
    <3> HIDE DEF K
    <3>3. 1 \in Int /\ k \in Int
      BY <1>1
    <3> QED  BY <3>1, <3>2, <3>3, InductionOn
  <2>8. k \in 1 .. k /\ k \in 1 .. n /\ k + 1 \in 2 .. n /\ n - k \in 1 .. n - k /\ n - k \in Int
    BY <1>1, <1>6
  <2>9. f[k] \in Seq(Symbol)
    BY <1>1, <2>6, <2>8
  <2>10. \A i \in 1 .. n - k : i \in J
    <3>1. 1 \in J
      <4>1. (k + 1) - 1 = k /\ 1 \in 1 .. n - k
        BY <1>1, <2>8
      <4>2. f[k + 1] = f[k] \o s[k + 1] /\ h[1] = s[k + 1]
        BY <2>1, <2>6, <2>8, <4>1
      <4>3. f[k + 1] = f[k] \o h[1]
        BY <4>2
      <4> QED  BY <4>1, <4>3
    <3>2. ASSUME NEW i \in 1 + 1 .. n - k, i - 1 \in J PROVE i \in J
      <4>1. /\ i \in 1 .. n - k /\ i \in 2 .. n - k /\ i - 1 \in 1 .. n - k
            /\ k + i \in 2 .. n /\ (k + i) - 1 = k + (i - 1)
        BY <1>1
      <4> DEFINE x == f[k]
                 y == h[i - 1]
                 z == b[i]
      <4>2. f[k + (i - 1)] = x \o y
        BY <3>2
      <4>3. f[k + i] = f[k + (i - 1)] \o s[k + i]
        BY <2>6, <4>1
      <4>4. z = s[k + i] /\ h[i] = y \o z
        BY <2>1, <2>6, <4>1
      <4>5. x \in Seq(Symbol) /\ y \in Seq(Symbol) /\ z \in Seq(Symbol)
        <5>1. h[i - 1] \in Texts
          BY <2>6, <4>1
        <5>2. b[i] \in Texts
          BY <2>1, <4>1
        <5> HIDE DEF K, J
        <5> QED  BY <1>1, <2>9, <5>1, <5>2
      <4> HIDE DEF x, y, z
      <4>6. (x \o y) \o z = x \o (y \o z)
        BY <4>5, ConcatAssociative
      <4>7. f[k + i] = x \o h[i]
        BY <4>2, <4>3, <4>4, <4>6, Zenon
      <4> QED  BY <4>1, <4>7 DEF x
    <3> HIDE DEF J
    <3>3. 1 \in Int /\ n - k \in Int
      BY <1>1
    <3> QED  BY <3>1, <3>2, <3>3, InductionOn
  <2>11. f[n] = f[k] \o h[n - k] /\ g[k] = f[k]
    <3>1. k + (n - k) = n
      BY <1>1
    <3> QED  BY <2>7, <2>8, <2>10, <3>1
  <2> QED  BY <2>3, <2>4, <2>5, <2>11 DEF a, b, n
<1> QED  BY <1>4, <1>5, <1>6

LEMMA BeginsJoin ==
  ASSUME NEW t \in Texts, NEW u \in Texts
  PROVE  Begins(t, t \o u)
BY DEF Begins, Texts

\* Plain texts one after another are plain.
LEMMA PlainJoin ==
  ASSUME NEW t, Plain(t), NEW u, Plain(u)
  PROVE  Plain(t \o u)
<1> DEFINE w == t \o u
           fine(c) == (BoldExtra = 0 \/ ~IsMark(c, "bold", 1)) /\ ~AloneOnLine(c, c.w, ScrW)
<1>1. w \in Texts
  BY TextsJoin DEF Plain
<1>2. /\ t \in Seq(Symbol) /\ u \in Seq(Symbol)
      /\ (\A i \in 1 .. Len(t) : fine(t[i])) /\ (\A i \in 1 .. Len(u) : fine(u[i]))
  BY DEF Plain, Texts
<1> HIDE DEF fine
<1>3. ASSUME NEW i \in 1 .. Len(w) PROVE fine(w[i])
  <2>1. CASE i \in 1 .. Len(t) BY <1>2, <2>1
  <2>2. CASE i \notin 1 .. Len(t)
    <3>1. i - Len(t) \in 1 .. Len(u) /\ w[i] = u[i - Len(t)]
      BY <1>2, <2>2
    <3> QED  BY <1>2, <3>1
  <2> QED  BY <2>1, <2>2
<1> HIDE DEF w
<1>4. Plain(w)
  BY <1>1, <1>3 DEF Plain, fine
<1> QED  BY <1>4 DEF w

LEMMA PlainGroups ==
  ASSUME NEW s \in Seq(Texts), \A i \in 1 .. Len(s) : Plain(s[i])
  PROVE  Plain(FlattenSeq(s))
<1>1. CASE s = <<>>
  <2>1. FlattenSeq(<<>>) = <<>> /\ Len(<<>>) = 0
    BY DEF FlattenSeq
  <2> QED  BY <1>1, <2>1, EmptyText DEF Plain
<1>2. CASE s # <<>>
  <2> DEFINE n == Len(s)
             S == {t \in Texts : Plain(t)}
  <2>1. PICK f : Grows(f, s) /\ FlattenSeq(s) = f[n]
    BY <1>2, GroupsGrow
  <2>2. n \in Nat /\ n >= 1 /\ 1 \in 1 .. n /\ n \in 1 .. n
    BY <1>2
  <2> HIDE DEF n
  <2>3. f[1] \in S
    BY <2>1, <2>2 DEF Grows, n
  <2>4. ASSUME NEW i \in 1 + 1 .. n, f[i - 1] \in S PROVE f[i] \in S
    <3>1. i \in 2 .. n /\ i \in 1 .. n
      OBVIOUS
    <3>2. f[i] = f[i - 1] \o s[i] /\ Plain(s[i])
      BY <2>1, <3>1 DEF Grows, n
    <3>3. f[i] \in Texts
      BY <2>1, <3>1 DEF Grows, n
    <3> QED  BY <2>4, <3>2, <3>3, PlainJoin
  <2>5. \A i \in 1 .. n : f[i] \in S
    <3>1. 1 \in Int /\ n \in Int
      BY <2>2
    <3> HIDE DEF S
    <3> QED  BY <2>3, <2>4, <3>1, StaysIn
  <2> QED  BY <2>1, <2>2, <2>5
<1> QED  BY <1>1, <1>2

\* More text leaves the lines sound.
LEMMA LongerSound ==
  ASSUME NEW v, SoundLines(v), NEW t \in Texts, Len(v.text) <= Len(t)
  PROVE  SoundLines([v EXCEPT !.text = t])
<1> DEFINE m == Len(v.text)
           n == Len(t)
           c == v.cache
           w == [v EXCEPT !.text = t]
<1>1. /\ m \in Nat /\ n \in Nat /\ c \in Seq(Line) /\ m <= n /\ LinesSoundIn(m, c, v.cpos)
      /\ v.view_line \in 0 .. Len(c) - 1
  BY Numbers DEF SoundLines, Texts
<1>2. /\ w.text = t /\ w.cache = c /\ w.cpos = v.cpos /\ w.view_line = v.view_line
      /\ Fields \subseteq DOMAIN w
  BY DEF SoundLines, Fields
<1> HIDE DEF w, m, c
<1>3. \A i \in 1 .. Len(c) : c[i].pos <= n
  <2> SUFFICES ASSUME NEW i \in 1 .. Len(c) PROVE c[i].pos <= n
    OBVIOUS
  <2>1. c[i].pos \in Nat /\ c[i].pos <= m
    <3>1. c[i] \in Line
      BY <1>1
    <3> QED  BY <1>1, <3>1 DEF LinesSoundIn, Line
  <2> HIDE DEF n
  <2> QED  BY <1>1, <2>1
<1>4. LinesSoundIn(n, c, v.cpos)
  BY <1>1, <1>3 DEF LinesSoundIn
<1>5. SoundLines(w)
  <2>1. LinesSoundIn(Len(w.text), w.cache, w.cpos)
    BY <1>2, <1>4 DEF n
  <2> QED  BY <1>1, <1>2, <2>1 DEF SoundLines
<1> QED  BY <1>5 DEF w

\* And those of the whole text w.
LEMMA CutLonger ==
  ASSUME NEW v, SoundLines(v), NEW w, Plain(w), Cut(w, v),
         NEW u, u.cache = v.cache, Len(v.text) <= Len(u.text), u.text \in Texts, Begins(u.text, w)
  PROVE  Cut(w, u)
<1> DEFINE c == v.cache
           q == LineBefore(c, Len(c))
           m == Len(v.text)
           n == Len(u.text)
<1>1. c # <<>> /\ Chain(w, c) /\ Pending(w, q, m, c[Len(c)])
  BY DEF Cut, SoundLines, LinesSoundIn
<1>2. m \in Nat /\ n \in Nat /\ m <= n /\ q.pos \in Nat
  <2>1. q \in Line
    BY <1>1, BeforeLast
  <2> HIDE DEF q
  <2> QED  BY <2>1, Numbers DEF Line, Texts
<1> HIDE DEF q, m, n
<1>3. Pending(w, q, n, c[Len(c)])
  <2>1. \A i \in q.pos .. m : i \in q.pos .. n
    BY <1>2
  <2> QED  BY <1>1, <2>1 DEF Pending
<1> QED  BY <1>1, <1>3 DEF Cut, q, n

\* A new page has its first line once it is drawn.
LEMMA NewPageSound == SoundLines(Redraw(EmptyPage)) /\ Kept(EmptyPage, Redraw(EmptyPage))
<1>1. /\ EmptyPage.text = <<>> /\ EmptyPage.cache = <<>> /\ EmptyPage.cpos = 0
      /\ EmptyPage.view_line = 0 /\ EmptyPage.pixdisp = 0 /\ Fields \subseteq DOMAIN EmptyPage
  BY DEF EmptyPage, Fields
<1>2. Drawable(EmptyPage)
  BY <1>1, EmptyText DEF Drawable, Undrawn
<1>3. Kept(EmptyPage, RenderPage(EmptyPage, TRUE).vd)
  BY <1>2, RenderSound
<1> QED  BY <1>3 DEF Kept, Redraw

-----------------------------------------------------------------------------
(* The page.                                                                 *)

\* The invariant: lines that are sound, over a text made of groups that are complete.
LinesInv ==
  /\ shown \in Seq(Texts)
  /\ rest \in Seq(Texts)
  /\ saved.view_line \in Nat
  /\ SoundLines(view)

LEMMA LinesInit ==
  ASSUME ViewInit PROVE LinesInv
<1>1. saved.view_line = 0
  BY DEF ViewInit, NotSaved
<1>2. ASSUME NEW p \in ViewPages PROVE p \in Seq(Texts)
  <2>1. p \in Seq(Seq(Symbol)) /\ \A i \in DOMAIN p : IsText(p[i])
    BY TextsAssumption
  <2>2. \A i \in 1 .. Len(p) : p[i] \in Texts
    BY <2>1 DEF Texts
  <2> QED  BY <2>1, <2>2
<1> QED  BY <1>1, <1>2, NewPageSound DEF ViewInit, LinesInv

LEMMA DrawnKept ==
  ASSUME NEW v, NEW w, Kept(v, w)
  PROVE  Kept(v, Redraw(w))
<1>1. Kept(w, Redraw(w))
  BY RenderKept DEF Kept, Redraw
<1> QED  BY <1>1, KeptKept

\* The view with more text.
More(v, text) == [v EXCEPT !.text = text]

\* Groups that arrive are laid out as lines.
LEMMA ArrivalKept ==
  ASSUME LinesInv, NEW n, NEW behind, DataArrived(n, behind)
  PROVE  LET text == view.text \o FlattenSeq(SubSeq(rest, 1, n))
             t == More(view, text)
         IN  /\ text \in Texts /\ Len(view.text) <= Len(text)
             /\ t.text = text /\ t.cache = view.cache /\ Kept(t, view')
             /\ rest' = SubSeq(rest, n + 1, Len(rest)) /\ rest' \in Seq(Texts)
<1> DEFINE text == view.text \o FlattenSeq(SubSeq(rest, 1, n))
           t == [view EXCEPT !.text = text]
           b == [t EXCEPT !.behind = behind]
           v == [b EXCEPT !.cur = FirstReference(view, text)]
           e == LinesDownToEnd(v)
           u == [e EXCEPT !.view_line = v.view_line]
<1>1. rest \in Seq(Texts) /\ SoundLines(view) /\ n \in 1 .. Len(rest) /\ view.text \in Texts
  BY DEF LinesInv, DataArrived, SoundLines
<1>2. text \in Texts /\ Len(view.text) <= Len(text)
  <2>1. SubSeq(rest, 1, n) \in Seq(Texts)
    BY <1>1
  <2> QED  BY <1>1, <2>1, GroupsAreText, TextsJoin
<1>3. view' = Redraw(u)
  BY DEF DataArrived
<1> HIDE DEF text
<1>4. SoundLines(t) /\ t.text = text /\ t.cache = view.cache
  BY <1>1, <1>2, LongerSound DEF SoundLines, Fields
<1> HIDE DEF t
<1>5. SoundLines(b) /\ Kept(t, b)
  BY <1>4, FieldKept DEF Kept, Fields
<1> HIDE DEF b
<1>6. SoundLines(v) /\ Kept(t, v)
  <2> DEFINE x == FirstReference(view, text)
  <2> HIDE DEF x
  <2>1. Kept(b, [b EXCEPT !.cur = x])
    BY <1>5, FieldKept DEF Fields
  <2>2. Kept(b, v)
    BY <2>1 DEF x
  <2> HIDE DEF v
  <2> QED  BY <1>5, <2>2, KeptKept DEF Kept
<1> HIDE DEF v
<1>7. Down(v, e)
  BY <1>6, WalkSound DEF LinesDownToEnd, Readable
<1> HIDE DEF e
<1>8. Kept(t, u)
  <2>1. v.view_line \in 0 .. e.view_line /\ u = TopAt(e, v.view_line)
    BY <1>7 DEF Down, TopAt
  <2>2. Kept(v, e) /\ SoundLines(e)
    BY <1>7 DEF Down, Kept
  <2> HIDE DEF u
  <2>3. Kept(e, u)
    BY <2>1, <2>2, MovedKept
  <2> QED  BY <1>6, <2>2, <2>3, KeptKept
<1> HIDE DEF u
<1>9. Kept(t, view')
  BY <1>3, <1>8, DrawnKept
<1>10. rest' \in Seq(Texts) /\ rest' = SubSeq(rest, n + 1, Len(rest))
  <2>1. rest' = SubSeq(rest, n + 1, Len(rest))
    BY DEF DataArrived
  <2>2. \A i \in n + 1 .. Len(rest) : rest[i] \in Texts
    BY <1>1
  <2> QED  BY <1>1, <2>1, <2>2
<1> QED  BY <1>2, <1>4, <1>9, <1>10 DEF More, text, t

\* The end of the page, where it was left or at an anchor.
LEMMA EndKept ==
  ASSUME LinesInv, NEW anchor, DataEnd(anchor)
  PROVE  Kept(view, view')
<1> DEFINE line == saved.view_line
           z == WalkTo(view, line)
           v1 == IF saved.present THEN z ELSE view
           c == [v1 EXCEPT !.cur = saved.cur]
           j == GoToLocalLinkPos(v1, anchor)
           p == IF saved.cur # NONE THEN c ELSE IF anchor # NONE THEN j ELSE v1
           r == Redraw(p)
           d == LineDown(r).vd
           x == [d EXCEPT !.cur = saved.cur]
           y == Redraw(x)
<1>1. SoundLines(view) /\ line \in Nat
  BY DEF LinesInv
<1>2. view' = IF saved.cur # NONE /\ r.cur = NONE THEN y ELSE r
  BY DEF DataEnd
<1> HIDE DEF line, z
<1>3. Kept(view, z)
  <2>1. CASE line < Len(view.cache)
    <3>1. line \in 0 .. Len(view.cache) - 1 /\ Fields \subseteq DOMAIN view
      BY <1>1, <2>1, Numbers DEF SoundLines
    <3> DEFINE w == [view EXCEPT !.view_line = line]
    <3>2. SoundLines(w) /\ w.text = view.text /\ w.cache = view.cache
      BY <1>1, <3>1, AtLine DEF Fields
    <3> HIDE DEF w
    <3> QED  BY <2>1, <3>2, CarriesSame DEF WalkTo, Kept, w, z
  <2>2. CASE ~(line < Len(view.cache))
    BY <1>1, <2>2, WalkSound DEF WalkTo, LinesDownToEnd, Readable, Down, Kept, z
  <2> QED  BY <2>1, <2>2
<1>4. Kept(view, v1)
  BY <1>1, <1>3, CarriesSame DEF Kept
<1> HIDE DEF v1
<1>5. Kept(v1, c) /\ Kept(v1, j)
  BY <1>4, FieldKept, JumpKept DEF Kept, Fields
<1> HIDE DEF c, j
<1>6. Kept(view, p)
  BY <1>4, <1>5, KeptKept
<1> HIDE DEF p
<1>7. Kept(view, r)
  BY <1>6, DrawnKept
<1> HIDE DEF r
<1>8. Kept(view, d)
  BY <1>7, LineDownKept
<1> HIDE DEF d
<1>9. Kept(view, x)
  <2>1. Kept(d, x)
    BY <1>8, FieldKept DEF Kept, Fields
  <2> HIDE DEF x
  <2> QED  BY <1>8, <2>1, KeptKept
<1> HIDE DEF x
<1>10. Kept(view, y)
  BY <1>9, DrawnKept
<1> HIDE DEF y
<1> QED  BY <1>2, <1>7, <1>10

LEMMA RevisitKeeps ==
  ASSUME LinesInv, Revisit
  PROVE  LinesInv'
<1>1. shown' = shown /\ rest' = shown /\ view' = Redraw(EmptyPage)
  BY DEF Revisit
<1>2. saved'.view_line = view.view_line
  BY DEF Revisit
<1>3. view.view_line \in Nat
  BY Numbers DEF LinesInv
<1> QED  BY <1>1, <1>2, <1>3, NewPageSound DEF LinesInv

\* A key that keeps the lines.
LEMMA KeyKept ==
  ASSUME NEW v, Kept(view, v), Key(v)
  PROVE  Kept(view, view') /\ UNCHANGED <<shown, rest, saved>>
BY DrawnKept DEF Key

\* A key that loses the cursor.
LEMMA LoseKept ==
  ASSUME NEW v, NEW w, Kept(v, w)
  PROVE  Kept(v, Lose(w))
<1>1. Kept(w, Lose(w))
  BY FieldKept DEF Kept, Lose, Fields
<1> QED  BY <1>1, KeptKept

\* The cursor on another reference, or the page scrolls and the cursor follows.
LEMMA CursorKept ==
  ASSUME NEW v, SoundLines(v)
  PROVE  Kept(v, CursorDown(v)) /\ Kept(v, CursorUp(v))
<1>1. ASSUME NEW u, Kept(v, u), NEW x PROVE Kept(v, [u EXCEPT !.cur = x])
  <2> DEFINE w == [u EXCEPT !.cur = x]
  <2>1. Kept(u, w)
    BY <1>1, FieldKept DEF Kept, Fields
  <2> HIDE DEF w
  <2>2. Kept(v, w)
    BY <1>1, <2>1, KeptKept
  <2> QED  BY <2>2 DEF w
<1> DEFINE down == RenderPage(scrollDown(v, Step), FALSE).vd
           up == RenderPage(scrollUp(v, Step), FALSE).vd
<1>2. Kept(v, v) /\ Kept(v, down) /\ Kept(v, up)
  <2>1. Kept(v, scrollDown(v, Step)) /\ Kept(v, scrollUp(v, Step))
    BY ScrollDownKept, ScrollUpKept
  <2>2. Kept(scrollDown(v, Step), down) /\ Kept(scrollUp(v, Step), up)
    BY <2>1, RenderKept DEF Kept
  <2> HIDE DEF down, up
  <2> QED  BY <2>1, <2>2, KeptKept, KeptSelf
<1> DEFINE at(u, x) == [u EXCEPT !.cur = x]
<1>3. \A u, x : Kept(v, u) => Kept(v, at(u, x))
  BY <1>1
<1>4. CursorDown(v) \in {at(v, v.first), at(v, v.next), at(down, down.next), down}
  BY DEF CursorDown
<1>5. CursorUp(v) \in {at(v, v.last), at(v, v.prev), at(up, up.prev), up}
  BY DEF CursorUp
<1> HIDE DEF at, down, up
<1> QED  BY <1>2, <1>3, <1>4, <1>5

LEMMA KeysKept ==
  ASSUME LinesInv,
         \/ KeyScrollDown \/ KeyScrollUp \/ KeyPageDown \/ KeyHalfPageDown
         \/ KeyPageUp \/ KeyHalfPageUp \/ KeyBegin \/ KeyEnd \/ KeySearchAgain
         \/ \E anchor \in Anchors : LocalLink(anchor)
  PROVE  Kept(view, view') /\ UNCHANGED <<shown, rest, saved>>
<1>1. SoundLines(view)
  BY DEF LinesInv
<1>2. CASE KeyScrollDown BY <1>1, <1>2, CursorKept, KeyKept DEF KeyScrollDown
<1>3. CASE KeyScrollUp BY <1>1, <1>3, CursorKept, KeyKept DEF KeyScrollUp
<1>4. CASE KeyPageDown BY <1>1, <1>4, ScrollDownKept, LoseKept, KeyKept DEF KeyPageDown
<1>5. CASE KeyHalfPageDown
  BY <1>1, <1>5, ScrollDownKept, LoseKept, KeyKept DEF KeyHalfPageDown
<1>6. CASE KeyPageUp BY <1>1, <1>6, ScrollUpKept, LoseKept, KeyKept DEF KeyPageUp
<1>7. CASE KeyHalfPageUp BY <1>1, <1>7, ScrollUpKept, LoseKept, KeyKept DEF KeyHalfPageUp
<1>8. CASE KeyBegin
  <2> DEFINE a == [view EXCEPT !.pixdisp = 0]
             b == [view EXCEPT !.pixdisp = 0, !.view_line = 0]
  <2>1. Kept(view, a) /\ SoundLines(a)
    BY <1>1, FieldKept DEF Kept, Fields
  <2>2. b = TopAt(a, 0)
    BY DEF TopAt
  <2>3. 0 \in 0 .. a.view_line
    <3>1. a.view_line \in Nat
      BY <2>1, Numbers
    <3> QED  BY <3>1
  <2> HIDE DEF a, b
  <2>4. Kept(a, b)
    BY <2>1, <2>2, <2>3, MovedKept
  <2>5. Kept(view, Lose(b))
    BY <2>1, <2>4, KeptKept, LoseKept
  <2> QED  BY <1>8, <2>5, KeyKept DEF KeyBegin, b
<1>9. CASE KeyEnd
  <2> DEFINE e == LinesDownToEnd(view)
             u == [e EXCEPT !.pixdisp = 0]
             w == scrollUp(u, ScrH)
  <2>1. Kept(view, e)
    BY <1>1, WalkSound DEF LinesDownToEnd, Readable, Down, Kept
  <2>2. KeyEnd => Key(Lose(w))
    BY DEF KeyEnd
  <2> HIDE DEF e
  <2>3. Kept(e, u)
    BY <2>1, FieldKept DEF Kept, Fields
  <2> HIDE DEF u
  <2>4. Kept(u, w)
    BY <2>3, ScrollUpKept DEF Kept
  <2> HIDE DEF w
  <2>5. Kept(view, Lose(w))
    BY <2>1, <2>3, <2>4, KeptKept, LoseKept
  <2> QED  BY <1>9, <2>2, <2>5, KeyKept
<1>10. CASE KeySearchAgain BY <1>1, <1>10, SearchKept, KeyKept DEF KeySearchAgain
<1>11. CASE \E anchor \in Anchors : LocalLink(anchor)
  BY <1>1, <1>11, JumpKept, KeyKept DEF LocalLink
<1> QED  BY <1>2, <1>3, <1>4, <1>5, <1>6, <1>7, <1>8, <1>9, <1>10, <1>11

LEMMA InvSound ==
  ASSUME LinesInv PROVE CacheSound
<1> DEFINE c == view.cache
           n == Len(c)
<1>1. /\ c \in Seq(Line) /\ n \in Nat /\ n >= 1 /\ view.view_line < n
      /\ LinesSoundIn(Len(view.text), c, view.cpos)
  BY Numbers DEF LinesInv, SoundLines
<1>2. Last(c).pos <= Len(view.text)
  <2>1. n \in 1 .. n
    BY <1>1
  <2> QED  BY <1>1, <2>1 DEF LinesSoundIn, Last
<1> QED  BY <1>1, <1>2 DEF CacheSound, LinesSoundIn

\* Every step keeps the lines sound.
LEMMA LinesNext ==
  ASSUME LinesInv, [ViewNext]_viewVars
  PROVE  LinesInv'
<1>1. CASE UNCHANGED viewVars BY <1>1 DEF viewVars, LinesInv
<1>2. ASSUME NEW n \in 1 .. Len(rest), NEW behind \in BOOLEAN, DataArrived(n, behind)
      PROVE  LinesInv'
  <2>1. SoundLines(view') /\ rest' \in Seq(Texts)
    BY <1>2, ArrivalKept DEF Kept
  <2> QED  BY <1>2, <2>1 DEF LinesInv, DataArrived
<1>3. ASSUME NEW anchor \in Anchors \cup {NONE}, DataEnd(anchor) PROVE LinesInv'
  BY <1>3, EndKept DEF LinesInv, Kept, DataEnd
<1>4. CASE Revisit BY <1>4, RevisitKeeps
<1>5. Kept(view, view') /\ UNCHANGED <<shown, rest, saved>> => LinesInv'
  BY DEF LinesInv, Kept
<1> QED  BY <1>1, <1>2, <1>3, <1>4, <1>5, KeysKept DEF ViewNext

\* The lines of every page are sound, however its text arrives and whatever the
\* keys do: no line is empty, each begins where the one before ends, in the text and
\* on the screen, and the view is on one of them.  (newCacheLine, LineDown, RenderPage.)
THEOREM LinesAreSound == ViewSpec => []CacheSound
<1>1. ViewInit => LinesInv
  BY LinesInit
<1>2. LinesInv /\ [ViewNext]_viewVars => LinesInv'
  BY LinesNext
<1>3. LinesInv => CacheSound
  BY InvSound
<1> QED  BY <1>1, <1>2, <1>3, PTL DEF ViewSpec

-----------------------------------------------------------------------------
(* The lines of the page as a whole.                                         *)

\* The text of the view, and behind it the groups still to come, are the page.
Arriving == view.text \o FlattenSeq(rest) = FlattenSeq(shown)

\* The invariant: the lines of the view are those of the page, as far as they go.
WholeInv ==
  /\ LinesInv
  /\ Arriving
  /\ Plain(FlattenSeq(shown)) => Cut(FlattenSeq(shown), view)

\* A new page has no text and no finished line.
LEMMA NewPageCut ==
  ASSUME NEW s \in Seq(Texts)
  PROVE  LET v == Redraw(EmptyPage)
             w == FlattenSeq(s)
         IN  v.text \o w = w /\ (Plain(w) => Cut(w, v))
<1> DEFINE w == FlattenSeq(s)
           v == Redraw(EmptyPage)
<1>1. w \in Seq(Symbol)
  BY GroupsAreText DEF Texts
<1>2. Kept(EmptyPage, v) /\ EmptyPage.text = <<>> /\ EmptyPage.cache = <<>>
  BY NewPageSound DEF EmptyPage
<1> HIDE DEF w, v
<1>3. v.text \o w = w
  BY <1>1, <1>2, ConcatEmptySeq DEF Kept
<1>4. Begins(<<>>, w)
  <2>1. Len(<<>>) = 0 /\ Len(w) \in Nat /\ \A i \in 1 .. 0 : FALSE
    BY <1>1
  <2> QED  BY <2>1 DEF Begins
<1>5. Cut(w, EmptyPage)
  BY <1>2, <1>4 DEF Cut
<1>6. Plain(w) => Cut(w, v)
  BY <1>2, <1>5 DEF Kept, Carries
<1> QED  BY <1>3, <1>6 DEF w, v

LEMMA WholeInit ==
  ASSUME ViewInit PROVE WholeInv
<1>1. LinesInv
  BY LinesInit
<1>2. view = Redraw(EmptyPage) /\ rest = shown /\ shown \in Seq(Texts)
  BY <1>1 DEF LinesInv, ViewInit
<1> QED  BY <1>1, <1>2, NewPageCut DEF WholeInv, Arriving

\* Groups that arrive.
LEMMA ArrivalWhole ==
  ASSUME WholeInv, NEW n, NEW behind, DataArrived(n, behind)
  PROVE  Arriving' /\ (Plain(FlattenSeq(shown')) => Cut(FlattenSeq(shown'), view'))
<1> DEFINE a == FlattenSeq(SubSeq(rest, 1, n))
           b == FlattenSeq(SubSeq(rest, n + 1, Len(rest)))
           text == view.text \o a
           t == More(view, text)
           w == FlattenSeq(shown)
<1>1. /\ LinesInv /\ view.text \o FlattenSeq(rest) = w /\ (Plain(w) => Cut(w, view))
      /\ rest \in Seq(Texts) /\ n \in 1 .. Len(rest) /\ SoundLines(view) /\ view.text \in Texts
  BY DEF WholeInv, Arriving, LinesInv, DataArrived, SoundLines
<1>2. /\ text \in Texts /\ Len(view.text) <= Len(text)
      /\ t.text = text /\ t.cache = view.cache /\ Kept(t, view')
      /\ rest' = SubSeq(rest, n + 1, Len(rest)) /\ rest' \in Seq(Texts)
  BY <1>1, ArrivalKept
<1>3. FlattenSeq(rest) = a \o b
  <2>1. n \in 0 .. Len(rest)
    BY <1>1
  <2> QED  BY <1>1, <2>1, GroupsSplit
<1>4. a \in Texts /\ b \in Texts
  <2>1. SubSeq(rest, 1, n) \in Seq(Texts)
    BY <1>1
  <2>2. SubSeq(rest, n + 1, Len(rest)) \in Seq(Texts)
    BY <1>2
  <2> QED  BY <2>1, <2>2, GroupsAreText
<1>5. shown' = shown /\ b = FlattenSeq(rest')
  BY <1>2 DEF DataArrived
<1> HIDE DEF a, b, t, w
<1>6. text \o b = w
  <2> DEFINE x == view.text
  <2>1. x \in Seq(Symbol) /\ a \in Seq(Symbol) /\ b \in Seq(Symbol)
    BY <1>1, <1>4 DEF Texts
  <2>2. x \o (a \o b) = w
    BY <1>1, <1>3
  <2>3. text = x \o a
    OBVIOUS
  <2> HIDE DEF x, text
  <2>4. (x \o a) \o b = x \o (a \o b)
    BY <2>1, ConcatAssociative
  <2> QED  BY <2>2, <2>3, <2>4
<1> HIDE DEF text
<1>7. Begins(text, w)
  BY <1>2, <1>4, <1>6, BeginsJoin
<1>8. Plain(w) => Cut(w, view')
  <2> SUFFICES ASSUME Plain(w) PROVE Cut(w, view')
    OBVIOUS
  <2>1. Cut(w, t)
    BY <1>1, <1>2, <1>7, CutLonger
  <2> QED  BY <1>2, <2>1 DEF Kept, Carries
<1>9. view'.text \o FlattenSeq(rest') = w
  BY <1>2, <1>5, <1>6 DEF Kept
<1> QED  BY <1>5, <1>8, <1>9 DEF Arriving, w

LEMMA WholeNext ==
  ASSUME WholeInv, [ViewNext]_viewVars
  PROVE  WholeInv'
<1>1. LinesInv /\ LinesInv'
  BY LinesNext DEF WholeInv
<1>2. Kept(view, view') /\ UNCHANGED <<shown, rest>> => WholeInv'
  BY <1>1 DEF WholeInv, Arriving, Kept, Carries
<1>3. CASE UNCHANGED viewVars
  BY <1>1, <1>3 DEF viewVars, WholeInv, Arriving
<1>4. ASSUME NEW n \in 1 .. Len(rest), NEW behind \in BOOLEAN, DataArrived(n, behind)
      PROVE  WholeInv'
  BY <1>1, <1>4, ArrivalWhole DEF WholeInv
<1>5. ASSUME NEW anchor \in Anchors \cup {NONE}, DataEnd(anchor) PROVE WholeInv'
  <2>1. Kept(view, view') /\ UNCHANGED <<shown, rest>>
    BY <1>1, <1>5, EndKept DEF DataEnd
  <2> QED  BY <1>2, <2>1
<1>6. CASE Revisit
  <2>1. view' = Redraw(EmptyPage) /\ rest' = shown' /\ shown' \in Seq(Texts)
    BY <1>1, <1>6 DEF Revisit, LinesInv
  <2> QED  BY <1>1, <2>1, NewPageCut DEF WholeInv, Arriving
<1> QED  BY <1>1, <1>2, <1>3, <1>4, <1>5, <1>6, KeysKept DEF ViewNext

\* A page has no more finished lines than symbols.
LEMMA FewLines ==
  ASSUME NEW v, SoundLines(v)
  PROVE  Len(v.cache) - 1 <= Len(v.text)
<1> DEFINE c == v.cache
           k == Len(c)
           n == Len(v.text)
           K == {i \in 1 .. k - 1 : c[i].pos >= i}
<1>1. k \in Nat /\ k >= 1 /\ n \in Nat /\ c \in Seq(Line) /\ LinesSoundIn(n, c, v.cpos)
  BY Numbers DEF SoundLines
<1>2. ASSUME NEW i \in 1 .. k
      PROVE  c[i].pos \in Nat /\ c[i].pos <= n
  <2>1. c[i] \in Line
    BY <1>1
  <2> QED  BY <1>1, <2>1 DEF LinesSoundIn, Line
<1>3. ASSUME NEW i \in 1 .. k - 1
      PROVE  i \in 1 .. k /\ c[i].pos > IF i = 1 THEN 0 ELSE c[i - 1].pos
  BY <1>1 DEF LinesSoundIn
<1> HIDE DEF k, n, c
<1>4. CASE k = 1 BY <1>1, <1>4 DEF k, n, c
<1>5. CASE k # 1
  <2>1. 1 \in 1 .. k - 1 /\ k - 1 \in 1 .. k - 1 /\ k - 1 \in 1 .. k
    BY <1>1, <1>5
  <2>2. 1 \in K
    BY <1>2, <1>3, <2>1
  <2>3. ASSUME NEW i \in 1 + 1 .. k - 1, i - 1 \in K PROVE i \in K
    <3>1. i \in 1 .. k - 1 /\ i - 1 \in 1 .. k /\ i # 1 /\ c[i - 1].pos >= i - 1
      BY <1>1, <2>3
    <3>2. c[i].pos > c[i - 1].pos /\ c[i].pos \in Nat /\ c[i - 1].pos \in Nat
      BY <1>2, <1>3, <3>1
    <3> QED  BY <3>1, <3>2
  <2>4. \A i \in 1 .. k - 1 : i \in K
    <3>1. 1 \in Int /\ k - 1 \in Int
      BY <1>1
    <3> HIDE DEF K
    <3> QED  BY <2>2, <2>3, <3>1, InductionOn
  <2>5. c[k - 1].pos >= k - 1 /\ c[k - 1].pos <= n /\ c[k - 1].pos \in Nat
    BY <1>2, <2>1, <2>4
  <2>6. k - 1 <= n
    BY <1>1, <2>5
  <2> QED  BY <2>6 DEF k, n, c
<1> QED  BY <1>4, <1>5

\* The walk to the end of a text that is there at once comes to its last line: each
\* step of it that finishes a line is a line further, and there are not so many.
LEMMA EndReached ==
  ASSUME NEW w, Plain(w), NEW v, Undrawn(v), v.text = w
  PROVE  LET d == LinesDownTo(v, Len(w) + 1)
         IN  SoundLines(d) /\ d.text = w /\ Cut(w, d) /\ AtEnd(w, d.cache)
<1> DEFINE N == Len(w)
           pos == N + 1
           most == Len(v.text) + Len(v.cache) + 2
           a == [ok |-> TRUE, vd |-> v]
           h == CHOOSE f : IsLoop(f, "walk", pos, a, most)
           good(x, k) ==
             /\ {"ok", "vd"} \subseteq DOMAIN x /\ x.ok \in BOOLEAN /\ Readable(x.vd)
             /\ x.vd.text = w /\ Cut(w, x.vd)
             /\ x.ok => x.vd.view_line = k
             /\ ~x.ok => SoundLines(x.vd) /\ AtEnd(w, x.vd.cache)
<1>1. N \in Nat /\ most = N + 2 /\ most \in Nat
  <2>1. N \in Nat /\ Len(v.cache) = 0
    BY DEF Plain, Texts, Undrawn
  <2>2. most = N + 0 + 2
    BY <2>1
  <2> HIDE DEF N, most
  <2> QED  BY <2>1, <2>2
<1>2. LinesDownTo(v, pos) = h[most].vd
  BY DEF LinesDownTo, IsLoop, LoopStep, WalkStep
<1> HIDE DEF most
<1>3. IsLoop(h, "walk", pos, a, most)
  <2>1. \E f : IsLoop(f, "walk", pos, a, most)
    <3> HIDE DEF a, pos
    <3> QED  BY <1>1, LoopExists
  <2> QED  BY <2>1
<1> HIDE DEF h
<1>4. h[0] = a /\ \A k \in 1 .. most : h[k] = WalkStep(h[k - 1], pos)
  <2> HIDE DEF a, pos
  <2>1. h[0] = a /\ \A k \in 1 .. most : h[k] = LoopStep("walk", pos, h[k - 1])
    BY <1>1, <1>3, LoopValues
  <2> QED  BY <2>1 DEF LoopStep
<1> HIDE DEF N
<1>5. good(a, 0)
  <2>1. Begins(w, w)
    BY <1>1 DEF Begins, N
  <2>2. Cut(w, v) /\ Readable(v) /\ v.view_line = 0
    BY <2>1 DEF Cut, Undrawn, Readable
  <2> QED  BY <2>2
<1>6. ASSUME NEW k \in Nat, NEW x, good(x, k)
      PROVE  good(WalkStep(x, pos), k + 1)
  <2>1. CASE x.ok
    <3> DEFINE d == LineDown(x.vd)
    <3>1. x.vd.cache = <<>> \/ x.vd.cache[x.vd.view_line + 1].pos < pos
      <4>1. CASE Undrawn(x.vd) BY <4>1 DEF Undrawn
      <4>2. CASE SoundLines(x.vd)
        <5> DEFINE c == x.vd.cache
                   i == x.vd.view_line + 1
        <5>1. i \in 1 .. Len(c) /\ c \in Seq(Line) /\ LinesSoundIn(N, c, x.vd.cpos)
          BY <1>6, <4>2, Numbers DEF SoundLines, N
        <5> HIDE DEF c, i
        <5>2. c[i].pos <= N /\ c[i].pos \in Nat
          <6>1. c[i] \in Line
            BY <5>1
          <6> QED  BY <5>1, <6>1 DEF LinesSoundIn, Line
        <5>3. c[i].pos < pos
          BY <1>1, <5>2
        <5> QED  BY <5>3 DEF c, i
      <4> QED  BY <1>6, <4>1, <4>2 DEF Readable
    <3>2. WalkStep(x, pos) = d
      BY <2>1, <3>1 DEF WalkStep
    <3>3. OneDown(x.vd, d)
      BY <1>6, LineDownSound
    <3>4. Cut(w, d.vd) /\ (~d.ok => AtEnd(w, d.vd.cache))
      BY <1>6, LineDownCut
    <3>5. {"ok", "vd"} \subseteq DOMAIN d
      BY DEF LineDown, ScanLine, KeepLine
    <3> HIDE DEF d
    <3>6. d.ok => d.vd.view_line = k + 1
      BY <1>6, <2>1, <3>3 DEF OneDown
    <3>7. good(d, k + 1)
      BY <1>6, <3>3, <3>4, <3>5, <3>6 DEF OneDown, Readable
    <3> HIDE DEF good
    <3> QED  BY <3>2, <3>7
  <2>2. CASE ~x.ok
    <3> DEFINE e == [x EXCEPT !.ok = FALSE]
    <3>1. WalkStep(x, pos) = e
      BY <2>2 DEF WalkStep
    <3>2. e.ok = FALSE /\ e.vd = x.vd /\ {"ok", "vd"} \subseteq DOMAIN e
      BY <1>6
    <3> HIDE DEF e
    <3>3. good(e, k + 1)
      BY <1>6, <2>2, <3>2
    <3> HIDE DEF good
    <3> QED  BY <3>1, <3>3
  <2> QED  BY <2>1, <2>2
<1> DEFINE K == {k \in 0 .. most : good(h[k], k)}
<1>7. \A k \in 0 .. most : k \in K
  <2> HIDE DEF good, a
  <2>1. 0 \in K
    <3>1. 0 \in 0 .. most
      BY <1>1
    <3>2. good(h[0], 0)
      BY <1>4, <1>5
    <3> QED  BY <3>1, <3>2
  <2>2. ASSUME NEW k \in 0 + 1 .. most, k - 1 \in K PROVE k \in K
    <3>1. k \in 1 .. most /\ k \in 0 .. most /\ k - 1 \in Nat /\ (k - 1) + 1 = k
      BY <1>1
    <3>2. h[k] = WalkStep(h[k - 1], pos) /\ good(h[k - 1], k - 1)
      BY <1>4, <2>2, <3>1
    <3>3. good(h[k], k)
      BY <1>6, <3>1, <3>2
    <3> QED  BY <3>1, <3>3
  <2>3. 0 \in Int /\ most \in Int
    BY <1>1
  <2> HIDE DEF K
  <2> QED  BY <2>1, <2>2, <2>3, InductionOn
<1>8. good(h[most], most)
  <2>1. most \in 0 .. most
    BY <1>1
  <2> HIDE DEF good
  <2> QED  BY <1>7, <2>1
<1> DEFINE y == h[most]
<1> HIDE DEF y
<1>9. ~y.ok
  <2> SUFFICES ASSUME y.ok PROVE FALSE
    OBVIOUS
  <2>1. y.vd.view_line = N + 2 /\ Readable(y.vd) /\ y.vd.text = w
    BY <1>1, <1>8 DEF y
  <2>2. CASE Undrawn(y.vd) BY <1>1, <2>1, <2>2 DEF Undrawn
  <2>3. CASE SoundLines(y.vd)
    <3> DEFINE k == Len(y.vd.cache)
    <3>1. k \in Nat /\ y.vd.view_line < k /\ k - 1 <= N
      BY <2>1, <2>3, Numbers, FewLines DEF N
    <3> HIDE DEF k
    <3> QED  BY <1>1, <2>1, <3>1
  <2> QED  BY <2>1, <2>2, <2>3 DEF Readable
<1>10. SoundLines(y.vd) /\ y.vd.text = w /\ Cut(w, y.vd) /\ AtEnd(w, y.vd.cache)
  BY <1>8, <1>9 DEF y
<1> QED  BY <1>2, <1>10 DEF y, N

\* A line begins as the one before ends, and with its attributes: from there the
\* rest of the text makes one line only.
LEMMA OneLine ==
  ASSUME NEW w, Plain(w), NEW p \in Line, Thin(p), NEW q \in Line, Thin(q),
         SameAt(p, q), p.pos = q.pos, q.pos <= Len(w)
  PROVE  LET r == FromLine(w, p)
             x == FromLine(w, q)
         IN  /\ r.found <=> x.found
             /\ r.found => SameAt(r.line, x.line) /\ r.line.pos = x.line.pos
<1> DEFINE v == Base(w, p)
           r == SearchNextDisplayLine(v, p)
           x == FromLine(w, q)
<1>1. Len(w) \in Nat /\ w \in Texts /\ Begins(w, w)
  BY DEF Plain, Texts, Begins
<1>2. v.text = w /\ v.cpos = q.pos
  BY DEF Base
<1>3. Pending(w, q, Len(w), p)
  <2>1. Len(w) <= Len(w)
    BY <1>1
  <2> QED  BY <1>1, <2>1, FreshPending
<1> HIDE DEF v, x
<1>4. /\ r.found => x.found /\ SameAt(r.line, x.line) /\ r.line.pos = x.line.pos
      /\ ~r.found => ~x.found
  BY <1>1, <1>2, <1>3, ScanCompared DEF x
<1>5. FromLine(w, p) = r
  BY DEF FromLine, v
<1> HIDE DEF r
<1> QED  BY <1>4, <1>5 DEF x

\* The finished lines of v are lines of u, which has them all.
LEMMA LinesAgree ==
  ASSUME NEW w, Plain(w), NEW u, SoundLines(u), Cut(w, u), AtEnd(w, u.cache),
         NEW v, SoundLines(v), Cut(w, v), NEW n \in 1 .. Len(v.cache) - 1
  PROVE  /\ n <= Len(u.cache)
         /\ SameAt(v.cache[n], u.cache[n]) /\ v.cache[n].pos = u.cache[n].pos
<1> DEFINE c == v.cache
           d == u.cache
           k == Len(c)
           m == Len(d)
           N == Len(w)
           agree(i) == i <= m - 1 /\ SameAt(c[i], d[i]) /\ c[i].pos = d[i].pos
           K == {i \in 1 .. k - 1 : agree(i)}
<1>1. /\ k \in Nat /\ m \in Nat /\ k >= 1 /\ m >= 1 /\ N \in Nat
      /\ c \in Seq(Line) /\ d \in Seq(Line) /\ c # <<>> /\ d # <<>>
      /\ Len(u.text) \in Nat /\ Len(u.text) <= N
      /\ \A i \in 1 .. m : d[i].pos <= Len(u.text)
  BY Numbers DEF Plain, Texts, Cut, Begins, SoundLines, LinesSoundIn
<1>2. Chain(w, c) /\ Chain(w, d) /\ ~FromLine(w, LineBefore(d, m)).found
  BY <1>1 DEF Cut, AtEnd
<1> HIDE DEF c, d
<1>3. ASSUME NEW i \in 1 .. k - 1
      PROVE  LET r == FromLine(w, LineBefore(c, i))
             IN  Thin(c[i]) /\ r.found /\ SameAt(c[i], r.line) /\ c[i].pos = r.line.pos
  BY <1>2 DEF Chain
<1>4. ASSUME NEW i \in 1 .. m - 1
      PROVE  LET r == FromLine(w, LineBefore(d, i))
             IN  Thin(d[i]) /\ r.found /\ SameAt(d[i], r.line) /\ d[i].pos = r.line.pos
  BY <1>2 DEF Chain
<1> HIDE DEF k, m, N
<1>5. ASSUME NEW i \in 1 .. k - 1, i <= m, NEW p, NEW q, p = LineBefore(c, i), q = LineBefore(d, i),
             p \in Line, q \in Line, Thin(p), Thin(q), SameAt(p, q), p.pos = q.pos, q.pos <= N
      PROVE  agree(i)
  <2> DEFINE r == FromLine(w, p)
             x == FromLine(w, q)
  <2>1. /\ r.found <=> x.found
        /\ r.found => SameAt(r.line, x.line) /\ r.line.pos = x.line.pos
    BY <1>5, OneLine DEF N
  <2>2. r.found /\ SameAt(c[i], r.line) /\ c[i].pos = r.line.pos
    BY <1>3, <1>5
  <2>3. i # m
    BY <1>2, <1>5, <2>1, <2>2
  <2>4. i \in 1 .. m - 1
    BY <1>1, <1>5, <2>3
  <2>5. x.found /\ SameAt(d[i], x.line) /\ d[i].pos = x.line.pos
    BY <1>4, <1>5, <2>4
  <2> HIDE DEF r, x
  <2> QED  BY <2>1, <2>2, <2>4, <2>5 DEF SameAt
<1>6. \A i \in 1 .. k - 1 : i \in K
  <2>1. CASE k = 1 BY <2>1
  <2>2. CASE k # 1
    <3>1. 1 \in 1 .. k - 1 /\ 1 <= m
      BY <1>1, <2>2
    <3>2. agree(1)
      <4>1. LineBefore(c, 1) = FirstLine /\ LineBefore(d, 1) = FirstLine
        BY DEF LineBefore
      <4>2. SameAt(FirstLine, FirstLine) /\ FirstLine.pos <= N
        BY <1>1, FirstThin DEF SameAt
      <4> HIDE DEF agree
      <4> QED  BY <1>5, <3>1, <4>1, <4>2, FirstThin
    <3>3. ASSUME NEW i \in 1 + 1 .. k - 1, i - 1 \in K PROVE i \in K
      <4>1. agree(i - 1) /\ i \in 1 .. k - 1 /\ i - 1 \in 1 .. k - 1 /\ i # 1
        BY <3>3
      <4>2. i - 1 \in 1 .. k /\ i - 1 \in 1 .. m /\ i - 1 \in 1 .. m - 1 /\ i <= m
        BY <1>1, <4>1
      <4>3. LineBefore(c, i) = c[i - 1] /\ LineBefore(d, i) = d[i - 1]
        BY <4>1 DEF LineBefore
      <4>4. c[i - 1] \in Line /\ d[i - 1] \in Line
        BY <1>1, <4>2 DEF k, m
      <4>5. Thin(c[i - 1]) /\ Thin(d[i - 1])
        BY <1>3, <1>4, <4>1, <4>2
      <4>6. d[i - 1].pos <= N
        <5>1. d[i - 1].pos \in Nat /\ d[i - 1].pos <= Len(u.text)
          BY <1>1, <4>2, <4>4 DEF Line
        <5> QED  BY <1>1, <5>1
      <4>7. agree(i)
        BY <1>5, <4>1, <4>2, <4>3, <4>4, <4>5, <4>6
      <4> HIDE DEF agree
      <4> QED  BY <4>1, <4>7
    <3>4. 1 \in Int /\ k - 1 \in Int /\ 1 \in K
      BY <1>1, <3>1, <3>2
    <3> HIDE DEF K
    <3> QED  BY <3>3, <3>4, InductionOn
  <2> QED  BY <2>1, <2>2
<1>7. agree(n) /\ n \in Nat
  BY <1>6 DEF k, c
<1>8. n <= m
  BY <1>1, <1>7
<1> QED  BY <1>7, <1>8 DEF c, d, m

LEMMA PlainPage ==
  ASSUME LinesInv, BoldExtra = 0 \/ ~Bold(shown), ~Large(shown)
  PROVE  Plain(FlattenSeq(shown))
<1>1. shown \in Seq(Texts)
  BY DEF LinesInv
<1>2. ASSUME NEW i \in 1 .. Len(shown) PROVE Plain(shown[i])
  <2>1. i \in DOMAIN shown /\ shown[i] \in Texts
    BY <1>1
  <2>2. DOMAIN shown[i] = 1 .. Len(shown[i])
    BY <2>1 DEF Texts
  <2> QED  BY <2>1, <2>2 DEF Plain, Bold, Large
<1> QED  BY <1>1, <1>2, PlainGroups

LEMMA WholeLines ==
  ASSUME WholeInv PROVE LinesAsWhole
<1> SUFFICES ASSUME BoldExtra = 0 \/ ~Bold(shown), ~Large(shown), NEW i \in 1 .. Len(view.cache) - 1
             PROVE  /\ i <= Len(Whole)
                    /\ \A a \in Attributes \cup {"pos"} : view.cache[i][a] = Whole[i][a]
  BY DEF LinesAsWhole
<1> DEFINE w == FlattenSeq(shown)
           v == [EmptyPage EXCEPT !.text = w]
           d == LinesDownTo(v, Len(w) + 1)
<1>1. Plain(w) /\ SoundLines(view) /\ Cut(w, view)
  BY PlainPage DEF WholeInv, LinesInv
<1> HIDE DEF w
<1>2. v.text = w /\ v.cache = <<>> /\ v.cpos = 0 /\ v.view_line = 0 /\ Fields \subseteq DOMAIN v
  BY DEF EmptyPage, Fields
<1>3. Whole = d.cache
  <2>1. Whole = LinesDownTo(v, Len(v.text) + 1).cache
    BY DEF Whole, LinesDownToEnd, w
  <2> HIDE DEF v
  <2> QED  BY <1>2, <2>1
<1> HIDE DEF v
<1>4. Undrawn(v)
  BY <1>1, <1>2 DEF Undrawn, Plain
<1>5. SoundLines(d) /\ Cut(w, d) /\ AtEnd(w, d.cache)
  BY <1>1, <1>2, <1>4, EndReached
<1> HIDE DEF d
<1>6. /\ i <= Len(d.cache)
      /\ SameAt(view.cache[i], d.cache[i]) /\ view.cache[i].pos = d.cache[i].pos
  BY <1>1, <1>5, LinesAgree
<1> QED  BY <1>3, <1>6 DEF SameAt

\* Where the data is cut does not show: however the text of a page arrives, with
\* whatever keys between, its finished lines are those of the text as a whole, if it
\* has no bold letter that is wider and no large picture.  (SearchNextDisplayLine
\* begins a scan with the attributes the last one left in the cache.)
THEOREM LinesIndependentOfCuts == ViewSpec => []LinesAsWhole
<1>1. ViewInit => WholeInv
  BY WholeInit
<1>2. WholeInv /\ [ViewNext]_viewVars => WholeInv'
  BY WholeNext
<1>3. WholeInv => LinesAsWhole
  BY WholeLines
<1> QED  BY <1>1, <1>2, <1>3, PTL DEF ViewSpec
=============================================================================
