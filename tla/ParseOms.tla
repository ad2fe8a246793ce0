------------------------------ MODULE ParseOms ------------------------------
(***************************************************************************)
(* The parser of pages (BalletMini/parse_oms.c): OMS_DataArrived is called *)
(* on the MMI thread with each piece of the answer and does as much of the *)
(* page as has arrived.  oms_wanted is where the data of the present state *)
(* ends; the state runs once oms_size has reached it.                      *)
(*                                                                         *)
(* A call is Receive (its piece is put behind oms, through zlib if the     *)
(* page is compressed), one ParseStep per pass of the loop and Finish.     *)
(* page, fed and call are the environment: the page on the wire, how much  *)
(* of it was delivered, and the call in progress.                          *)
(*                                                                         *)
(* A state is a pair <<stage, tag>>: OMS_TAGx_STAGE3 is <<"STAGE3", "x">>. *)
(* Left out: the counters of the progress display, the page's name in the  *)
(* history, the copies of an authorisation code and the keys that move the *)
(* cursor while a page loads.  The guard against an empty piece is never   *)
(* used: no sender sends one.                                              *)
(***************************************************************************)
EXTENDS ViewData

CONSTANTS Pages,          \* the pages on the wire
          HEADER_V2,      \* sizeof(OMS_HEADER_V2)
          GZIP_HEADER,    \* the size of the header of gzip
          Pieces,         \* the lengths in which data may arrive
          ZlibInit        \* the outcomes of inflateInit2

HEADER_COMMON == 6
HEADER_V1 == HEADER_V2 - 2

\* A tag is one byte, here its number in this list.
TagNames == <<"+", "v", "(", ")", "$", "A", "C", "D", "S", "T", "Y", "B", "V", "I",
              "J", "K", "X", "h", "e", "p", "u", "x", "c", "r", "s", "o", "l", "i",
              "k", "L", "^", "P", "R", "E", "Q", "Z", "@">>

ASSUME PagesAssumption ==
  \A p \in Pages : /\ p.mem \in Seq(0 .. 255)
                   /\ p.yield \in Seq(Nat)
                   /\ p.plain \in 0 .. Len(p.mem)
                   /\ p.bad \in Nat
ASSUME HeaderAssumption == HEADER_V2 \in Nat /\ HEADER_V2 >= 2 /\ GZIP_HEADER \in Nat

VARIABLES vd, page, fed, call
vars == <<vd, page, fed, call>>

\* page.mem is what vd->oms holds when all has arrived: the first page.plain
\* bytes as they are sent, the rest as inflate returns it.
WireLength == page.plain + Len(page.yield)
Zipped == page.yield # <<>>

NoCall == [on |-> FALSE, len |-> 0, avail_out |-> 0]
Idle == ~call.on
Stopped == vd.parse_state[1] = "STOP"

Init ==
  /\ vd = NewViewData
  /\ page \in Pages
  /\ fed = 0
  /\ call = NoCall

-----------------------------------------------------------------------------
(* Reading.  A byte that has not arrived reads as 0.                         *)

At(p) == IF p < vd.oms_size /\ p < Len(page.mem) THEN page.mem[p + 1] ELSE 0

Bytes(p, n) == [i \in 1 .. n |-> At(p + i - 1)]

rshort(p) == 256 * At(p) + At(p + 1)

TagAt(p) == IF At(p) \in DOMAIN TagNames THEN TagNames[At(p)] ELSE "unknown"

-----------------------------------------------------------------------------
(* External: zlib.  page.yield[n] is how much the first n compressed bytes   *)
(* expand to; a stream damaged at its byte page.bad is refused from there   *)
(* (bad is 0 for a page in order).                                           *)

\* The bytes inflate has ready after c compressed bytes, given where oms ends.
Ready(c, size) ==
  IF c = 0 \/ page.yield[c] <= size - page.plain THEN 0 ELSE page.yield[c] - (size - page.plain)

Damaged(c) == page.bad # 0 /\ c >= page.bad

\* inflate on a call of length len, when oms holds size bytes and c compressed
\* bytes were given to it (L_ZNEXT, and the error cases).
Inflate(v, c, len, size) ==
  LET out == IF v.zs = "on" THEN IF Ready(c, size) <= len THEN Ready(c, size) ELSE len ELSE 0
  IN  IF v.zs = "on" /\ Damaged(c)
      THEN /\ vd' = [AddMessage(v) EXCEPT !.parse_state = <<"STOP", "none">>, !.oms_size = size]
           /\ call' = NoCall
      ELSE /\ vd' = [v EXCEPT !.oms_size = size + out]
           /\ call' = [on |-> TRUE, len |-> len, avail_out |-> len - out]

-----------------------------------------------------------------------------
(* A piece arrives.                                                          *)

\* The first piece of a page.
Begun(v) ==
  IF v.parse_state[1] # "BEGIN" THEN v
  ELSE [v EXCEPT !.oms_wanted = HEADER_COMMON, !.parse_state = <<"HDR_COMMON", "none">>]

\* The compressed bytes among the first n of the wire.
Compressed(n) == IF n <= page.plain THEN 0 ELSE n - page.plain

Receive(len) ==
  /\ Idle
  /\ len \in 1 .. WireLength - fed
  /\ fed' = fed + len
  /\ IF vd.zs = "none"
     THEN /\ vd' = Begun([vd EXCEPT !.oms_size = @ + len])
          /\ call' = [on |-> TRUE, len |-> len, avail_out |-> 0]
     ELSE Inflate(vd, Compressed(fed'), len, vd.oms_size)
  /\ UNCHANGED page

\* mutant: no L_ZNEXT
FinishOnce ==
  /\ call.on /\ vd.oms_size < vd.oms_wanted
  /\ call' = NoCall
  /\ UNCHANGED <<vd, page, fed>>

\* The loop ends for want of data.  A full output buffer may mean that inflate
\* has more.
Finish ==
  /\ call.on /\ vd.oms_size < vd.oms_wanted
  /\ IF vd.zs # "none" /\ call.avail_out = 0
     THEN Inflate(vd, Compressed(fed), call.len, vd.oms_size)
     ELSE call' = NoCall /\ UNCHANGED vd
  /\ UNCHANGED <<page, fed>>

-----------------------------------------------------------------------------
(* The passes of the loop.                                                   *)

Run(v) == vd' = v /\ UNCHANGED call
Return(v) == vd' = v /\ call' = NoCall

In(stage) == vd.parse_state[1] = stage
Tag == vd.parse_state[2]

Goto(v, stage, tag, more) ==
  [v EXCEPT !.parse_state = <<stage, tag>>, !.oms_wanted = @ + more]

NextTag(v) == Goto(v, "TAG_NAME", "none", 1)

\* The rest of the data of a tag is done with.
Skip(v) == [v EXCEPT !.oms_pos = v.oms_wanted]

Advance(v, n) == [v EXCEPT !.oms_pos = @ + n]

GiveUp(v) == Return([AddMessage(v) EXCEPT !.parse_state = <<"STOP", "none">>])

\* L_ZINIT: what lies behind oms_pos is compressed and goes through inflate.
StartZlib(v) ==
  \E ok \in ZlibInit :
    IF ~ok THEN GiveUp([v EXCEPT !.zs = "bad"])
    ELSE IF v.oms_size = v.oms_pos THEN Return([v EXCEPT !.zs = "on"])
    ELSE Inflate([v EXCEPT !.zs = "on"], Compressed(fed), v.oms_size - v.oms_pos, v.oms_pos)

HdrCommon ==
  /\ In("HDR_COMMON")
  /\ LET magic == rshort(vd.oms_pos)
         v == Advance([vd EXCEPT !.work_ref = EmptyRef, !.work_ref_Z = EmptyRef], 6)
     IN  \/ magic = 3379 (* 0x0D33 *) /\ Run(Goto(v, "HDR", "none", HEADER_V1))
         \/ magic = 6195 (* 0x1833 *) /\ Run(Goto(v, "HDR", "none", HEADER_V2))
         \/ magic = 3377 (* 0x0D31 *) /\ Run(Goto(v, "GZIPHDR", "none", GZIP_HEADER))
         \/ magic = 6194 (* 0x1832 *) /\ StartZlib(Goto(v, "HDR", "none", HEADER_V2))
         \/ /\ magic \notin {3379, 6195, 3377, 6194}
            /\ GiveUp(Goto(v, "HDR", "none", HEADER_V2))

GzipHdr == In("GZIPHDR") /\ StartZlib(Goto(Skip(vd), "HDR", "none", HEADER_V1))

Hdr == In("HDR") /\ Run(Goto(Skip(vd), "PAGEURL_SIZE", "none", 2))

PageUrlSize ==
  /\ In("PAGEURL_SIZE")
  /\ Run(Advance(Goto(vd, "PAGEURL_DATA", "none", rshort(vd.oms_pos)), 2))

PageUrlData == In("PAGEURL_DATA") /\ Run(NextTag(Skip(vd)))

\* E: the reference begun last ends, unless the tag P came in between; when it
\* has ended already (an image button) the E belongs to the Z around it.
FinishRef(v) ==
  LET w == IF v.work_ref.tag = "none" /\ v.work_ref_Z.tag = "Z"
           THEN [v EXCEPT !.work_ref = v.work_ref_Z, !.work_ref_Z = EmptyRef] ELSE v
  IN  [(IF v.ref_mode_P = 0 THEN AddEndRef(w) ELSE w) EXCEPT !.ref_mode_P = 0]

Bare == {"+", "v", "(", ")", "$", "C", "B", "V", "l", "E"}

DoBare(v, t) ==
  CASE t \in {"(", ")"} -> AddPictureItemHr(v)
    [] t = "B" -> AddBrItem(v)
    [] t = "V" -> AddPItem(v)
    [] t = "C" -> [v EXCEPT !.work_ref.no_upload = 0]
    [] t = "E" -> FinishRef(v)
    [] OTHER   -> v

\* The bytes a tag needs before anything of it is read.
FixedLength(t) ==
  CASE t = "Y" -> 1
    [] t \in {"S", "J", "X", "@"} -> 4
    [] t = "K" -> 6
    [] t = "I" -> 8
    [] t = "k" -> 3
    [] t = "x" -> IF At(0) = 13 THEN 2 ELSE 3
    [] OTHER -> 2

TagName ==
  /\ In("TAG_NAME")
  /\ LET t == TagAt(vd.oms_pos)
         v == CASE t = "i" -> AddBeginRef(vd)
                [] t = "P" -> [vd EXCEPT !.ref_mode_P = 1]
                [] OTHER   -> vd
     IN  \/ t = "unknown" /\ GiveUp(vd)
         \/ t = "Q" /\ Return([vd EXCEPT !.parse_state = <<"STOP", "none">>])
         \/ t \in Bare /\ Run(NextTag(Advance(DoBare(vd, t), 1)))
         \/ t \notin Bare \cup {"unknown", "Q"} /\ Run(Goto(v, "TAG_DATA", t, FixedLength(t)))

\* The image button i ends with the picture that follows it.
CountPicture(v) ==
  LET n == (v.ref_mode_i + UINT - 1) % UINT
      w == [v EXCEPT !.ref_mode_i = n]
  IN  IF n = 0 THEN AddEndRef(w) ELSE w

Style(b) == [bold |-> (b \div 2) % 2, center |-> (b \div 16) % 2, right |-> (b \div 32) % 2]

SetStyle(v, s) == AddNewStyle([v EXCEPT !.prev_tag_s = v.current_tag_s, !.current_tag_s = s])

\* The tags that are complete with their fixed part, read from p on.
Complete == {"D", "S", "Y", "J", "K", "R"}

DoComplete(v, t, p) ==
  CASE t = "D" -> AddNewStyle(v)
    [] t = "S" -> SetStyle([v EXCEPT !.S_cache = Append(@, Style(At(p)))], Style(At(p)))
    [] t = "Y" -> SetStyle(v, v.S_cache[At(p) + 1])
    [] t = "J" -> CountPicture(AddPictureItemFrame(
                    [v EXCEPT !.iw = rshort(p), !.ih = rshort(p + 2)], rshort(p), rshort(p + 2)))
    [] t = "K" -> CountPicture(AddPictureItemIndex(v, rshort(p + 4)))
    [] t = "R" -> AddPictureItemHr(v)

\* Where the first length stands in the fixed part at p.
LengthAt(t, p) ==
  CASE t = "I" -> p + 4
    [] t \in {"X", "@"} -> p + 2
    [] t = "k" -> p + 1
    [] t = "x" -> p + FixedLength("x") - 2
    [] OTHER -> p

\* Tags of two strings wait for the first and the length of the second, a list
\* for its name, the flag of a multiple choice and the number of items.
TwoStrings == {"h", "e", "p", "u", "x", "c", "r", "o", "i"}

\* mutant: the flag of a multiple choice is not waited for
BehindShort(t) == IF t \in TwoStrings \cup {"s"} THEN 2 ELSE 0

Behind(t) == IF t \in TwoStrings THEN 2 ELSE IF t = "s" THEN 3 ELSE 0

\* iw and ih carry the lengths, or the size of a picture, to the next stages.
Sizes(v, t, p) ==
  CASE t = "I" -> [v EXCEPT !.iw = rshort(p), !.ih = rshort(p + 2)]
    [] t = "X" -> [v EXCEPT !.iw = At(p), !.ih = At(p + 1)]
    [] t = "k" -> [v EXCEPT !.iw = rshort(p + 1), !.ih = At(p)]
    [] t = "@" -> [v EXCEPT !.iw = rshort(p + 2), !.ih = rshort(p)]
    [] t \in TwoStrings \cup {"s", "Z"} -> [v EXCEPT !.iw = rshort(LengthAt(t, p))]
    [] OTHER -> v

BeginTag(v, t) ==
  CASE t \in {"A", "e", "i"} -> [v EXCEPT !.work_ref.tag = t]
    [] t = "o" -> [v EXCEPT !.work_ref.tag = "s", !.tag_o_count = @ - 1]
    [] t \in {"p", "u", "x", "c", "r", "s", "L", "^"} ->
         [AddBeginRef(v) EXCEPT !.work_ref.tag = t]
    [] t = "@" -> [AddBeginRef(v) EXCEPT !.work_ref.tag = t, !.work_ref.id2 = v.ih,
                                         !.work_ref.id = v.oms_pos - 2]
    [] t = "Z" -> [AddBeginRefZ(v) EXCEPT !.work_ref_Z.tag = t,
                                          !.work_ref_Z.id = v.oms_pos - 2]
    [] OTHER -> v

TagData ==
  /\ In("TAG_DATA")
  /\ LET t == Tag
         p == vd.oms_pos + 1
         v == Advance(vd, 1 + FixedLength(t))
         len == rshort(LengthAt(t, p))
     IN  IF t \in Complete THEN Run(NextTag(DoComplete(v, t, p)))
         ELSE IF t = "o" /\ vd.tag_o_count = 0 THEN GiveUp(Advance(vd, 1))
         ELSE IF t = "@" /\ len = 0 THEN Run(NextTag(Sizes(v, t, p)))
         ELSE Run(Goto(BeginTag(Sizes(v, t, p), t), "STAGE3", t, len + Behind(t)))

AddTitle(v) == IF v.title THEN v ELSE AddBrItem([v EXCEPT !.title = TRUE])

\* The data of a tag of one string, n bytes at oms_pos.
DoString(v, t, n) ==
  CASE t = "A" -> AddToRefCache([v EXCEPT !.work_ref.value = v.oms_pos, !.work_ref.size = n,
                                          !.work_ref.id2 = Len(v.rawtext)])
    [] t = "T" -> AddTitle(AddTextItem(v, Bytes(v.oms_pos, n)))
    [] t = "I" -> CountPicture(AddPictureItem(v))
    [] t = "X" -> CountPicture(AddPictureItemRGBA(v))
    [] t = "k" -> AddPictureItemHr(AddTextItem(
                    RawInsert(AddPictureItemHr(v), <<Sym("msg", 0)>>), Bytes(v.oms_pos, n)))
    [] t \in {"L", "^"} -> [v EXCEPT !.work_ref.id = v.oms_pos - 2]
    [] t = "@" -> AddEndRef(AddBrItem(AddTextItem(v, Bytes(v.oms_pos, n))))
    [] OTHER -> v

\* mutant: the mark behind the second string is not waited for
FirstStringOnly(v, t) ==
  LET w == IF t \in {"h", "o"} THEN v ELSE [v EXCEPT !.work_ref.id = v.oms_pos - 2]
      q == v.oms_pos + v.iw
      second == rshort(q)
  IN  Goto([w EXCEPT !.oms_pos = q + 2, !.ih = second], "STAGE4", t, second)

\* The first of two strings: the item of a list and the parts of h are not kept.
FirstString(v, t) ==
  LET w == IF t \in {"h", "o"} THEN v ELSE [v EXCEPT !.work_ref.id = v.oms_pos - 2]
      q == v.oms_pos + v.iw
      second == rshort(q)
  IN  Goto([w EXCEPT !.oms_pos = q + 2, !.ih = second], "STAGE4", t,
           second + (IF t \in {"c", "r", "o"} THEN 1 ELSE 0))

\* The name of a list, then how many items follow.
ListHead(v) ==
  LET q == v.oms_pos + v.iw
      count == rshort(q + 1)
  IN  NextTag([v EXCEPT !.work_ref.id = v.oms_pos - 2, !.work_ref.size = 0,
                        !.work_ref.multiselect = At(q), !.tag_o_count = count,
                        !.work_ref.data = [n \in 1 .. count |-> NOREF],
                        !.oms_pos = q + 3])

Stage3 ==
  /\ In("STAGE3")
  /\ \/ Tag \in TwoStrings /\ Run(FirstString(vd, Tag))
     \/ Tag = "s" /\ Run(ListHead(vd))
     \/ /\ Tag \notin TwoStrings \cup {"s"}
        /\ Run(NextTag(Skip(DoString(vd, Tag, vd.oms_wanted - vd.oms_pos))))

\* An item of a list: its mark is the byte behind the second string.
ListItem(v) ==
  LET q == v.oms_pos + v.ih
      mark == At(q)
      n == v.work_ref.size + 1
      w == [v EXCEPT !.work_ref.data = IF n \in DOMAIN @ THEN [@ EXCEPT ![n] = mark] ELSE @,
                     !.work_ref.value = IF mark # 0 THEN q - v.ih - 2 - v.iw - 2 ELSE @,
                     !.work_ref.id2 = IF mark # 0 THEN q - v.ih - 2 ELSE @,
                     !.work_ref.size = n]
  IN  IF v.tag_o_count = 0 THEN AddEndRef(AddDropDownList(w)) ELSE w

DoSecond(v, t) ==
  LET w == [v EXCEPT !.work_ref.value = v.oms_pos - 2]
      mark == At(v.oms_pos + v.ih)
  IN  CASE t = "h" -> v
        [] t = "e" -> w
        [] t = "i" -> [w EXCEPT !.ref_mode_i = 1]
        [] t \in {"p", "x"} -> AddEndRef(AddInputItem(w))
        [] t = "u" -> AddEndRef(AddButtonItem(w))
        [] t = "c" -> AddEndRef(AddCheckBoxItem(w, mark))
        [] t = "r" -> AddEndRef(AddRadioButton(w, mark))
        [] t = "o" -> ListItem(v)

\* Every tag is at its end here: oms_wanted is oms_pos and what was read.
Stage4 ==
  /\ In("STAGE4")
  /\ LET n == vd.ih + (IF Tag \in {"c", "r", "o"} THEN 1 ELSE 0)
     IN  Run(NextTag(Advance(DoSecond(vd, Tag), n)))

Stop == In("STOP") /\ Return(vd)

ParseStep ==
  /\ call.on /\ vd.oms_size >= vd.oms_wanted
  /\ HdrCommon \/ GzipHdr \/ Hdr \/ PageUrlSize \/ PageUrlData
     \/ TagName \/ TagData \/ Stage3 \/ Stage4 \/ Stop
  /\ UNCHANGED <<page, fed>>

Next == Finish \/ ParseStep \/ \E len \in Pieces : Receive(len)

Spec == Init /\ [][Next]_vars

\* The MMI thread finishes a call; the network delivers the page.
Fairness == /\ WF_vars(Finish \/ ParseStep)
            /\ WF_vars(\E len \in Pieces : Receive(len))
LiveSpec == Spec /\ Fairness

-----------------------------------------------------------------------------
(* Properties.                                                               *)

\* Whatever the pieces are, the parser reads no byte before it has arrived:
\* each state waits for all it reads.
WithinData == vd.oms_pos <= vd.oms_size

\* What the present state reads before it ends.
Need ==
  CASE In("BEGIN") -> vd.oms_pos = 0 /\ vd.oms_wanted = 0
    [] In("HDR_COMMON") -> vd.oms_wanted = vd.oms_pos + 6
    [] In("PAGEURL_SIZE") -> vd.oms_wanted = vd.oms_pos + 2
    [] In("TAG_NAME") -> vd.oms_wanted = vd.oms_pos + 1
    [] In("TAG_DATA") -> vd.oms_wanted = vd.oms_pos + 1 + FixedLength(Tag) /\ vd.oms_size >= 1
    [] In("STAGE3") /\ Tag \in TwoStrings -> vd.oms_wanted = vd.oms_pos + vd.iw + 2
    [] In("STAGE3") /\ Tag = "s" -> vd.oms_wanted = vd.oms_pos + vd.iw + 3
    [] In("STAGE4") -> /\ Tag \in TwoStrings
                       /\ vd.oms_wanted = vd.oms_pos + vd.ih
                                          + (IF Tag \in {"c", "r", "o"} THEN 1 ELSE 0)
    [] OTHER -> vd.oms_wanted >= vd.oms_pos

\* However a page is cut, sound or not, the parser waits in every state for just
\* what the state will read: what lies before oms_wanted is what the tag still
\* has to take.
Waits == In("STOP") \/ Need

\* A page in order was parsed to its end.
Parsed == Stopped /\ vd.zs # "bad" /\ page.bad = 0

Visible == SelectSeq(vd.rawtext, LAMBDA c : c.k \in {"inv", "end", "txt", "br", "sp", "pic", "msg"})

\* However the page is cut into pieces, plain or compressed, its text is the
\* text that was sent, in order, with every reference opened and closed where
\* the page says.
TextAsMeant ==
  Parsed => /\ Len(Visible) = Len(page.says)
            /\ \A i \in DOMAIN Visible :
                 /\ Visible[i].k = page.says[i].k
                 /\ Visible[i].k = "txt" => Visible[i].n = page.says[i].n

\* Two places show the same picture exactly if the page means the same, as far
\* as the firmware has icons: a picture named by its number is the one sent
\* under it, and a box that is not ticked never looks like one that is (the
\* request is built from the looks, main.c:219).
PicturesAsMeant ==
  Parsed /\ (\A i \in DOMAIN vd.dynpng_list : HasIcon(vd.dynpng_list[i].w_char)) =>
    \A i, j \in {i \in DOMAIN Visible : Visible[i].k = "pic"} :
      /\ Visible[i].n # FIRST
      /\ Visible[i].n = Visible[j].n <=> page.says[i].n = page.says[j].n

\* The first byte of a string of the page, 0 if there is none.  An anchor holds
\* the place of its name without the length before it.
Marker(p) == IF p = NOREF THEN 0 ELSE At(p + 2)
ValueMarker(r) == IF r.tag = "A" THEN At(r.value) ELSE Marker(r.value)

\* However the page is cut, the links, anchors and controls are those it
\* holds, in the order they end, each with its own address, name and value, and
\* a list with the item that is chosen; what the user gave before on this page
\* comes back in the control it was given in.
RefsAsMeant ==
  Parsed =>
    /\ Len(vd.ref_cache) = Len(page.refs)
    /\ \A i \in DOMAIN page.refs :
         LET r == vd.ref_cache[i]
         IN  /\ r.tag = page.refs[i].tag
             /\ Marker(r.id) = page.refs[i].id
             /\ r.tag \in {"x", "p"} => r.data = <<IF r.id \in UserText THEN "user" ELSE "page">>
             /\ IF r.tag = "s" /\ r.id \in DOMAIN UserList
                THEN r.value = UserList[r.id].value /\ r.id2 = UserList[r.id].id2
                ELSE /\ ValueMarker(r) = page.refs[i].value
                     /\ r.tag = "s" => Marker(r.id2) = page.refs[i].id2

\* A page that is parsed says what was sent: the three above together.
AsMeant == TextAsMeant /\ PicturesAsMeant /\ RefsAsMeant

\* At any time the references of the page, anchors apart, are stretches of the
\* text between the marks that show them, no two begin together
\* (FindReferenceByBegin finds the first), and the cursor is on one of them.
RefsInText ==
  LET refs == SelectSeq(vd.ref_cache, LAMBDA r : r.tag # "A")
  IN  /\ \A i \in DOMAIN refs :
           /\ 0 <= refs[i].begin /\ refs[i].begin < refs[i].end
           /\ refs[i].end <= Len(vd.rawtext)
           /\ vd.rawtext[refs[i].begin + 1] = ENA_INVERT
           /\ vd.rawtext[refs[i].end] = DIS_INVERT
           /\ \A j \in DOMAIN refs : refs[i].begin = refs[j].begin => i = j
      /\ IF refs = <<>> THEN vd.pos_cur_ref = NOREF
         ELSE \E i \in DOMAIN refs : vd.pos_cur_ref = refs[i].begin

\* AddNewStyle marks differences only: the marks in the text still add up to
\* the style in force, after styles taken from the cache as well.
StylesInForce ==
  \A a \in DOMAIN PlainStyle :
    LET marks == SelectSeq(vd.rawtext, LAMBDA c : c.k = a)
    IN  vd.current_tag_s[a] = IF marks = <<>> THEN 0 ELSE Last(marks).n

\* The mark of an item is written inside the array allocated for the list.
ListsInBounds ==
  vd.parse_state = <<"STAGE4", "o">> => vd.work_ref.size \in 0 .. Len(vd.work_ref.data) - 1

\* What the page holds points into what it holds, while it still arrives: the
\* three above together.
ReferencesSound == RefsInText /\ StylesInForce /\ ListsInBounds

\* A page that is delivered whole is parsed to its end: the last bytes neither
\* wait for more nor stay inside zlib.
PageEnds == <>Stopped
=============================================================================
