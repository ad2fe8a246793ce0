---------------------------- MODULE FormsProofs -----------------------------
(***************************************************************************)
(* Proofs about the forms, for every set of pages, texts and files: for a  *)
(* user who waits for the page and keeps a field in sight while a file is  *)
(* attached to it, lists near enough to the start of the page, and a       *)
(* connection that can be made they are the form the user sees; for any    *)
(* user, page and connection what is written of a request fits in what was *)
(* counted for it.                                                         *)
(***************************************************************************)
EXTENDS Forms, SequenceTheorems, FiniteSetTheorems, WellFoundedInduction, TLAPS

Refs == [tag: {"L", "x", "p", "s", "c", "r", "i", "u"}, name: Strings, no_upload: BOOLEAN,
         multiselect: BOOLEAN, data: Strings, value: SUBSET Nat, on: BOOLEAN,
         upload_file_data_not_present: BOOLEAN, full_filename: Files \cup {NULL}]

\* The references are those of the page, as far as it has arrived.
OfPage(rs) ==
  /\ rs \in Seq(Refs)
  /\ Len(rs) <= Len(page)
  /\ \A k \in 1 .. Len(rs) :
       /\ rs[k].tag = page[k].tag /\ rs[k].name = page[k].name
       /\ rs[k].no_upload = page[k].no_upload /\ rs[k].multiselect = page[k].multiselect

RefsInv ==
  /\ page \in Pages
  /\ OfPage(refs)
  /\ fed = Len(refs)
  /\ fed < Len(page) => oms_pos = fed

\* What is kept is of fields and of lists, so of different references.
KeptInv ==
  /\ user_text \in [DOMAIN user_text -> Texts]
  /\ \A k \in DOMAIN user_text : k \in 1 .. Len(page) /\ page[k].tag \in {"x", "p"}
  /\ user_list \in [DOMAIN user_list -> SUBSET Nat]
  /\ \A k \in DOMAIN user_list : k \in 1 .. Len(page) /\ page[k].tag = "s"

\* A dialog is about a reference of its kind, on the screen.
DialogInv ==
  /\ dialog \in [kind: {"none", "input", "list", "files"}, pos_ref: Nat, stale: BOOLEAN]
  /\ dialog.kind # "none" => view = "shown" /\ dialog.pos_ref \in 1 .. Len(refs)
  /\ dialog.kind = "input" => page[dialog.pos_ref].tag \in {"x", "p"}
  /\ dialog.kind = "list" => page[dialog.pos_ref].tag = "s"
  /\ dialog.kind = "files" =>
       page[dialog.pos_ref].tag \in {"x", "p"} /\ ~dialog.stale /\ fed = Len(page)

\* Between two requests nothing is left of the last.
RequestInv ==
  /\ view \in {"shown", "leaving", "away"}
  /\ view # "leaving" => from_url = FALSE /\ goto_params = NULL

FormsInv == RefsInv /\ KeptInv /\ DialogInv /\ RequestInv

-----------------------------------------------------------------------------
(***************************************************************************)
(* What a reference shows, and what it gives to the request.               *)
(***************************************************************************)

ShownRef(rf, item) ==
  [text   |-> IF rf.tag \in {"x", "p"} THEN rf.data ELSE item.text,
   marked |-> CASE rf.tag = "s" -> rf.value
                [] rf.tag \in {"c", "r"} -> IF rf.on THEN {1} ELSE {}
                [] OTHER -> item.marked]

ShownAs(rs) == [k \in 1 .. Len(rs) |-> ShownRef(rs[k], page[k])]

LEMMA ShownIs == Shown = ShownAs(refs)
BY DEF Shown, ShownAs, ShownRef

LEMMA PageParts ==
  ASSUME page \in Pages
  PROVE  /\ page \in Seq(Controls) /\ Len(page) \in Nat
         /\ \A k \in 1 .. Len(page) :
              /\ page[k] \in Controls
              /\ page[k].tag \in {"c", "r"} => page[k].marked \in {{}, {1}}
              /\ page[k].link = "fileselect" => k > 1 /\ page[k - 1].tag \in {"x", "p"}
              /\ Len(page[k].places) = Len(page[k].options) /\ IsInjective(page[k].places)
BY PagesAssumption, LenProperties

\* Near the start of the page an option is found again by its place.
LEMMA PlaceIsOption ==
  ASSUME NearPages, page \in Pages, NEW k \in 1 .. Len(page), NEW i \in DOMAIN page[k].options
  PROVE  At(k, Short(page[k].places[i])) = {i}
<1>1. /\ page[k] \in Controls /\ Len(page[k].places) = Len(page[k].options)
      /\ IsInjective(page[k].places)
  BY PageParts
<1>2. /\ page[k].options \in Seq(Strings) /\ page[k].places \in Seq(Nat)
  BY <1>1 DEF Controls
<1>3. /\ DOMAIN page[k].options = DOMAIN page[k].places
      /\ \A j \in DOMAIN page[k].places : page[k].places[j] \in Nat
  BY <1>1, <1>2, LenProperties
<1>4. page[k].places[i] \in Nat /\ page[k].places[i] < SHORT
  BY <1>3 DEF NearPages
<1>5. Short(page[k].places[i]) = page[k].places[i]
  BY <1>4, ShortAssumption DEF Short
<1>6. \A j \in DOMAIN page[k].options : page[k].places[j] = page[k].places[i] => j = i
  BY <1>1, <1>3 DEF IsInjective
<1> QED  BY <1>5, <1>6 DEF At

LEMMA SameFlatten == ASSUME NEW s PROVE AForm!FlattenSeq(s) = FlattenSeq(s)
BY DEF FlattenSeq, AForm!FlattenSeq

LEMMA ItemsAreCarried ==
  ASSUME page \in Pages, NEW rs, OfPage(rs), NEW k \in 1 .. Len(rs), NEW p
  PROVE  Items(rs, k, p) = AForm!Carries(ShownAs(rs), k, p)
<1> DEFINE f == ShownAs(rs)
           tag == page[k].tag
           it(v) == [name |-> page[k].name, value |-> v]
           tick(M, i) == IF i \in M THEN <<it(page[k].options[i])>> ELSE <<>>
           ticks(M) == [i \in 1 .. Len(page[k].options) |-> tick(M, i)]
<1>1. /\ rs[k].tag = tag /\ rs[k].name = page[k].name /\ rs[k].on \in BOOLEAN
      /\ tag \in {"L", "x", "p", "s", "c", "r", "i", "u"}
  <2>1. rs[k] \in Refs
    BY LenProperties DEF OfPage
  <2> QED  BY <2>1 DEF OfPage, Refs
<1>2. f[k] = ShownRef(rs[k], page[k])
  BY DEF ShownAs
<1>3. /\ tag \in {"x", "p"} => f[k].text = rs[k].data
      /\ tag = "s" => f[k].marked = rs[k].value
      /\ tag \in {"c", "r"} => (f[k].marked # {} <=> rs[k].on)
  BY <1>1, <1>2 DEF ShownRef
<1> HIDE DEF f
<1>4. CASE tag = "s"
  <2>1. Items(rs, k, p) = FlattenSeq(ticks(rs[k].value))
    BY <1>1, <1>4 DEF Items
  <2>2. AForm!Carries(f, k, p) = AForm!FlattenSeq(ticks(f[k].marked))
    BY <1>4 DEF AForm!Carries
  <2> HIDE DEF ticks
  <2> QED  BY <1>3, <1>4, <2>1, <2>2, SameFlatten DEF f
<1>5. CASE tag \in {"c", "r"}
  <2>1. Items(rs, k, p) = IF rs[k].on THEN <<it(page[k].text)>> ELSE <<>>
    BY <1>1, <1>5 DEF Items
  <2>2. AForm!Carries(f, k, p) = IF f[k].marked # {} THEN <<it(page[k].text)>> ELSE <<>>
    BY <1>5 DEF AForm!Carries
  <2> QED  BY <1>3, <1>5, <2>1, <2>2 DEF f
<1>6. CASE tag \in {"i", "u"}
  <2>1. Items(rs, k, p) = IF k = p THEN <<it(page[k].text)>> ELSE <<>>
    BY <1>1, <1>6 DEF Items
  <2>2. AForm!Carries(f, k, p) = IF k = p THEN <<it(page[k].text)>> ELSE <<>>
    BY <1>6 DEF AForm!Carries
  <2> QED  BY <2>1, <2>2 DEF f
<1>7. CASE tag \in {"x", "p"}
  <2>1. Items(rs, k, p) = <<it(rs[k].data)>>
    BY <1>1, <1>7 DEF Items
  <2>2. AForm!Carries(f, k, p) = <<it(f[k].text)>>
    BY <1>7 DEF AForm!Carries
  <2> QED  BY <1>3, <1>7, <2>1, <2>2 DEF f
<1>8. CASE tag = "L"
  <2>1. Items(rs, k, p) = <<>>
    BY <1>1, <1>8 DEF Items
  <2>2. AForm!Carries(f, k, p) = <<>>
    BY <1>8 DEF AForm!Carries
  <2> QED  BY <2>1, <2>2 DEF f
<1> QED  BY <1>1, <1>4, <1>5, <1>6, <1>7, <1>8

LEMMA RequestIsForm ==
  ASSUME page \in Pages, NEW rs, OfPage(rs), NEW p, NEW size
  PROVE  FillPass(rs, p, size).out = AForm!Carried(ShownAs(rs), p)
<1> DEFINE A == [k \in 1 .. Len(rs) |-> Items(rs, k, p)]
           f == ShownAs(rs)
           B == [k \in 1 .. Len(f) |-> AForm!Carries(f, k, p)]
<1>1. FillPass(rs, p, size).out = FlattenSeq(A)
  BY DEF FillPass
<1>2. AForm!Carried(f, p) = AForm!FlattenSeq(B)
  BY DEF AForm!Carried
<1>3. Len(f) = Len(rs)
  BY LenProperties DEF ShownAs, OfPage
<1>4. A = B
  <2> HIDE DEF f
  <2> QED  BY <1>3, ItemsAreCarried DEF f
<1> HIDE DEF A, B, f
<1> QED  BY <1>1, <1>2, <1>4, SameFlatten DEF f

-----------------------------------------------------------------------------
(***************************************************************************)
(* An entry, and the request it may send.                                  *)
(***************************************************************************)

LEMMA Submitted ==
  ASSUME page \in Pages, NEW rs, OfPage(rs), NEW p, NEW url, Submit(rs, p, url), page' = page
  PROVE  /\ view' = "leaving"
         /\ OfPage(refs)' /\ Len(refs') = Len(rs)
         /\ Request' = [to |-> url, from |-> TRUE, params |-> AForm!Carried(ShownAs(rs), p)]
<1>1. PICK ram \in FreeRam :
        /\ goto_params' = FillPass(rs, p, CountPass(rs, p, ram).size).out
        /\ refs' = [k \in 1 .. Len(rs) |->
                      IF HasFile(rs[k]) THEN [rs[k] EXCEPT !.full_filename = NULL] ELSE rs[k]]
  BY DEF Submit, Collect
<1>2. /\ view' = "leaving" /\ goto_url' = url /\ from_url' = TRUE
      /\ goto_params' = AForm!Carried(ShownAs(rs), p)
  BY <1>1, RequestIsForm DEF Submit
<1>3. /\ rs \in Seq(Refs) /\ Len(rs) \in Nat
      /\ \A k \in 1 .. Len(rs) : rs[k] \in Refs
  BY LenProperties DEF OfPage
<1>4. ASSUME NEW k \in 1 .. Len(rs)
      PROVE  /\ refs'[k] \in Refs
             /\ refs'[k].tag = rs[k].tag /\ refs'[k].name = rs[k].name
             /\ refs'[k].no_upload = rs[k].no_upload /\ refs'[k].multiselect = rs[k].multiselect
  <2>1. rs[k] \in Refs
    BY <1>3
  <2>2. /\ [rs[k] EXCEPT !.full_filename = NULL] \in Refs
        /\ [rs[k] EXCEPT !.full_filename = NULL].tag = rs[k].tag
        /\ [rs[k] EXCEPT !.full_filename = NULL].name = rs[k].name
        /\ [rs[k] EXCEPT !.full_filename = NULL].no_upload = rs[k].no_upload
        /\ [rs[k] EXCEPT !.full_filename = NULL].multiselect = rs[k].multiselect
    BY <2>1 DEF Refs
  <2>3. refs'[k] = rs[k] \/ refs'[k] = [rs[k] EXCEPT !.full_filename = NULL]
    BY <1>1
  <2> QED  BY <2>1, <2>2, <2>3
<1>5. refs' \in Seq(Refs) /\ Len(refs') = Len(rs)
  <2>1. refs' \in [1 .. Len(rs) -> Refs]
    BY <1>1, <1>4
  <2> QED  BY <1>3, <2>1, LenProperties
<1>6. OfPage(refs)'
  <2>1. Len(rs) <= Len(page) /\ \A k \in 1 .. Len(rs) :
          /\ rs[k].tag = page[k].tag /\ rs[k].name = page[k].name
          /\ rs[k].no_upload = page[k].no_upload /\ rs[k].multiselect = page[k].multiselect
    BY DEF OfPage
  <2>2. refs' \in Seq(Refs) /\ Len(refs') <= Len(page') /\ \A k \in 1 .. Len(refs') :
          /\ refs'[k].tag = page'[k].tag /\ refs'[k].name = page'[k].name
          /\ refs'[k].no_upload = page'[k].no_upload /\ refs'[k].multiselect = page'[k].multiselect
    BY <1>4, <1>5, <2>1
  <2> QED  BY <2>2 DEF OfPage
<1> QED  BY <1>2, <1>5, <1>6 DEF Request

LEMMA EnterMaps ==
  ASSUME page \in Pages, view = "shown", RequestInv, NEW rs, OfPage(rs), NEW k,
         Edit(rs) \/ Submit(rs, k, "page"), page' = page
  PROVE  /\ AForm!Enter(ShownAs(rs), k)
         /\ OfPage(refs)' /\ Len(refs') = Len(rs) /\ RequestInv'
<1>1. CASE Edit(rs)
  <2>1. refs' = rs /\ view' = "shown"
    BY <1>1 DEF Edit
  <2>2. Shown' = ShownAs(rs)
    BY <2>1 DEF Shown, ShownAs, ShownRef
  <2>3. OfPage(refs)'
    BY <2>1 DEF OfPage
  <2>4. from_url' = FALSE /\ goto_params' = NULL
    BY <1>1 DEF Edit, RequestInv, request
  <2>5. RequestInv'
    BY <2>1, <2>4 DEF RequestInv
  <2>6. AForm!Enter(ShownAs(rs), k)
    BY <2>1, <2>2 DEF AForm!Enter
  <2> QED  BY <2>1, <2>3, <2>5, <2>6
<1>2. CASE Submit(rs, k, "page")
  BY <1>2, Submitted DEF AForm!Enter, AForm!Submitted, RequestInv
<1> QED  BY <1>1, <1>2

\* x in the place of reference k.
LEMMA OneChanged ==
  ASSUME page \in Pages, OfPage(refs), NEW k \in 1 .. Len(refs), NEW x \in Refs,
         x.tag = refs[k].tag, x.name = refs[k].name,
         x.no_upload = refs[k].no_upload, x.multiselect = refs[k].multiselect
  PROVE  /\ OfPage([refs EXCEPT ![k] = x]) /\ Len([refs EXCEPT ![k] = x]) = Len(refs)
         /\ ShownAs([refs EXCEPT ![k] = x]) = [Shown EXCEPT ![k] = ShownRef(x, page[k])]
<1> DEFINE rs == [refs EXCEPT ![k] = x]
<1>1. refs \in Seq(Refs) /\ Len(refs) \in Nat
  BY LenProperties DEF OfPage
<1>2. rs \in Seq(Refs) /\ Len(rs) = Len(refs) /\ \A j \in 1 .. Len(refs) : rs[j] = IF j = k THEN x ELSE refs[j]
  BY <1>1
<1> HIDE DEF rs
<1>3. OfPage(rs)
  BY <1>2 DEF OfPage
<1>4. ShownAs(rs) = [Shown EXCEPT ![k] = ShownRef(x, page[k])]
  <2>1. Shown = [j \in 1 .. Len(refs) |-> ShownRef(refs[j], page[j])]
    BY ShownIs DEF ShownAs
  <2>2. ShownAs(rs) = [j \in 1 .. Len(refs) |-> ShownRef(rs[j], page[j])]
    BY <1>2 DEF ShownAs
  <2> QED  BY <1>2, <2>1, <2>2
<1> QED  BY <1>2, <1>3, <1>4 DEF rs

LEMMA RefParts ==
  ASSUME page \in Pages, OfPage(refs), NEW k \in 1 .. Len(refs)
  PROVE  /\ refs[k] \in Refs /\ k \in 1 .. Len(page)
         /\ refs[k].tag = page[k].tag /\ refs[k].name = page[k].name
         /\ refs[k].no_upload = page[k].no_upload /\ refs[k].multiselect = page[k].multiselect
         /\ refs[k].value \in SUBSET Nat /\ refs[k].on \in BOOLEAN
         /\ Len(Shown) = Len(refs) /\ k \in 1 .. Len(Shown) /\ k \in DOMAIN refs /\ k \in DOMAIN Shown
         /\ Shown[k] = ShownRef(refs[k], page[k])
<1>1. refs \in Seq(Refs) /\ Len(refs) \in Nat /\ Len(refs) <= Len(page) /\ Len(page) \in Nat
  BY LenProperties, PageParts DEF OfPage
<1>2. refs[k] \in Refs /\ k \in 1 .. Len(page) /\ DOMAIN refs = 1 .. Len(refs)
  BY <1>1, LenProperties
<1>3. Shown = [j \in 1 .. Len(refs) |-> ShownRef(refs[j], page[j])]
  BY ShownIs DEF ShownAs
<1>4. Len(Shown) = Len(refs) /\ DOMAIN Shown = 1 .. Len(refs) /\ Shown[k] = ShownRef(refs[k], page[k])
  BY <1>1, <1>3, LenProperties
<1>5. /\ refs[k].tag = page[k].tag /\ refs[k].name = page[k].name
      /\ refs[k].no_upload = page[k].no_upload /\ refs[k].multiselect = page[k].multiselect
  BY DEF OfPage
<1>6. refs[k].value \in SUBSET Nat /\ refs[k].on \in BOOLEAN
  BY <1>2 DEF Refs
<1> QED  BY <1>2, <1>4, <1>5, <1>6

LEMMA DataChanged ==
  ASSUME page \in Pages, OfPage(refs), NEW k \in 1 .. Len(refs),
         page[k].tag \in {"x", "p"}, NEW t \in Strings
  PROVE  /\ OfPage([refs EXCEPT ![k].data = t]) /\ Len([refs EXCEPT ![k].data = t]) = Len(refs)
         /\ ShownAs([refs EXCEPT ![k].data = t]) = [Shown EXCEPT ![k].text = t]
<1> DEFINE x == [refs[k] EXCEPT !.data = t]
<1>1. /\ refs[k] \in Refs /\ refs[k].tag = page[k].tag /\ Shown[k] = ShownRef(refs[k], page[k])
  BY RefParts
<1>2. /\ x \in Refs /\ x.tag = refs[k].tag /\ x.name = refs[k].name /\ x.data = t
      /\ x.no_upload = refs[k].no_upload /\ x.multiselect = refs[k].multiselect
  BY <1>1 DEF Refs
<1>3. ShownRef(x, page[k]) = [Shown[k] EXCEPT !.text = t]
  <2> HIDE DEF x
  <2> QED  BY <1>1, <1>2 DEF ShownRef
<1>4. [refs EXCEPT ![k].data = t] = [refs EXCEPT ![k] = x]
  OBVIOUS
<1>5. [Shown EXCEPT ![k].text = t] = [Shown EXCEPT ![k] = [Shown[k] EXCEPT !.text = t]]
  OBVIOUS
<1> HIDE DEF x
<1> QED  BY <1>2, <1>3, <1>4, <1>5, OneChanged

LEMMA ValueChanged ==
  ASSUME page \in Pages, OfPage(refs), NEW k \in 1 .. Len(refs),
         page[k].tag = "s", NEW v \in SUBSET Nat
  PROVE  /\ OfPage([refs EXCEPT ![k].value = v]) /\ Len([refs EXCEPT ![k].value = v]) = Len(refs)
         /\ ShownAs([refs EXCEPT ![k].value = v]) = [Shown EXCEPT ![k].marked = v]
<1> DEFINE x == [refs[k] EXCEPT !.value = v]
<1>1. /\ refs[k] \in Refs /\ refs[k].tag = page[k].tag /\ Shown[k] = ShownRef(refs[k], page[k])
  BY RefParts
<1>2. /\ x \in Refs /\ x.tag = refs[k].tag /\ x.name = refs[k].name /\ x.value = v
      /\ x.no_upload = refs[k].no_upload /\ x.multiselect = refs[k].multiselect
  BY <1>1 DEF Refs
<1>3. ShownRef(x, page[k]) = [Shown[k] EXCEPT !.marked = v]
  <2> HIDE DEF x
  <2> QED  BY <1>1, <1>2 DEF ShownRef
<1>4. [refs EXCEPT ![k].value = v] = [refs EXCEPT ![k] = x]
  OBVIOUS
<1>5. [Shown EXCEPT ![k].marked = v] = [Shown EXCEPT ![k] = [Shown[k] EXCEPT !.marked = v]]
  OBVIOUS
<1> HIDE DEF x
<1> QED  BY <1>2, <1>3, <1>4, <1>5, OneChanged

LEMMA OnChanged ==
  ASSUME page \in Pages, OfPage(refs), NEW k \in 1 .. Len(refs),
         page[k].tag = "c", NEW v \in BOOLEAN
  PROVE  /\ OfPage([refs EXCEPT ![k].on = v]) /\ Len([refs EXCEPT ![k].on = v]) = Len(refs)
         /\ ShownAs([refs EXCEPT ![k].on = v])
              = [Shown EXCEPT ![k].marked = IF v THEN {1} ELSE {}]
<1> DEFINE x == [refs[k] EXCEPT !.on = v]
           m == IF v THEN {1} ELSE {}
<1>1. /\ refs[k] \in Refs /\ refs[k].tag = page[k].tag /\ Shown[k] = ShownRef(refs[k], page[k])
  BY RefParts
<1>2. /\ x \in Refs /\ x.tag = refs[k].tag /\ x.name = refs[k].name /\ x.on = v
      /\ x.no_upload = refs[k].no_upload /\ x.multiselect = refs[k].multiselect
  BY <1>1 DEF Refs
<1>3. ShownRef(x, page[k]) = [Shown[k] EXCEPT !.marked = m]
  <2>1. ShownRef(x, page[k]) = [text |-> page[k].text, marked |-> m]
    <3> HIDE DEF x
    <3> QED  BY <1>1, <1>2 DEF ShownRef
  <2>2. Shown[k] = [text |-> page[k].text, marked |-> IF refs[k].on THEN {1} ELSE {}]
    BY <1>1 DEF ShownRef
  <2> HIDE DEF m, x
  <2> QED  BY <2>1, <2>2
<1>4. [refs EXCEPT ![k].on = v] = [refs EXCEPT ![k] = x]
  OBVIOUS
<1>5. [Shown EXCEPT ![k].marked = m] = [Shown EXCEPT ![k] = [Shown[k] EXCEPT !.marked = m]]
  OBVIOUS
<1>6. /\ OfPage([refs EXCEPT ![k] = x]) /\ Len([refs EXCEPT ![k] = x]) = Len(refs)
      /\ ShownAs([refs EXCEPT ![k] = x]) = [Shown EXCEPT ![k] = ShownRef(x, page[k])]
  <2> HIDE DEF x
  <2> QED  BY <1>2, OneChanged
<1>7. /\ OfPage([refs EXCEPT ![k].on = v]) /\ Len([refs EXCEPT ![k].on = v]) = Len(refs)
      /\ ShownAs([refs EXCEPT ![k].on = v]) = [Shown EXCEPT ![k].marked = m]
  <2> HIDE DEF x, m
  <2> QED  BY <1>3, <1>4, <1>5, <1>6
<1> QED  BY <1>7

LEMMA MarkChanged ==
  ASSUME page \in Pages, OfPage(refs), NEW k \in 1 .. Len(refs), page[k].tag = "c"
  PROVE  /\ OfPage([refs EXCEPT ![k].on = ~@]) /\ Len([refs EXCEPT ![k].on = ~@]) = Len(refs)
         /\ ShownAs([refs EXCEPT ![k].on = ~@]) = [Shown EXCEPT ![k].marked = {1} \ @]
<1> DEFINE v == ~refs[k].on
           m == IF v THEN {1} ELSE {}
           w == {1} \ Shown[k].marked
<1>1. /\ refs[k].tag = "c" /\ Shown[k] = ShownRef(refs[k], page[k]) /\ refs[k].on \in BOOLEAN
  BY RefParts
<1>2. v \in BOOLEAN
  BY <1>1
<1>3. Shown[k].marked = IF refs[k].on THEN {1} ELSE {}
  BY <1>1 DEF ShownRef
<1>4. w = m
  <2>1. CASE refs[k].on
    BY <1>3, <2>1
  <2>2. CASE ~refs[k].on
    BY <1>3, <2>2
  <2> QED  BY <2>1, <2>2
<1>5. [refs EXCEPT ![k].on = ~@] = [refs EXCEPT ![k].on = v]
  OBVIOUS
<1>6. [Shown EXCEPT ![k].marked = {1} \ @] = [Shown EXCEPT ![k].marked = w]
  OBVIOUS
<1>7. /\ OfPage([refs EXCEPT ![k].on = v]) /\ Len([refs EXCEPT ![k].on = v]) = Len(refs)
      /\ ShownAs([refs EXCEPT ![k].on = v]) = [Shown EXCEPT ![k].marked = m]
  <2> HIDE DEF v
  <2> QED  BY <1>2, OnChanged
<1> HIDE DEF v, m, w
<1>8. [Shown EXCEPT ![k].marked = m] = [Shown EXCEPT ![k].marked = {1} \ @]
  BY <1>4, <1>6
<1> QED  BY <1>5, <1>7, <1>8

LEMMA FileChanged ==
  ASSUME page \in Pages, OfPage(refs), NEW k \in 1 .. Len(refs),
         page[k].tag \in {"x", "p"}, NEW f \in Files,
         NEW rs, rs = [refs EXCEPT ![k].upload_file_data_not_present = FALSE,
                                   ![k].full_filename = f, ![k].data = f]
  PROVE  /\ OfPage(rs) /\ Len(rs) = Len(refs)
         /\ ShownAs(rs) = [Shown EXCEPT ![k].text = f]
<1> DEFINE x == [refs[k] EXCEPT !.upload_file_data_not_present = FALSE,
                                !.full_filename = f, !.data = f]
<1>0. f \in Strings
  BY BytesAssumption
<1>1. /\ refs[k] \in Refs /\ refs[k].tag = page[k].tag /\ Shown[k] = ShownRef(refs[k], page[k])
  BY RefParts
<1>2. /\ x \in Refs /\ x.tag = refs[k].tag /\ x.name = refs[k].name /\ x.data = f
      /\ x.no_upload = refs[k].no_upload /\ x.multiselect = refs[k].multiselect
  BY <1>0, <1>1 DEF Refs
<1>3. ShownRef(x, page[k]) = [Shown[k] EXCEPT !.text = f]
  <2> HIDE DEF x
  <2> QED  BY <1>1, <1>2 DEF ShownRef
<1>4. rs = [refs EXCEPT ![k] = x]
  BY LenProperties DEF OfPage
<1>5. [Shown EXCEPT ![k].text = f] = [Shown EXCEPT ![k] = [Shown[k] EXCEPT !.text = f]]
  OBVIOUS
<1>6. /\ OfPage([refs EXCEPT ![k] = x]) /\ Len([refs EXCEPT ![k] = x]) = Len(refs)
      /\ ShownAs([refs EXCEPT ![k] = x]) = [Shown EXCEPT ![k] = ShownRef(x, page[k])]
  <2> HIDE DEF x
  <2> QED  BY <1>2, OneChanged
<1> HIDE DEF x
<1> QED  BY <1>3, <1>4, <1>5, <1>6

LEMMA AsSeq == ASSUME NEW n \in Nat, NEW S, NEW s \in [1 .. n -> S] PROVE s \in Seq(S) /\ Len(s) = n
BY LenProperties

LEMMA SetMarked ==
  ASSUME NEW t, NEW m, NEW n
  PROVE  [[text |-> t, marked |-> m] EXCEPT !.marked = n] = [text |-> t, marked |-> n]
OBVIOUS

LEMMA SameShown ==
  ASSUME NEW a, NEW b, NEW item, a.tag = b.tag, a.data = b.data, a.value = b.value, a.on = b.on
  PROVE  ShownRef(a, item) = ShownRef(b, item)
BY DEF ShownRef

\* The radio button k is on, the others of its group are off.
Same(k) == {j \in 1 .. Len(refs) : refs[j].name = refs[k].name}

OnlyOn(k) ==
  [j \in 1 .. Len(refs) |->
     [refs[j] EXCEPT !.on = IF j = k THEN TRUE ELSE @ /\ ~(j \in Same(k) /\ refs[j].tag = "r")]]

Chosen(k) ==
  [j \in 1 .. Len(Shown) |->
     IF j = k THEN [Shown[j] EXCEPT !.marked = {1}]
     ELSE IF j \in AForm!Group(k) THEN [Shown[j] EXCEPT !.marked = {}]
     ELSE Shown[j]]

LEMMA GroupChanged ==
  ASSUME page \in Pages, OfPage(refs), view = "shown", NEW k \in 1 .. Len(refs), page[k].tag = "r"
  PROVE  /\ OfPage(OnlyOn(k)) /\ Len(OnlyOn(k)) = Len(refs)
         /\ ShownAs(OnlyOn(k)) = Chosen(k)
<1> DEFINE on(j) == IF j = k THEN TRUE ELSE refs[j].on /\ ~(j \in Same(k) /\ refs[j].tag = "r")
           S(j) == IF j = k THEN [Shown[j] EXCEPT !.marked = {1}]
                   ELSE IF j \in AForm!Group(k) THEN [Shown[j] EXCEPT !.marked = {}]
                   ELSE Shown[j]
<1>1. refs \in Seq(Refs) /\ Len(refs) \in Nat /\ Len(Shown) = Len(refs)
  BY RefParts, LenProperties DEF OfPage
<1>2. AForm!Group(k) = {j \in 1 .. Len(refs) : page[j].tag = "r" /\ page[j].name = page[k].name}
  BY <1>1 DEF AForm!Group
<1>3. ASSUME NEW j \in 1 .. Len(refs)
      PROVE  /\ OnlyOn(k)[j] \in Refs /\ OnlyOn(k)[j].tag = page[j].tag /\ OnlyOn(k)[j].name = page[j].name
             /\ OnlyOn(k)[j].no_upload = page[j].no_upload /\ OnlyOn(k)[j].multiselect = page[j].multiselect
             /\ OnlyOn(k)[j].data = refs[j].data /\ OnlyOn(k)[j].value = refs[j].value /\ OnlyOn(k)[j].on = on(j)
  <2>1. /\ refs[j] \in Refs /\ refs[j].on \in BOOLEAN
        /\ refs[j].tag = page[j].tag /\ refs[j].name = page[j].name
        /\ refs[j].no_upload = page[j].no_upload /\ refs[j].multiselect = page[j].multiselect
    BY RefParts
  <2>2. OnlyOn(k)[j] = [refs[j] EXCEPT !.on = on(j)]
    BY DEF OnlyOn
  <2>3. on(j) \in BOOLEAN
    BY <2>1
  <2> HIDE DEF on
  <2> QED  BY <2>1, <2>2, <2>3 DEF Refs
<1>4. ASSUME NEW j \in 1 .. Len(refs)
      PROVE  ShownRef(OnlyOn(k)[j], page[j]) = S(j)
  <2>1. /\ refs[j].tag = page[j].tag /\ refs[j].name = page[j].name /\ refs[j].on \in BOOLEAN
        /\ Shown[j] = ShownRef(refs[j], page[j])
        /\ refs[k].tag = "r" /\ refs[k].name = page[k].name
    BY RefParts
  <2>2. j \in Same(k) /\ refs[j].tag = "r" <=> j \in AForm!Group(k)
    BY <1>2, <2>1 DEF Same
  <2>3. CASE page[j].tag = "r"
    <3>1. ShownRef(OnlyOn(k)[j], page[j]) = [text |-> page[j].text, marked |-> IF on(j) THEN {1} ELSE {}]
      <4> HIDE DEF on
      <4> QED  BY <1>3, <2>3 DEF ShownRef
    <3>2. Shown[j] = [text |-> page[j].text, marked |-> IF refs[j].on THEN {1} ELSE {}]
      BY <2>1, <2>3 DEF ShownRef
    <3>3. CASE j = k
      <4>1. on(j)
        BY <3>3
      <4>2. S(j) = [Shown[j] EXCEPT !.marked = {1}]
        BY <3>3
      <4>3. [Shown[j] EXCEPT !.marked = {1}] = [text |-> page[j].text, marked |-> {1}]
        <5> DEFINE m == IF refs[j].on THEN {1} ELSE {}
        <5>1. Shown[j] = [text |-> page[j].text, marked |-> m]
          BY <3>2
        <5> HIDE DEF m
        <5>2. [[text |-> page[j].text, marked |-> m] EXCEPT !.marked = {1}]
                = [text |-> page[j].text, marked |-> {1}]
          BY ONLY SetMarked
        <5> QED  BY ONLY <5>1, <5>2, Zenon
      <4> HIDE DEF on, S
      <4> QED  BY <3>1, <4>1, <4>2, <4>3
    <3>4. CASE j # k /\ j \in AForm!Group(k)
      <4>1. ~on(j)
        BY <2>2, <3>4
      <4>2. S(j) = [Shown[j] EXCEPT !.marked = {}]
        BY <3>4
      <4>3. [Shown[j] EXCEPT !.marked = {}] = [text |-> page[j].text, marked |-> {}]
        <5> DEFINE m == IF refs[j].on THEN {1} ELSE {}
        <5>1. Shown[j] = [text |-> page[j].text, marked |-> m]
          BY <3>2
        <5> HIDE DEF m
        <5>2. [[text |-> page[j].text, marked |-> m] EXCEPT !.marked = {}]
                = [text |-> page[j].text, marked |-> {}]
          BY ONLY SetMarked
        <5> QED  BY ONLY <5>1, <5>2, Zenon
      <4> HIDE DEF on, S
      <4> QED  BY <3>1, <4>1, <4>2, <4>3
    <3>5. CASE j # k /\ j \notin AForm!Group(k)
      <4>1. on(j) = refs[j].on
        BY <2>1, <2>2, <3>5
      <4>2. S(j) = Shown[j]
        BY <3>5
      <4> HIDE DEF on, S
      <4> QED  BY <3>1, <3>2, <4>1, <4>2
    <3> QED  BY <3>3, <3>4, <3>5
  <2>4. CASE page[j].tag # "r"
    <3>1. j # k /\ j \notin AForm!Group(k)
      BY <1>2, <2>4
    <3>2. on(j) = refs[j].on
      BY <2>1, <2>4, <3>1
    <3>3. S(j) = Shown[j]
      BY <3>1
    <3>4. /\ OnlyOn(k)[j].tag = refs[j].tag /\ OnlyOn(k)[j].data = refs[j].data
          /\ OnlyOn(k)[j].value = refs[j].value /\ OnlyOn(k)[j].on = refs[j].on
      <4> HIDE DEF on
      <4> QED  BY <1>3, <2>1, <3>2
    <3> HIDE DEF on, S
    <3> QED  BY <2>1, <3>3, <3>4, SameShown
  <2> QED  BY <2>3, <2>4
<1>5. OnlyOn(k) \in Seq(Refs) /\ Len(OnlyOn(k)) = Len(refs)
  <2>1. OnlyOn(k) \in [1 .. Len(refs) -> Refs]
    BY <1>3 DEF OnlyOn
  <2> QED  BY <1>1, <2>1, AsSeq
<1>6. OfPage(OnlyOn(k))
  <2>1. Len(refs) <= Len(page)
    BY DEF OfPage
  <2> QED  BY <1>3, <1>5, <2>1 DEF OfPage
<1>7. ShownAs(OnlyOn(k)) = [j \in 1 .. Len(refs) |-> ShownRef(OnlyOn(k)[j], page[j])]
  BY <1>5 DEF ShownAs
<1>8. [j \in 1 .. Len(refs) |-> ShownRef(OnlyOn(k)[j], page[j])] = [j \in 1 .. Len(Shown) |-> S(j)]
  <2> HIDE DEF S
  <2> QED  BY <1>1, <1>4
<1>9. Chosen(k) = [j \in 1 .. Len(Shown) |-> S(j)]
  BY DEF Chosen
<1> HIDE DEF S
<1> QED  BY <1>5, <1>6, <1>7, <1>8, <1>9

-----------------------------------------------------------------------------
(***************************************************************************)
(* The steps of the user on the page: each is an entry of the form.        *)
(***************************************************************************)

Simulates == [AForm!Next]_(AForm!vars)

\* What the form sees of a page on the screen.
LEMMA OnScreen ==
  ASSUME FormsInv, view = "shown"
  PROVE  /\ (IF view = "shown" THEN Shown ELSE <<>>) = Shown
         /\ (IF view = "leaving" THEN Request ELSE NULL) = NULL
         /\ Len(Shown) = Len(refs) /\ Len(refs) \in Nat
<1>1. refs \in Seq(Refs) /\ Len(refs) \in Nat
  BY LenProperties DEF FormsInv, RefsInv, OfPage
<1>2. Len(Shown) = Len(refs)
  BY <1>1, LenProperties DEF Shown
<1> QED  BY <1>1, <1>2

LEMMA EntryMaps ==
  ASSUME FormsInv, view = "shown", page' = page, NEW k \in 1 .. Len(refs),
         AForm!Type(k) \/ AForm!Pick(k) \/ AForm!Mark(k) \/ AForm!Tick(k)
           \/ AForm!Choose(k) \/ AForm!Attach(k) \/ AForm!Press(k) \/ AForm!Follow(k)
  PROVE  Simulates
<1>1. (IF view = "leaving" THEN Request ELSE NULL) = NULL /\ k \in 1 .. Len(IF view = "shown" THEN Shown ELSE <<>>)
  BY OnScreen
<1>2. AForm!Entry(k)
  BY <1>1 DEF AForm!Entry
<1>3. AForm!Next
  BY <1>1, <1>2 DEF AForm!Next
<1> QED  BY <1>3 DEF Simulates

\* The page itself, the cursor and the dialogs do not change with an entry.
LEMMA EntryKeepsRefs ==
  ASSUME FormsInv, OfPage(refs)', Len(refs') = Len(refs), UNCHANGED <<page, oms_pos, fed>>
  PROVE  RefsInv'
BY DEF FormsInv, RefsInv

LEMMA KeptKept ==
  ASSUME FormsInv, UNCHANGED <<page, kept>>
  PROVE  KeptInv' /\ Kept' = Kept
BY DEF FormsInv, KeptInv, Kept, kept

LEMMA NoDialogOk ==
  ASSUME dialog' = NoDialog
  PROVE  DialogInv'
BY DEF DialogInv, NoDialog

LEMMA PressedParts ==
  ASSUME FormsInv, NEW tags, NEW k \in 1 .. Len(refs), Pressed(k, tags)
  PROVE  /\ page \in Pages /\ OfPage(refs) /\ RequestInv
         /\ view = "shown" /\ dialog = NoDialog /\ page[k].tag \in tags
         /\ k \in 1 .. Len(page)
BY RefParts DEF FormsInv, RefsInv, Pressed

LEMMA EnterCheckBoxMaps ==
  ASSUME FormsInv, NEW k \in 1 .. Len(refs), EnterCheckBox(k)
  PROVE  FormsInv' /\ Simulates
<1> DEFINE rs == [refs EXCEPT ![k].on = ~@]
<1>1. /\ page \in Pages /\ OfPage(refs) /\ RequestInv
      /\ view = "shown" /\ dialog = NoDialog /\ page[k].tag = "c"
  BY PressedParts DEF EnterCheckBox
<1>2. /\ Edit(rs) \/ Submit(rs, k, "page")
      /\ UNCHANGED <<page, oms_pos, fed, kept, dialog, disk>>
  BY DEF EnterCheckBox
<1>3. OfPage(rs) /\ Len(rs) = Len(refs) /\ ShownAs(rs) = [Shown EXCEPT ![k].marked = {1} \ @]
  BY <1>1, MarkChanged
<1> HIDE DEF rs
<1>4. AForm!Enter(ShownAs(rs), k) /\ OfPage(refs)' /\ Len(refs') = Len(rs) /\ RequestInv'
  BY <1>1, <1>2, <1>3, EnterMaps
<1>5. FormsInv' /\ Kept' = Kept
  BY <1>1, <1>2, <1>3, <1>4, EntryKeepsRefs, KeptKept, NoDialogOk DEF FormsInv
<1>6. AForm!Tick(k)
  <2>1. (IF view = "shown" THEN Shown ELSE <<>>) = Shown
    BY <1>1
  <2>2. AForm!Enter([Shown EXCEPT ![k].marked = {1} \ @], k)
    BY <1>3, <1>4
  <2> QED  BY <1>1, <1>5, <2>1, <2>2 DEF AForm!Tick
<1> QED  BY <1>1, <1>2, <1>5, <1>6, EntryMaps

LEMMA EnterRadioMaps ==
  ASSUME FormsInv, NEW k \in 1 .. Len(refs), EnterRadio(k)
  PROVE  FormsInv' /\ Simulates
<1> DEFINE rs == OnlyOn(k)
<1>1. /\ page \in Pages /\ OfPage(refs) /\ RequestInv
      /\ view = "shown" /\ dialog = NoDialog /\ page[k].tag = "r"
  BY PressedParts DEF EnterRadio
<1>2. /\ Edit(rs) \/ Submit(rs, k, "page")
      /\ UNCHANGED <<page, oms_pos, fed, kept, dialog, disk>>
  BY DEF EnterRadio, OnlyOn, Same
<1>3. OfPage(rs) /\ Len(rs) = Len(refs) /\ ShownAs(rs) = Chosen(k)
  BY <1>1, GroupChanged
<1> HIDE DEF rs
<1>4. AForm!Enter(ShownAs(rs), k) /\ OfPage(refs)' /\ Len(refs') = Len(rs) /\ RequestInv'
  BY <1>1, <1>2, <1>3, EnterMaps
<1>5. FormsInv' /\ Kept' = Kept
  BY <1>1, <1>2, <1>3, <1>4, EntryKeepsRefs, KeptKept, NoDialogOk DEF FormsInv
<1>6. AForm!Choose(k)
  <2>1. (IF view = "shown" THEN Shown ELSE <<>>) = Shown
    BY <1>1
  <2>2. AForm!Enter(Chosen(k), k)
    BY <1>3, <1>4
  <2> QED  BY <1>1, <1>5, <2>1, <2>2 DEF AForm!Choose, Chosen
<1> QED  BY <1>1, <1>2, <1>5, <1>6, EntryMaps

LEMMA EnterButtonMaps ==
  ASSUME FormsInv, NEW k \in 1 .. Len(refs), EnterButton(k)
  PROVE  FormsInv' /\ Simulates
<1>1. /\ page \in Pages /\ OfPage(refs) /\ RequestInv
      /\ view = "shown" /\ dialog = NoDialog /\ page[k].tag \in {"i", "u"}
  BY PressedParts DEF EnterButton
<1>2. /\ Submit(refs, k, "page")
      /\ UNCHANGED <<page, oms_pos, fed, kept, dialog, disk>>
  BY DEF EnterButton
<1>3. /\ view' = "leaving" /\ OfPage(refs)' /\ Len(refs') = Len(refs)
      /\ Request' = [to |-> "page", from |-> TRUE, params |-> AForm!Carried(ShownAs(refs), k)]
  BY <1>1, <1>2, Submitted
<1>4. FormsInv' /\ Kept' = Kept
  BY <1>1, <1>2, <1>3, EntryKeepsRefs, KeptKept, NoDialogOk DEF FormsInv, RequestInv
<1>5. AForm!Press(k)
  BY <1>1, <1>3, <1>4, ShownIs DEF AForm!Press, AForm!Submitted
<1> QED  BY <1>1, <1>2, <1>4, <1>5, EntryMaps

LEMMA EnterScriptMaps ==
  ASSUME FormsInv, NEW k \in 1 .. Len(refs), EnterScript(k)
  PROVE  FormsInv' /\ Simulates
<1>1. /\ page \in Pages /\ OfPage(refs) /\ RequestInv
      /\ view = "shown" /\ dialog = NoDialog /\ page[k].tag = "L" /\ page[k].link = "script"
  BY PressedParts DEF EnterScript, IsLink
<1>2. /\ Submit(refs, k, "script")
      /\ UNCHANGED <<page, oms_pos, fed, kept, dialog, disk>>
  BY DEF EnterScript
<1>3. /\ view' = "leaving" /\ OfPage(refs)' /\ Len(refs') = Len(refs)
      /\ Request' = [to |-> "script", from |-> TRUE, params |-> AForm!Carried(ShownAs(refs), k)]
  BY <1>1, <1>2, Submitted
<1>4. FormsInv' /\ Kept' = Kept
  BY <1>1, <1>2, <1>3, EntryKeepsRefs, KeptKept, NoDialogOk DEF FormsInv, RequestInv
<1>5. AForm!Follow(k)
  BY <1>1, <1>3, <1>4, ShownIs DEF AForm!Follow, AForm!Script
<1> QED  BY <1>1, <1>2, <1>4, <1>5, EntryMaps

LEMMA EnterLinkMaps ==
  ASSUME FormsInv, NEW k \in 1 .. Len(refs), EnterLink(k)
  PROVE  FormsInv' /\ Simulates
<1>1. /\ page \in Pages /\ OfPage(refs) /\ RequestInv
      /\ view = "shown" /\ dialog = NoDialog /\ page[k].tag = "L" /\ page[k].link # "script"
  BY PressedParts DEF EnterLink, IsLink
<1>2. /\ UNCHANGED <<page, oms_pos, fed, refs, kept, dialog, from_url, goto_params>>
      /\ goto_url' = "link" /\ view' = "leaving"
  BY DEF EnterLink, pageVars
<1>3. OfPage(refs)'
  BY <1>1, <1>2 DEF OfPage
<1>4. FormsInv' /\ Kept' = Kept
  BY <1>1, <1>2, <1>3, EntryKeepsRefs, KeptKept, NoDialogOk DEF FormsInv, RequestInv
<1>5. Request' = [to |-> "link", from |-> FALSE, params |-> NULL]
  BY <1>1, <1>2 DEF RequestInv, Request
<1>6. AForm!Follow(k)
  BY <1>1, <1>2, <1>4, <1>5 DEF AForm!Follow, AForm!Plain
<1> QED  BY <1>1, <1>2, <1>4, <1>6, EntryMaps

-----------------------------------------------------------------------------
(***************************************************************************)
(* The steps the form does not see.                                        *)
(***************************************************************************)

LEMMA Stutters ==
  ASSUME UNCHANGED <<page, refs, kept, view>>,
         view # "leaving" \/ UNCHANGED <<goto_url, from_url, goto_params>>
  PROVE  Simulates
<1>1. Shown' = Shown /\ Kept' = Kept
  BY DEF Shown, Kept, kept
<1>2. (IF view = "leaving" THEN Request ELSE NULL)' = (IF view = "leaving" THEN Request ELSE NULL)
  BY DEF Request
<1>3. (IF view = "shown" THEN Shown ELSE <<>>)' = (IF view = "shown" THEN Shown ELSE <<>>)
  BY <1>1
<1> QED  BY <1>1, <1>2, <1>3 DEF Simulates, AForm!vars

LEMMA SameRefs ==
  ASSUME FormsInv, UNCHANGED <<page, fed, refs, kept, view, from_url, goto_params>>,
         oms_pos' = oms_pos \/ fed = Len(page)
  PROVE  RefsInv' /\ KeptInv' /\ RequestInv'
<1>1. OfPage(refs)'
  BY DEF FormsInv, RefsInv, OfPage
<1>2. RefsInv'
  BY <1>1 DEF FormsInv, RefsInv
<1>3. RequestInv'
  BY DEF FormsInv, RequestInv
<1> QED  BY <1>2, <1>3, KeptKept

LEMMA EnterFieldMaps ==
  ASSUME FormsInv, NEW k \in 1 .. Len(refs), EnterField(k)
  PROVE  FormsInv' /\ Simulates
<1>1. view = "shown" /\ page[k].tag \in {"x", "p"}
  BY PressedParts DEF EnterField
<1>2. /\ dialog' = [kind |-> "input", pos_ref |-> k, stale |-> FALSE]
      /\ UNCHANGED <<page, fed, oms_pos, refs, kept, view, goto_url, from_url, goto_params>>
  BY DEF EnterField, pageVars, request
<1>3. DialogInv'
  BY <1>1, <1>2, OnScreen DEF DialogInv
<1> QED  BY <1>2, <1>3, SameRefs, Stutters DEF FormsInv

LEMMA EnterListMaps ==
  ASSUME ~HurriedUser, FormsInv, NEW k \in 1 .. Len(refs), EnterList(k)
  PROVE  FormsInv' /\ Simulates
<1>1. view = "shown" /\ page[k].tag = "s" /\ fed = Len(page)
  BY PressedParts DEF EnterList, Loaded
<1>2. /\ dialog' = [kind |-> "list", pos_ref |-> k, stale |-> FALSE]
      /\ UNCHANGED <<page, fed, refs, kept, view, goto_url, from_url, goto_params>>
  BY DEF EnterList, request
<1>3. DialogInv'
  BY <1>1, <1>2, OnScreen DEF DialogInv
<1> QED  BY <1>1, <1>2, <1>3, SameRefs, Stutters DEF FormsInv

LEMMA EnterFileSelectMaps ==
  ASSUME ~HurriedUser, ~ScrolledUser, FormsInv, NEW k \in 1 .. Len(refs), EnterFileSelect(k)
  PROVE  FormsInv' /\ Simulates
<1>1. /\ view = "shown" /\ fed = Len(page) /\ k > 1
      /\ page \in Pages /\ k \in 1 .. Len(page) /\ page[k].link = "fileselect"
  BY PressedParts DEF EnterFileSelect, IsLink, Loaded
<1>2. /\ dialog' = [kind |-> "files", pos_ref |-> k - 1, stale |-> FALSE]
      /\ UNCHANGED <<page, fed, oms_pos, refs, kept, view, from_url, goto_params>>
  BY DEF EnterFileSelect, PrevRef, pageVars
<1>3. page[k - 1].tag \in {"x", "p"} /\ k - 1 \in 1 .. Len(refs)
  BY <1>1, PageParts, OnScreen
<1>4. DialogInv'
  BY <1>1, <1>2, <1>3 DEF DialogInv
<1> QED  BY <1>1, <1>2, <1>4, SameRefs, Stutters DEF FormsInv

LEMMA CloseDialogMaps ==
  ASSUME FormsInv, CloseDialog
  PROVE  FormsInv' /\ Simulates
<1>1. /\ dialog' = NoDialog
      /\ UNCHANGED <<page, fed, oms_pos, refs, kept, view, goto_url, from_url, goto_params>>
  BY DEF CloseDialog, pageVars, request
<1> QED  BY <1>1, SameRefs, Stutters, NoDialogOk DEF FormsInv

LEMMA DiskChangesMaps ==
  ASSUME FormsInv, NEW f, DiskChanges(f)
  PROVE  FormsInv' /\ Simulates
<1>1. /\ dialog' = NoDialog
      /\ UNCHANGED <<page, fed, oms_pos, refs, kept, view, goto_url, from_url, goto_params>>
  BY DEF DiskChanges, pageVars, request
<1> QED  BY <1>1, SameRefs, Stutters, NoDialogOk DEF FormsInv

LEMMA NothingMaps ==
  ASSUME FormsInv, UNCHANGED vars
  PROVE  FormsInv' /\ Simulates
<1>1. UNCHANGED <<page, fed, oms_pos, refs, kept, dialog, view, goto_url, from_url, goto_params>>
  BY DEF vars, pageVars, request
<1>2. DialogInv'
  BY <1>1 DEF FormsInv, DialogInv
<1> QED  BY <1>1, <1>2, SameRefs, Stutters DEF FormsInv

\* The form is gone and comes again: the page is away, with its entries kept.
LEMMA LeaveMaps ==
  ASSUME Connections = {TRUE}, FormsInv, Leave
  PROVE  FormsInv' /\ Simulates
<1>1. /\ view = "leaving" /\ view' = "away"
      /\ from_url' = FALSE /\ goto_params' = NULL
      /\ UNCHANGED <<page, fed, oms_pos, refs, kept, dialog>>
  BY DEF Leave, pageVars
<1>2. OfPage(refs)'
  BY <1>1 DEF FormsInv, RefsInv, OfPage
<1>3. dialog.kind = "none"
  BY <1>1 DEF FormsInv, DialogInv
<1>4. DialogInv'
  BY <1>1, <1>3 DEF FormsInv, DialogInv
<1>5. FormsInv' /\ Kept' = Kept
  BY <1>1, <1>2, <1>4, EntryKeepsRefs, KeptKept DEF FormsInv, RequestInv
<1>6. AForm!Sent
  BY <1>1, <1>5 DEF AForm!Sent
<1> QED  BY <1>5, <1>6 DEF Simulates, AForm!Next

LEMMA ReturnMaps ==
  ASSUME FormsInv, Return
  PROVE  FormsInv' /\ Simulates
<1>1. /\ view = "away" /\ view' = "shown"
      /\ refs' = <<>> /\ oms_pos' = 0 /\ fed' = 0
      /\ UNCHANGED <<page, kept, dialog, goto_url, from_url, goto_params>>
  BY DEF Return, request
<1>2. page \in Pages /\ Len(page) \in Nat
  BY PageParts DEF FormsInv, RefsInv
<1>3. OfPage(refs)' /\ RefsInv'
  BY <1>1, <1>2 DEF OfPage, RefsInv
<1>4. dialog.kind = "none"
  BY <1>1 DEF FormsInv, DialogInv
<1>5. DialogInv'
  BY <1>1, <1>4 DEF FormsInv, DialogInv
<1>6. RequestInv'
  BY <1>1 DEF FormsInv, RequestInv
<1>7. FormsInv' /\ Kept' = Kept
  BY <1>1, <1>3, <1>5, <1>6, KeptKept DEF FormsInv
<1>8. Shown' = <<>>
  BY <1>1 DEF Shown
<1>9. UNCHANGED AForm!vars
  BY <1>1, <1>7, <1>8 DEF AForm!vars
<1> QED  BY <1>7, <1>9 DEF Simulates

-----------------------------------------------------------------------------
(***************************************************************************)
(* The dialogs, and what is kept of their answers.                         *)
(***************************************************************************)

LEMMA TextRemembered ==
  ASSUME KeptInv, NEW k \in 1 .. Len(page), page[k].tag \in {"x", "p"}, NEW t \in Texts,
         user_text' = Keep(user_text, k, t), UNCHANGED <<page, user_list>>
  PROVE  KeptInv' /\ AForm!Remember(k, AForm!Value(t, page[k].marked))
<1> DEFINE new == [text |-> t, marked |-> page[k].marked]
<1>1. /\ DOMAIN user_text' = DOMAIN user_text \cup {k}
      /\ user_text'[k] = t
      /\ \A j \in DOMAIN user_text : j # k => user_text'[j] = user_text[j]
  BY DEF Keep
<1>2. KeptInv'
  <2>1. user_text' \in [DOMAIN user_text' -> Texts]
    BY DEF Keep, KeptInv
  <2> QED  BY <1>1, <2>1 DEF KeptInv
<1>3. DOMAIN Kept = DOMAIN user_text \cup DOMAIN user_list
  BY DEF Kept
<1>4. Kept' = [j \in DOMAIN user_text' \cup DOMAIN user_list |->
                 IF j \in DOMAIN user_text'
                   THEN [text |-> user_text'[j], marked |-> page[j].marked]
                   ELSE [text |-> page[j].text, marked |-> user_list[j]]]
  BY DEF Kept
<1>5. ASSUME NEW j \in DOMAIN Kept \cup {k}
      PROVE  Kept'[j] = IF j = k THEN new ELSE Kept[j]
  <2>1. j \in DOMAIN user_text' \cup DOMAIN user_list
    BY <1>1, <1>3
  <2>2. CASE j = k
    BY <1>1, <1>4, <2>1, <2>2
  <2>3. CASE j # k /\ j \in DOMAIN user_text
    <3>1. Kept'[j] = [text |-> user_text[j], marked |-> page[j].marked]
      BY <1>1, <1>4, <2>1, <2>3
    <3>2. Kept[j] = [text |-> user_text[j], marked |-> page[j].marked]
      BY <2>3 DEF Kept
    <3> QED  BY <2>3, <3>1, <3>2
  <2>4. CASE j # k /\ j \notin DOMAIN user_text
    <3>1. Kept'[j] = [text |-> page[j].text, marked |-> user_list[j]]
      BY <1>1, <1>4, <2>1, <2>4
    <3>2. Kept[j] = [text |-> page[j].text, marked |-> user_list[j]]
      BY <1>3, <2>4 DEF Kept
    <3> QED  BY <2>4, <3>1, <3>2
  <2> QED  BY <2>2, <2>3, <2>4
<1>6. DOMAIN Kept' = DOMAIN Kept \cup {k} /\ Kept' = [j \in DOMAIN Kept' |-> Kept'[j]]
  BY <1>1, <1>3, <1>4
<1> HIDE DEF new
<1>7. Kept' = [j \in DOMAIN Kept \cup {k} |-> IF j = k THEN new ELSE Kept[j]]
  BY <1>5, <1>6
<1> QED  BY <1>2, <1>7 DEF new, AForm!Remember, AForm!Value

LEMMA ChoiceRemembered ==
  ASSUME KeptInv, NEW k \in 1 .. Len(page), page[k].tag = "s", NEW v \in SUBSET Nat,
         user_list' = Keep(user_list, k, v), UNCHANGED <<page, user_text>>
  PROVE  KeptInv' /\ AForm!Remember(k, AForm!Value(page[k].text, v))
<1> DEFINE new == [text |-> page[k].text, marked |-> v]
<1>1. /\ DOMAIN user_list' = DOMAIN user_list \cup {k}
      /\ user_list'[k] = v
      /\ \A j \in DOMAIN user_list : j # k => user_list'[j] = user_list[j]
  BY DEF Keep
<1>2. KeptInv'
  <2>1. user_list' \in [DOMAIN user_list' -> SUBSET Nat]
    BY DEF Keep, KeptInv
  <2> QED  BY <1>1, <2>1 DEF KeptInv
<1>3. DOMAIN Kept = DOMAIN user_text \cup DOMAIN user_list /\ k \notin DOMAIN user_text
  BY DEF Kept, KeptInv
<1>4. Kept' = [j \in DOMAIN user_text \cup DOMAIN user_list' |->
                 IF j \in DOMAIN user_text
                   THEN [text |-> user_text[j], marked |-> page[j].marked]
                   ELSE [text |-> page[j].text, marked |-> user_list'[j]]]
  BY DEF Kept
<1>5. ASSUME NEW j \in DOMAIN Kept \cup {k}
      PROVE  Kept'[j] = IF j = k THEN new ELSE Kept[j]
  <2>1. j \in DOMAIN user_text \cup DOMAIN user_list'
    BY <1>1, <1>3
  <2>2. CASE j = k
    BY <1>1, <1>3, <1>4, <2>1, <2>2
  <2>3. CASE j # k /\ j \in DOMAIN user_text
    <3>1. Kept'[j] = [text |-> user_text[j], marked |-> page[j].marked]
      BY <1>4, <2>1, <2>3
    <3>2. Kept[j] = [text |-> user_text[j], marked |-> page[j].marked]
      BY <2>3 DEF Kept
    <3> QED  BY <2>3, <3>1, <3>2
  <2>4. CASE j # k /\ j \notin DOMAIN user_text
    <3>1. Kept'[j] = [text |-> page[j].text, marked |-> user_list[j]]
      BY <1>1, <1>3, <1>4, <2>1, <2>4
    <3>2. Kept[j] = [text |-> page[j].text, marked |-> user_list[j]]
      BY <1>3, <2>4 DEF Kept
    <3> QED  BY <2>4, <3>1, <3>2
  <2> QED  BY <2>2, <2>3, <2>4
<1>6. DOMAIN Kept' = DOMAIN Kept \cup {k} /\ Kept' = [j \in DOMAIN Kept' |-> Kept'[j]]
  BY <1>1, <1>3, <1>4
<1> HIDE DEF new
<1>7. Kept' = [j \in DOMAIN Kept \cup {k} |-> IF j = k THEN new ELSE Kept[j]]
  BY <1>5, <1>6
<1> QED  BY <1>2, <1>7 DEF new, AForm!Remember, AForm!Value

LEMMA DialogParts ==
  ASSUME FormsInv, dialog.kind # "none"
  PROVE  LET k == dialog.pos_ref
         IN  /\ page \in Pages /\ OfPage(refs) /\ RequestInv /\ KeptInv
             /\ view = "shown" /\ k \in 1 .. Len(refs) /\ k \in 1 .. Len(page)
             /\ refs[k].multiselect = page[k].multiselect
             /\ dialog.kind \in {"input", "files"} => page[k].tag \in {"x", "p"}
             /\ dialog.kind = "list" => page[k].tag = "s"
             /\ dialog.kind = "files" => ~dialog.stale
BY RefParts DEF FormsInv, RefsInv, DialogInv

LEMMA InputOkMaps ==
  ASSUME FormsInv, NEW t \in Texts, NEW green, InputOk(t, green)
  PROVE  FormsInv' /\ Simulates
<1> DEFINE k == dialog.pos_ref
           rs == [refs EXCEPT ![k].data = t]
<1>1. /\ dialog.kind = "input" /\ user_text' = Keep(user_text, k, t) /\ dialog' = NoDialog
      /\ Edit(rs) \/ Submit(rs, k, "page")
      /\ UNCHANGED <<page, oms_pos, fed, user_list, disk>>
  BY DEF InputOk
<1>2. /\ page \in Pages /\ OfPage(refs) /\ RequestInv /\ KeptInv
      /\ view = "shown" /\ k \in 1 .. Len(refs) /\ k \in 1 .. Len(page)
      /\ page[k].tag \in {"x", "p"}
  BY <1>1, DialogParts
<1>3. t \in Strings
  BY BytesAssumption
<1> HIDE DEF k
<1>4. OfPage(rs) /\ Len(rs) = Len(refs) /\ ShownAs(rs) = [Shown EXCEPT ![k].text = t]
  BY <1>2, <1>3, DataChanged
<1> HIDE DEF rs
<1>5. AForm!Enter(ShownAs(rs), k) /\ OfPage(refs)' /\ Len(refs') = Len(rs) /\ RequestInv'
  BY <1>1, <1>2, <1>4, EnterMaps
<1>6. KeptInv' /\ AForm!Remember(k, AForm!Value(t, page[k].marked))
  BY <1>1, <1>2, TextRemembered
<1>7. FormsInv'
  BY <1>1, <1>4, <1>5, <1>6, EntryKeepsRefs, NoDialogOk DEF FormsInv
<1>8. AForm!Type(k)
  <2>1. (IF view = "shown" THEN Shown ELSE <<>>) = Shown
    BY <1>2
  <2>2. AForm!Enter([Shown EXCEPT ![k].text = t], k)
    BY <1>4, <1>5
  <2> QED  BY <1>2, <1>6, <2>1, <2>2 DEF AForm!Type
<1> QED  BY <1>1, <1>2, <1>7, <1>8, EntryMaps

LEMMA TakeItemMaps ==
  ASSUME NearPages, FormsInv, NEW i \in Nat, TakeItem(i)
  PROVE  FormsInv' /\ Simulates
<1> DEFINE k == dialog.pos_ref
           v == At(k, Short(page[k].places[i]))
           rs == [refs EXCEPT ![k].value = v]
<1>1. /\ dialog.kind = "list" /\ ~refs[k].multiselect /\ i \in DOMAIN page[k].options
      /\ user_list' = Keep(user_list, k, v) /\ dialog' = NoDialog
      /\ Edit(rs) \/ Submit(rs, k, "page")
      /\ UNCHANGED <<page, oms_pos, fed, user_text, disk>>
  BY DEF TakeItem
<1>2. /\ page \in Pages /\ OfPage(refs) /\ RequestInv /\ KeptInv
      /\ view = "shown" /\ k \in 1 .. Len(refs) /\ k \in 1 .. Len(page)
      /\ page[k].tag = "s" /\ ~page[k].multiselect
  BY <1>1, DialogParts
<1>0. v = {i}
  <2> HIDE DEF k
  <2> QED  BY <1>1, <1>2, PlaceIsOption
<1> HIDE DEF k, v
<1>3. OfPage(rs) /\ Len(rs) = Len(refs) /\ ShownAs(rs) = [Shown EXCEPT ![k].marked = {i}]
  BY <1>0, <1>2, ValueChanged
<1> HIDE DEF rs
<1>4. AForm!Enter(ShownAs(rs), k) /\ OfPage(refs)' /\ Len(refs') = Len(rs) /\ RequestInv'
  BY <1>1, <1>2, <1>3, EnterMaps
<1>5. KeptInv' /\ AForm!Remember(k, AForm!Value(page[k].text, {i}))
  BY <1>0, <1>1, <1>2, ChoiceRemembered
<1>6. FormsInv'
  BY <1>1, <1>3, <1>4, <1>5, EntryKeepsRefs, NoDialogOk DEF FormsInv
<1>7. AForm!Pick(k)
  <2>1. (IF view = "shown" THEN Shown ELSE <<>>) = Shown
    BY <1>2
  <2>2. AForm!Enter([Shown EXCEPT ![k].marked = {i}], k)
    BY <1>3, <1>4
  <2> QED  BY <1>1, <1>2, <1>5, <2>1, <2>2 DEF AForm!Pick
<1> QED  BY <1>1, <1>2, <1>6, <1>7, EntryMaps

\* A form that stays on the screen: the dialog is about the same reference.
LEMMA Edited ==
  ASSUME FormsInv, view = "shown", NEW rs, OfPage(rs), Len(rs) = Len(refs), Edit(rs),
         UNCHANGED <<page, oms_pos, fed, kept>>, dialog' = dialog \/ dialog' = NoDialog
  PROVE  /\ FormsInv' /\ Kept' = Kept /\ view' = "shown"
         /\ Shown' = ShownAs(rs)
<1>1. refs' = rs /\ view' = view /\ UNCHANGED <<from_url, goto_params>>
  BY DEF Edit, request
<1>2. OfPage(refs)' /\ Len(refs') = Len(refs)
  BY <1>1 DEF OfPage
<1>3. Shown' = ShownAs(rs)
  BY <1>1 DEF Shown, ShownAs, ShownRef
<1>4. RequestInv'
  BY <1>1 DEF FormsInv, RequestInv
<1>5. DialogInv'
  <2>1. CASE dialog' = dialog
    BY <1>1, <1>2, <2>1 DEF FormsInv, DialogInv
  <2>2. CASE dialog' = NoDialog
    BY <2>2, NoDialogOk
  <2> QED  BY <2>1, <2>2
<1> QED  BY <1>1, <1>2, <1>3, <1>4, <1>5, EntryKeepsRefs, KeptKept DEF FormsInv

LEMMA MarkItemMaps ==
  ASSUME FormsInv, NEW i \in Nat, MarkItem(i)
  PROVE  FormsInv' /\ Simulates
<1> DEFINE k == dialog.pos_ref
           v == IF i \in refs[k].value THEN refs[k].value \ {i} ELSE refs[k].value \cup {i}
           rs == [refs EXCEPT ![k].value = v]
           w == (Shown[k].marked \ {i}) \cup ({i} \ Shown[k].marked)
<1>1. /\ dialog.kind = "list" /\ refs[k].multiselect /\ i \in DOMAIN page[k].options
      /\ UNCHANGED <<page, oms_pos, fed, kept, dialog, disk>>
  BY DEF MarkItem
<1>2. Edit(rs)
  <2>1. Edit([refs EXCEPT ![k].value = IF i \in @ THEN @ \ {i} ELSE @ \cup {i}])
    BY DEF MarkItem
  <2>2. [refs EXCEPT ![k].value = IF i \in @ THEN @ \ {i} ELSE @ \cup {i}] = rs
    OBVIOUS
  <2> HIDE DEF rs
  <2> QED  BY <2>1, <2>2
<1>3. /\ page \in Pages /\ OfPage(refs)
      /\ view = "shown" /\ k \in 1 .. Len(refs) /\ k \in 1 .. Len(page)
      /\ page[k].tag = "s" /\ page[k].multiselect
  BY <1>1, DialogParts
<1> HIDE DEF k
<1>4. /\ refs[k].value \in SUBSET Nat /\ refs[k].tag = "s" /\ Shown[k] = ShownRef(refs[k], page[k])
  BY <1>3, RefParts
<1>5. v \in SUBSET Nat
  BY <1>4
<1>6. w = v
  <2>1. Shown[k].marked = refs[k].value
    BY <1>4 DEF ShownRef
  <2> QED  BY <2>1
<1>7. OfPage(rs) /\ Len(rs) = Len(refs) /\ ShownAs(rs) = [Shown EXCEPT ![k].marked = v]
  <2> HIDE DEF v
  <2> QED  BY <1>3, <1>5, ValueChanged
<1>8. [Shown EXCEPT ![k].marked = (@ \ {i}) \cup ({i} \ @)] = [Shown EXCEPT ![k].marked = w]
  OBVIOUS
<1> HIDE DEF rs, v, w
<1>9. /\ FormsInv' /\ Kept' = Kept /\ view' = "shown"
      /\ Shown' = [Shown EXCEPT ![k].marked = (@ \ {i}) \cup ({i} \ @)]
  <2>1. FormsInv' /\ Kept' = Kept /\ view' = "shown" /\ Shown' = ShownAs(rs)
    BY <1>1, <1>2, <1>3, <1>7, Edited
  <2> QED  BY <1>6, <1>7, <1>8, <2>1
<1>10. AForm!Mark(k)
  <2>1. (IF view = "shown" THEN Shown ELSE <<>>) = Shown
    BY <1>3
  <2>2. (IF view = "shown" THEN Shown ELSE <<>>)' = [Shown EXCEPT ![k].marked = (@ \ {i}) \cup ({i} \ @)]
    BY <1>9
  <2>3. (IF view = "leaving" THEN Request ELSE NULL)' = (IF view = "leaving" THEN Request ELSE NULL)
    BY <1>3, <1>9
  <2> QED  BY <1>1, <1>3, <1>9, <2>1, <2>2, <2>3 DEF AForm!Mark
<1> QED  BY <1>1, <1>3, <1>9, <1>10, EntryMaps

LEMMA TakeFileMaps ==
  ASSUME FormsInv, NEW f \in Files, TakeFile(f)
  PROVE  FormsInv' /\ Simulates
<1> DEFINE k == dialog.pos_ref
           rs == [refs EXCEPT ![k].upload_file_data_not_present = FALSE,
                              ![k].full_filename = f, ![k].data = f]
<1>1. /\ dialog.kind = "files" /\ dialog' = NoDialog
      /\ UNCHANGED <<page, oms_pos, fed, kept, disk>>
  BY DEF TakeFile
<1>2. /\ page \in Pages /\ OfPage(refs)
      /\ view = "shown" /\ k \in 1 .. Len(refs) /\ k \in 1 .. Len(page)
      /\ page[k].tag \in {"x", "p"} /\ ~dialog.stale
  BY <1>1, DialogParts
<1>3. Edit(rs)
  BY <1>2, SMT DEF TakeFile
<1> HIDE DEF k
<1>4. rs = [refs EXCEPT ![k].upload_file_data_not_present = FALSE,
                        ![k].full_filename = f, ![k].data = f]
  OBVIOUS
<1> HIDE DEF rs
<1>5. OfPage(rs) /\ Len(rs) = Len(refs) /\ ShownAs(rs) = [Shown EXCEPT ![k].text = f]
  BY <1>2, <1>4, FileChanged
<1>6. FormsInv' /\ Kept' = Kept /\ view' = "shown" /\ Shown' = [Shown EXCEPT ![k].text = f]
  BY <1>1, <1>2, <1>3, <1>5, Edited
<1>7. AForm!Attach(k)
  <2>1. (IF view = "shown" THEN Shown ELSE <<>>) = Shown
    BY <1>2
  <2>2. (IF view = "shown" THEN Shown ELSE <<>>)' = [Shown EXCEPT ![k].text = f]
    BY <1>6
  <2>3. (IF view = "leaving" THEN Request ELSE NULL)' = (IF view = "leaving" THEN Request ELSE NULL)
    BY <1>2, <1>6
  <2> QED  BY <1>2, <1>6, <2>1, <2>2, <2>3 DEF AForm!Attach
<1> QED  BY <1>1, <1>2, <1>6, <1>7, EntryMaps

-----------------------------------------------------------------------------
(***************************************************************************)
(* A control arrives: it shows what was kept of it, or what the page says. *)
(***************************************************************************)

LEMMA NewRefOk ==
  ASSUME FormsInv, NEW k \in 1 .. Len(page)
  PROVE  LET rf == NewRef(k)
         IN  /\ rf \in Refs
             /\ rf.tag = page[k].tag /\ rf.name = page[k].name
             /\ rf.no_upload = page[k].no_upload /\ rf.multiselect = page[k].multiselect
             /\ rf.data = IF k \in DOMAIN user_text THEN user_text[k] ELSE page[k].text
             /\ rf.value = IF k \in DOMAIN user_list THEN user_list[k] ELSE page[k].marked
             /\ rf.on <=> page[k].marked # {}
<1> DEFINE data == IF k \in DOMAIN user_text THEN user_text[k] ELSE page[k].text
           value == IF k \in DOMAIN user_list THEN user_list[k] ELSE page[k].marked
           on == page[k].marked # {}
           rf == [tag |-> page[k].tag, name |-> page[k].name, no_upload |-> page[k].no_upload,
                  multiselect |-> page[k].multiselect, data |-> data, value |-> value,
                  on |-> on, upload_file_data_not_present |-> TRUE, full_filename |-> NULL]
<1>1. NewRef(k) = rf
  BY DEF NewRef
<1>2. page[k] \in Controls
  BY PageParts DEF FormsInv, RefsInv
<1>3. /\ page[k].tag \in {"L", "x", "p", "s", "c", "r", "i", "u"} /\ page[k].name \in Strings
      /\ page[k].text \in Strings /\ page[k].marked \in SUBSET Nat
      /\ page[k].multiselect \in BOOLEAN /\ page[k].no_upload \in BOOLEAN
  BY <1>2 DEF Controls
<1>4. data \in Strings
  BY <1>3, BytesAssumption DEF FormsInv, KeptInv
<1>5. value \in SUBSET Nat
  BY <1>3 DEF FormsInv, KeptInv
<1>6. on \in BOOLEAN
  OBVIOUS
<1>7. /\ rf \in Refs /\ rf.tag = page[k].tag /\ rf.name = page[k].name
      /\ rf.no_upload = page[k].no_upload /\ rf.multiselect = page[k].multiselect
      /\ rf.data = data /\ rf.value = value /\ rf.on = on
  <2> HIDE DEF data, value, on
  <2> QED  BY <1>3, <1>4, <1>5, <1>6 DEF Refs
<1> HIDE DEF rf
<1> QED  BY <1>1, <1>7

LEMMA KeptOf ==
  ASSUME FormsInv, NEW k \in 1 .. Len(page)
  PROVE  /\ k \in DOMAIN user_text =>
              /\ page[k].tag \in {"x", "p"} /\ k \notin DOMAIN user_list
              /\ AForm!Initial(k) = [text |-> user_text[k], marked |-> page[k].marked]
         /\ k \in DOMAIN user_list =>
              /\ page[k].tag = "s" /\ k \notin DOMAIN user_text
              /\ AForm!Initial(k) = [text |-> page[k].text, marked |-> user_list[k]]
         /\ k \notin DOMAIN user_text /\ k \notin DOMAIN user_list =>
              AForm!Initial(k) = [text |-> page[k].text, marked |-> page[k].marked]
<1>1. /\ k \in DOMAIN user_text => page[k].tag \in {"x", "p"} /\ k \notin DOMAIN user_list
      /\ k \in DOMAIN user_list => page[k].tag = "s" /\ k \notin DOMAIN user_text
  BY DEF FormsInv, KeptInv
<1>2. AForm!Initial(k) = IF k \in DOMAIN Kept THEN Kept[k]
                         ELSE [text |-> page[k].text, marked |-> page[k].marked]
  BY DEF AForm!Initial, AForm!Value
<1>3. DOMAIN Kept = DOMAIN user_text \cup DOMAIN user_list
  BY DEF Kept
<1>4. CASE k \in DOMAIN user_text
  <2>1. Kept[k] = [text |-> user_text[k], marked |-> page[k].marked]
    BY <1>4 DEF Kept
  <2> QED  BY <1>1, <1>2, <1>3, <1>4, <2>1
<1>5. CASE k \in DOMAIN user_list
  <2>1. Kept[k] = [text |-> page[k].text, marked |-> user_list[k]]
    BY <1>1, <1>5 DEF Kept
  <2> QED  BY <1>1, <1>2, <1>3, <1>5, <2>1
<1>6. CASE k \notin DOMAIN user_text /\ k \notin DOMAIN user_list
  BY <1>2, <1>3, <1>6
<1> QED  BY <1>4, <1>5, <1>6

LEMMA NewRefShows ==
  ASSUME FormsInv, NEW k \in 1 .. Len(page)
  PROVE  ShownRef(NewRef(k), page[k]) = AForm!Initial(k)
<1> DEFINE rf == NewRef(k)
<1>1. /\ rf.tag = page[k].tag
      /\ rf.data = IF k \in DOMAIN user_text THEN user_text[k] ELSE page[k].text
      /\ rf.value = IF k \in DOMAIN user_list THEN user_list[k] ELSE page[k].marked
      /\ rf.on <=> page[k].marked # {}
  BY NewRefOk
<1>2. /\ page[k].tag \in {"c", "r"} => page[k].marked \in {{}, {1}}
      /\ page[k].tag \in {"L", "x", "p", "s", "c", "r", "i", "u"}
  <2>1. page[k] \in Controls /\ page[k].tag \in {"c", "r"} => page[k].marked \in {{}, {1}}
    BY PageParts DEF FormsInv, RefsInv
  <2>2. page[k] \in Controls
    BY PageParts DEF FormsInv, RefsInv
  <2> QED  BY <2>1, <2>2 DEF Controls
<1> HIDE DEF rf
<1>3. CASE page[k].tag \in {"x", "p"}
  <2>1. ShownRef(rf, page[k]) = [text |-> rf.data, marked |-> page[k].marked]
    BY <1>1, <1>3 DEF ShownRef
  <2>2. k \notin DOMAIN user_list
    BY <1>3, KeptOf
  <2> QED  BY <1>1, <2>1, <2>2, KeptOf DEF rf
<1>4. CASE page[k].tag = "s"
  <2>1. ShownRef(rf, page[k]) = [text |-> page[k].text, marked |-> rf.value]
    BY <1>1, <1>4 DEF ShownRef
  <2>2. k \notin DOMAIN user_text
    BY <1>4, KeptOf
  <2> QED  BY <1>1, <2>1, <2>2, KeptOf DEF rf
<1>5. CASE page[k].tag \in {"c", "r"}
  <2>1. ShownRef(rf, page[k]) = [text |-> page[k].text, marked |-> IF rf.on THEN {1} ELSE {}]
    BY <1>1, <1>5 DEF ShownRef
  <2>2. (IF rf.on THEN {1} ELSE {}) = page[k].marked
    BY <1>1, <1>2, <1>5
  <2>3. k \notin DOMAIN user_text /\ k \notin DOMAIN user_list
    BY <1>5, KeptOf
  <2> QED  BY <2>1, <2>2, <2>3, KeptOf DEF rf
<1>6. CASE page[k].tag \in {"L", "i", "u"}
  <2>1. ShownRef(rf, page[k]) = [text |-> page[k].text, marked |-> page[k].marked]
    BY <1>1, <1>6 DEF ShownRef
  <2>2. k \notin DOMAIN user_text /\ k \notin DOMAIN user_list
    BY <1>6, KeptOf
  <2> QED  BY <2>1, <2>2, KeptOf DEF rf
<1> QED  BY <1>2, <1>3, <1>4, <1>5, <1>6

LEMMA ArriveMaps ==
  ASSUME FormsInv, Arrive
  PROVE  FormsInv' /\ Simulates
<1> DEFINE n == Len(refs)
           rf == NewRef(n + 1)
<1>1. /\ page \in Pages /\ OfPage(refs) /\ fed = n /\ (fed < Len(page) => oms_pos = fed)
      /\ Len(page) \in Nat /\ n \in Nat /\ refs \in Seq(Refs)
  BY PageParts, LenProperties DEF FormsInv, RefsInv, OfPage
<1>2. /\ view = "shown" /\ fed < Len(page)
      /\ fed' = fed + 1 /\ oms_pos' = oms_pos + 1
      /\ refs' = Append(refs, NewRef(oms_pos + 1))
      /\ dialog' = [dialog EXCEPT !.stale = dialog.kind = "files"]
      /\ UNCHANGED <<page, kept, view, goto_url, from_url, goto_params>>
  BY DEF Arrive, request
<1>3. /\ oms_pos = n /\ n + 1 \in 1 .. Len(page) /\ refs' = Append(refs, rf)
      /\ fed' = n + 1 /\ oms_pos' = n + 1
  BY <1>1, <1>2
<1>4. /\ rf \in Refs
      /\ rf.tag = page[n + 1].tag /\ rf.name = page[n + 1].name
      /\ rf.no_upload = page[n + 1].no_upload /\ rf.multiselect = page[n + 1].multiselect
      /\ ShownRef(rf, page[n + 1]) = AForm!Initial(n + 1)
  BY <1>3, NewRefOk, NewRefShows
<1> HIDE DEF rf
<1>5. /\ refs' \in Seq(Refs) /\ Len(refs') = n + 1
      /\ \A k \in 1 .. n + 1 : refs'[k] = IF k = n + 1 THEN rf ELSE refs[k]
  BY <1>1, <1>3, <1>4
<1>6. OfPage(refs)'
  <2>1. \A k \in 1 .. n : /\ refs[k].tag = page[k].tag /\ refs[k].name = page[k].name
                          /\ refs[k].no_upload = page[k].no_upload
                          /\ refs[k].multiselect = page[k].multiselect
    BY <1>1 DEF OfPage
  <2>2. ASSUME NEW k \in 1 .. n + 1
        PROVE  /\ refs'[k].tag = page[k].tag /\ refs'[k].name = page[k].name
               /\ refs'[k].no_upload = page[k].no_upload /\ refs'[k].multiselect = page[k].multiselect
    <3>1. CASE k = n + 1
      BY <1>4, <1>5, <3>1
    <3>2. CASE k # n + 1
      <4>1. k \in 1 .. n /\ refs'[k] = refs[k]
        BY <1>1, <1>5, <3>2
      <4> QED  BY <2>1, <4>1
    <3> QED  BY <3>1, <3>2
  <2>3. Len(refs') <= Len(page')
    BY <1>1, <1>2, <1>3, <1>5
  <2> QED  BY <1>2, <1>5, <2>2, <2>3 DEF OfPage
<1>7. RefsInv'
  BY <1>1, <1>2, <1>3, <1>5, <1>6 DEF RefsInv
<1>8. DialogInv'
  <2>1. /\ dialog \in [kind: {"none", "input", "list", "files"}, pos_ref: Nat, stale: BOOLEAN]
        /\ dialog.kind # "files"
        /\ dialog.kind # "none" => dialog.pos_ref \in 1 .. n
        /\ dialog.kind = "input" => page[dialog.pos_ref].tag \in {"x", "p"}
        /\ dialog.kind = "list" => page[dialog.pos_ref].tag = "s"
    BY <1>1, <1>2 DEF FormsInv, DialogInv
  <2>2. /\ dialog' \in [kind: {"none", "input", "list", "files"}, pos_ref: Nat, stale: BOOLEAN]
        /\ dialog'.kind = dialog.kind /\ dialog'.pos_ref = dialog.pos_ref
    BY <1>2, <2>1
  <2> QED  BY <1>1, <1>2, <1>5, <2>1, <2>2 DEF DialogInv
<1>9. RequestInv'
  BY <1>2 DEF FormsInv, RequestInv
<1>10. FormsInv' /\ Kept' = Kept
  BY <1>2, <1>7, <1>8, <1>9, KeptKept DEF FormsInv
<1>11. Shown' = Append(Shown, AForm!Initial(n + 1))
  <2>1. Shown = [k \in 1 .. n |-> ShownRef(refs[k], page[k])]
    BY ShownIs DEF ShownAs
  <2>2. Shown' = [k \in 1 .. n + 1 |-> ShownRef(refs'[k], page[k])]
    BY <1>2, <1>5 DEF Shown, ShownRef
  <2>3. Append(Shown, AForm!Initial(n + 1))
          = [k \in 1 .. n + 1 |-> IF k = n + 1 THEN AForm!Initial(n + 1) ELSE Shown[k]]
    <3>1. Len(Shown) = n
      BY <1>1, <2>1, LenProperties
    <3> DEFINE x == AForm!Initial(n + 1)
           S == {Shown[k] : k \in 1 .. n} \cup {x}
    <3>2. Shown \in Seq(S) /\ x \in S
      <4>1. Shown \in [1 .. n -> S]
        BY <2>1
      <4> HIDE DEF n, S, x
      <4>2. Shown \in Seq(S)
        BY <1>1, <4>1, AsSeq
      <4> QED  BY <4>2 DEF S
    <3> HIDE DEF x, n, S
    <3>3. /\ Append(Shown, x) \in Seq(S) /\ Len(Append(Shown, x)) = n + 1
          /\ \A k \in 1 .. n + 1 : Append(Shown, x)[k] = IF k = n + 1 THEN x ELSE Shown[k]
      BY <1>1, <3>1, <3>2
    <3>4. Append(Shown, x) = [k \in 1 .. n + 1 |-> Append(Shown, x)[k]]
      BY <3>3, LenProperties
    <3> QED  BY <3>3, <3>4 DEF x
  <2>4. ASSUME NEW k \in 1 .. n + 1
        PROVE  ShownRef(refs'[k], page[k]) = IF k = n + 1 THEN AForm!Initial(n + 1) ELSE Shown[k]
    <3>1. CASE k = n + 1
      BY <1>4, <1>5, <3>1
    <3>2. CASE k # n + 1
      <4>1. k \in 1 .. n /\ refs'[k] = refs[k]
        BY <1>1, <1>5, <3>2
      <4> QED  BY <2>1, <3>2, <4>1
    <3> QED  BY <3>1, <3>2
  <2> QED  BY <2>2, <2>3, <2>4
<1>12. AForm!Grow
  <2>1. (IF view = "shown" THEN Shown ELSE <<>>) = Shown /\ Len(Shown) = n
    BY <1>2, OnScreen
  <2>2. (IF view = "shown" THEN Shown ELSE <<>>)' = Append(Shown, AForm!Initial(n + 1))
    BY <1>2, <1>11
  <2>3. /\ (IF view = "leaving" THEN Request ELSE NULL) = NULL
        /\ (IF view = "leaving" THEN Request ELSE NULL)' = (IF view = "leaving" THEN Request ELSE NULL)
    BY <1>2
  <2>4. n < Len(page)
    BY <1>1, <1>2
  <2> HIDE DEF n
  <2> QED  BY <1>2, <1>10, <2>1, <2>2, <2>3, <2>4 DEF AForm!Grow
<1> QED  BY <1>10, <1>12 DEF Simulates, AForm!Next

-----------------------------------------------------------------------------

LEMMA FormsInit ==
  ASSUME Init
  PROVE  FormsInv /\ AForm!Init
<1>1. /\ page \in Pages /\ refs = <<>> /\ fed = 0 /\ oms_pos = 0
      /\ user_text = <<>> /\ user_list = <<>> /\ dialog = NoDialog
      /\ view = "shown" /\ from_url = FALSE /\ goto_params = NULL
  BY DEF Init
<1>2. Len(page) \in Nat
  BY <1>1, PageParts
<1>3. RefsInv
  BY <1>1, <1>2 DEF RefsInv, OfPage
<1>4. KeptInv
  BY <1>1 DEF KeptInv
<1>5. DialogInv /\ RequestInv
  BY <1>1 DEF DialogInv, NoDialog, RequestInv
<1>6. Shown = <<>> /\ Kept = <<>>
  BY <1>1 DEF Shown, Kept
<1> QED  BY <1>1, <1>3, <1>4, <1>5, <1>6 DEF FormsInv, AForm!Init

LEMMA FormsStep ==
  ASSUME ~HurriedUser, ~ScrolledUser, NearPages, Connections = {TRUE}, FormsInv, [Next]_vars
  PROVE  FormsInv' /\ Simulates
<1>1. CASE Arrive
  BY <1>1, ArriveMaps
<1>2. CASE CloseDialog
  BY <1>2, CloseDialogMaps
<1>3. CASE Leave
  BY <1>3, LeaveMaps
<1>4. CASE Return
  BY <1>4, ReturnMaps
<1>5. ASSUME NEW k \in 1 .. Len(refs),
             \/ EnterLink(k) \/ EnterScript(k) \/ EnterFileSelect(k)
             \/ EnterRadio(k) \/ EnterCheckBox(k) \/ EnterButton(k)
             \/ EnterField(k) \/ EnterList(k)
      PROVE  FormsInv' /\ Simulates
  BY <1>5, EnterLinkMaps, EnterScriptMaps, EnterFileSelectMaps, EnterRadioMaps,
     EnterCheckBoxMaps, EnterButtonMaps, EnterFieldMaps, EnterListMaps
<1>6. ASSUME NEW t \in Texts, NEW green \in BOOLEAN, InputOk(t, green)
      PROVE  FormsInv' /\ Simulates
  BY <1>6, InputOkMaps
<1>7. ASSUME NEW i \in 1 .. Len(page), MarkItem(i) \/ TakeItem(i)
      PROVE  FormsInv' /\ Simulates
  <2>1. i \in Nat
    BY PageParts DEF FormsInv, RefsInv
  <2> QED  BY <1>7, <2>1, MarkItemMaps, TakeItemMaps
<1>8. ASSUME NEW f \in Files, TakeFile(f) \/ DiskChanges(f)
      PROVE  FormsInv' /\ Simulates
  BY <1>8, TakeFileMaps, DiskChangesMaps
<1>9. CASE UNCHANGED vars
  BY <1>9, NothingMaps
<1> QED  BY <1>1, <1>2, <1>3, <1>4, <1>5, <1>6, <1>7, <1>8, <1>9 DEF Next

(* For a user who waits for the page, and has the field on the screen when *)
(* a file is attached to it; for pages with their lists' options at places *)
(* an unsigned short can hold; and a connection that can be made: whatever *)
(* else the pages, texts and files are, an entry changes the control it    *)
(* was made in, the request carries what is shown, and what was typed or   *)
(* picked is there again after Back (main.c:698-822, display_utils.c:      *)
(* 1173-1214, 1363-1411, 1487-1531, collectItemsParams).  Without any one  *)
(* of these it is not so: a list opened early moves the place the parser   *)
(* goes on from; a field scrolled away has no reference to give the file   *)
(* to; an option further in is remembered by another place; and a failed   *)
(* connection leaves its parameters to the next link.                      *)
THEOREM FormsImplementForm ==
  ASSUME ~HurriedUser, ~ScrolledUser, NearPages, Connections = {TRUE}
  PROVE  Spec => ImplementsForm
<1>1. Init => FormsInv /\ AForm!Init
  BY FormsInit
<1>2. FormsInv /\ [Next]_vars => FormsInv' /\ [AForm!Next]_(AForm!vars)
  BY FormsStep DEF Simulates
<1> QED  BY <1>1, <1>2, PTL DEF Spec, ImplementsForm, AForm!Spec

-----------------------------------------------------------------------------
(***************************************************************************)
(* Folds.  The set the induction is over takes the place of a predicate.   *)
(***************************************************************************)

\* A set of naturals has a least element.
LEMMA MinOfNats ==
  ASSUME NEW S \in SUBSET Nat, S # {}
  PROVE  /\ Min(S) \in S
         /\ \A x \in S : Min(S) <= x
<1> DEFINE Less == {ss \in Nat \X Nat : ss[1] < ss[2]}
<1>1. IsWellFoundedOn(Less, Nat)
  BY NatLessThanWellFounded DEF OpToRel
<1>2. PICK u \in S : \A n \in S : <<n, u>> \notin Less
  <2> HIDE DEF Less
  <2> QED  BY <1>1, WFMin
<1>3. \A n \in S : u <= n
  <2> SUFFICES ASSUME NEW n \in S, n < u PROVE FALSE
    OBVIOUS
  <2>1. <<n, u>> \in Nat \X Nat /\ <<n, u>>[1] < <<n, u>>[2]
    OBVIOUS
  <2>2. <<n, u>> \in Less
    BY <2>1
  <2> QED  BY <1>2, <2>2
<1>4. \E x \in S : \A y \in S : x =< y
  BY <1>3
<1> QED  BY <1>4 DEF Min

LEMMA Induction ==
  ASSUME NEW K, 0 \in K, \A k \in Nat : k \in K => k + 1 \in K
  PROVE  \A k \in Nat : k \in K
<1> SUFFICES ASSUME NEW k \in Nat, k \notin K PROVE FALSE
  OBVIOUS
<1> DEFINE Out == {j \in Nat : j \notin K}
           m == Min(Out)
<1>1. m \in Out /\ \A x \in Out : m <= x
  <2>1. Out \in SUBSET Nat /\ Out # {}
    OBVIOUS
  <2> HIDE DEF Out
  <2> QED  BY <2>1, MinOfNats
<1>2. m # 0 /\ m \in Nat /\ m - 1 \notin Out
  <2>1. m # 0 /\ m \in Nat
    BY <1>1
  <2> HIDE DEF Out, m
  <2> QED  BY <1>1, <2>1
<1>3. m - 1 \in Nat /\ m - 1 \in K /\ (m - 1) + 1 = m
  <2>1. m - 1 \in Nat /\ (m - 1) + 1 = m
    <3> HIDE DEF m
    <3> QED  BY <1>2
  <2> QED  BY <1>2, <2>1
<1>4. m \in K
  BY <1>3
<1> QED  BY <1>1, <1>4

LEMMA MaxOfRange ==
  ASSUME NEW n \in Nat, NEW T \in SUBSET (1 .. n), T # {}
  PROVE  Max(T) \in T /\ \A x \in T : x <= Max(T)
<1> DEFINE U == {u \in Nat : \A x \in T : x <= u}
           m == Min(U)
<1>1. m \in U /\ \A u \in U : m <= u
  <2>1. U \in SUBSET Nat /\ n \in U
    OBVIOUS
  <2> HIDE DEF U
  <2> QED  BY <2>1, MinOfNats
<1>2. m \in Nat /\ \A x \in T : x <= m
  BY <1>1
<1>3. m \in T
  <2> SUFFICES ASSUME m \notin T PROVE FALSE
    OBVIOUS
  <2>0. \A x \in T : x \in Nat /\ 1 <= x /\ x # m
    OBVIOUS
  <2>1. m - 1 \in Nat /\ \A x \in T : x <= m - 1
    <3>1. PICK t \in T : TRUE
      OBVIOUS
    <3> HIDE DEF m
    <3>2. m >= 1
      BY <1>2, <2>0, <3>1
    <3>3. ASSUME NEW x \in T PROVE x <= m - 1
      BY <1>2, <2>0
    <3> QED  BY <1>2, <3>2, <3>3
  <2>2. m <= m - 1
    BY <1>1, <2>1
  <2> HIDE DEF m
  <2> QED  BY <1>2, <2>2
<1>4. \E x \in T : \A y \in T : x >= y
  <2> HIDE DEF m
  <2> QED  BY <1>2, <1>3
<1>5. Max(T) \in T /\ \A y \in T : Max(T) >= y
  BY <1>4 DEF Max
<1> QED  BY <1>5

\* F folds the places up to m: the last place of a set comes last.
IsFold(F, base, op, m) ==
  \A T \in SUBSET (1 .. m) :
    F[T] = IF T = {} THEN base ELSE op[<<F[T \ {Max(T)}], Max(T)>>]

LEMMA FoldExtends ==
  ASSUME NEW L, NEW base \in L, NEW n \in Nat, NEW op \in [L \X (1 .. n) -> L],
         NEW m \in Nat, NEW e, e = m + 1, e <= n,
         NEW F \in [SUBSET (1 .. m) -> L], IsFold(F, base, op, m)
  PROVE  \E H \in [SUBSET (1 .. e) -> L] : IsFold(H, base, op, e)
<1> DEFINE H == [T \in SUBSET (1 .. e) |-> IF e \in T THEN op[<<F[T \ {e}], e>>] ELSE F[T]]
<1>1. /\ e \in Nat /\ e \in 1 .. n /\ 1 .. m \subseteq 1 .. e /\ e \notin 1 .. m
  OBVIOUS
<1>2. \A T \in SUBSET (1 .. e) : T \ {e} \in SUBSET (1 .. m)
  OBVIOUS
<1>3. H \in [SUBSET (1 .. e) -> L]
  <2> SUFFICES ASSUME NEW T \in SUBSET (1 .. e)
               PROVE  (IF e \in T THEN op[<<F[T \ {e}], e>>] ELSE F[T]) \in L
    OBVIOUS
  <2>1. F[T \ {e}] \in L /\ (e \notin T => T = T \ {e})
    BY <1>2
  <2> QED  BY <1>1, <2>1
<1>4. ASSUME NEW T \in SUBSET (1 .. e)
      PROVE  H[T] = IF T = {} THEN base ELSE op[<<H[T \ {Max(T)}], Max(T)>>]
  <2>1. CASE e \in T
    <3>1. Max(T) \in T /\ \A x \in T : x <= Max(T)
      BY <2>1, <1>1, MaxOfRange
    <3>2. Max(T) = e
      <4>1. Max(T) \in 1 .. e /\ e <= Max(T)
        BY <2>1, <3>1
      <4> HIDE DEF H
      <4> QED  BY <4>1, <1>1
    <3>3. T \ {e} \in SUBSET (1 .. e) /\ e \notin T \ {e}
      OBVIOUS
    <3>4. H[T \ {e}] = F[T \ {e}]
      BY <3>3
    <3>5. H[T] = op[<<F[T \ {e}], e>>]
      BY <2>1
    <3> HIDE DEF H
    <3> QED  BY <2>1, <3>2, <3>4, <3>5
  <2>2. CASE e \notin T
    <3>1. T \in SUBSET (1 .. m)
      BY <1>2, <2>2
    <3>2. F[T] = IF T = {} THEN base ELSE op[<<F[T \ {Max(T)}], Max(T)>>]
      BY <3>1 DEF IsFold
    <3>3. H[T] = F[T]
      BY <2>2
    <3>4. T \ {Max(T)} \in SUBSET (1 .. e) /\ e \notin T \ {Max(T)}
      BY <2>2
    <3>5. H[T \ {Max(T)}] = F[T \ {Max(T)}]
      BY <3>4
    <3> HIDE DEF H
    <3> QED  BY <3>2, <3>3, <3>5
  <2> QED  BY <2>1, <2>2
<1> HIDE DEF H
<1>5. IsFold(H, base, op, e)
  BY <1>4 DEF IsFold
<1> QED  BY <1>3, <1>5

\* A fold over n elements is a function of the sets of their places.
LEMMA FoldIsDefined ==
  ASSUME NEW L, NEW base \in L, NEW n \in Nat, NEW op \in [L \X (1 .. n) -> L]
  PROVE  \E F \in [SUBSET (1 .. n) -> L] : IsFold(F, base, op, n)
<1> DEFINE K == {m \in Nat : m <= n => \E F \in [SUBSET (1 .. m) -> L] : IsFold(F, base, op, m)}
<1>1. 0 \in K
  <2>1. SUBSET (1 .. 0) = {{}}
    OBVIOUS
  <2>2. [T \in SUBSET (1 .. 0) |-> base] \in [SUBSET (1 .. 0) -> L]
    OBVIOUS
  <2>3. IsFold([T \in SUBSET (1 .. 0) |-> base], base, op, 0)
    BY <2>1 DEF IsFold
  <2>4. \E F \in [SUBSET (1 .. 0) -> L] : IsFold(F, base, op, 0)
    BY <2>2, <2>3
  <2> QED  BY <2>4
<1>2. ASSUME NEW m \in Nat, m \in K PROVE m + 1 \in K
  <2>1. m + 1 \in Nat /\ (m + 1 <= n => m <= n)
    OBVIOUS
  <2>2. ASSUME m + 1 <= n
        PROVE  \E F \in [SUBSET (1 .. m + 1) -> L] : IsFold(F, base, op, m + 1)
    <3>1. PICK F \in [SUBSET (1 .. m) -> L] : IsFold(F, base, op, m)
      BY <1>2, <2>1, <2>2
    <3> HIDE DEF K
    <3> QED  BY <2>2, <3>1, FoldExtends
  <2> QED  BY <2>1, <2>2
<1>3. n \in K
  <2> HIDE DEF K
  <2> QED  BY <1>1, <1>2, Induction
<1>4. n <= n
  OBVIOUS
<1> QED  BY <1>3, <1>4

\* Its places are taken in order.
LEMMA FoldInOrder ==
  ASSUME NEW n \in Nat, NEW k \in 1 .. n
  PROVE  /\ 1 .. k \in SUBSET (1 .. n) /\ 1 .. k # {} /\ 1 .. k - 1 \in SUBSET (1 .. n)
         /\ Max(1 .. k) = k /\ (1 .. k) \ {Max(1 .. k)} = 1 .. k - 1
<1>1. k \in 1 .. k /\ 1 .. k \in SUBSET (1 .. n) /\ k \in Nat
  OBVIOUS
<1>2. Max(1 .. k) \in 1 .. k /\ \A x \in 1 .. k : x <= Max(1 .. k)
  BY <1>1, MaxOfRange
<1>3. Max(1 .. k) = k
  BY <1>1, <1>2
<1> QED  BY <1>1, <1>3

\* A sum, number by number.
LEMMA TotalInTurn ==
  ASSUME NEW n \in Nat, NEW s \in [1 .. n -> Nat]
  PROVE  \E r \in [0 .. n -> Nat] :
           /\ r[0] = 0 /\ \A k \in 1 .. n : r[k] = r[k - 1] + s[k]
           /\ Total(s) = r[n]
<1> DEFINE op == [p \in Nat \X (1 .. n) |-> p[1] + s[p[2]]]
<1>1. op \in [Nat \X (1 .. n) -> Nat]
  OBVIOUS
<1>2. PICK F0 \in [SUBSET (1 .. n) -> Nat] : IsFold(F0, 0, op, n)
  <2> HIDE DEF op
  <2> QED  BY <1>1, FoldIsDefined
<1> DEFINE Is(F) == F = [T \in SUBSET DOMAIN s |->
                           IF T = {} THEN 0 ELSE F[T \ {Max(T)}] + s[Max(T)]]
           G == CHOOSE F : Is(F)
<1>3. DOMAIN s = 1 .. n
  OBVIOUS
<1>4. Is(F0)
  <2>1. ASSUME NEW T \in SUBSET (1 .. n), T # {}
        PROVE  op[<<F0[T \ {Max(T)}], Max(T)>>] = F0[T \ {Max(T)}] + s[Max(T)]
    <3>1. Max(T) \in T
      BY <2>1, MaxOfRange
    <3>2. T \ {Max(T)} \in SUBSET (1 .. n) /\ Max(T) \in 1 .. n
      BY <3>1
    <3>3. F0[T \ {Max(T)}] \in Nat
      BY <1>2, <3>2
    <3> QED  BY <3>2, <3>3
  <2> HIDE DEF op
  <2>2. ASSUME NEW T \in SUBSET (1 .. n)
        PROVE  (IF T = {} THEN 0 ELSE op[<<F0[T \ {Max(T)}], Max(T)>>])
               = IF T = {} THEN 0 ELSE F0[T \ {Max(T)}] + s[Max(T)]
    BY <2>1
  <2> QED  BY <1>2, <1>3, <2>2 DEF IsFold
<1>5. Is(G)
  <2> HIDE DEF Is
  <2> QED  BY <1>4
<1>6. Total(s) = G[DOMAIN s]
  BY DEF Total, FoldLeft, MapThenFoldSet
<1> HIDE DEF G
<1>7. G[{}] = 0
  BY <1>3, <1>5
<1>8. ASSUME NEW k \in 1 .. n PROVE G[1 .. k] = G[1 .. k - 1] + s[k]
  <2>1. /\ 1 .. k \in SUBSET (1 .. n) /\ 1 .. k # {}
        /\ Max(1 .. k) = k /\ (1 .. k) \ {Max(1 .. k)} = 1 .. k - 1
    BY FoldInOrder
  <2>2. G[1 .. k] = G[(1 .. k) \ {Max(1 .. k)}] + s[Max(1 .. k)]
    BY <1>3, <1>5, <2>1
  <2> QED  BY <2>1, <2>2
<1> HIDE DEF Is
<1> DEFINE r == [k \in 0 .. n |-> G[1 .. k]]
           K == {k \in Nat : k <= n => G[1 .. k] \in Nat}
<1>9. 0 \in K
  <2>1. 1 .. 0 = {}
    OBVIOUS
  <2> QED  BY <1>7, <2>1
<1>10. ASSUME NEW k \in Nat, k \in K PROVE k + 1 \in K
  <2> SUFFICES ASSUME k + 1 <= n PROVE G[1 .. k + 1] \in Nat
    OBVIOUS
  <2>1. k + 1 \in 1 .. n /\ (k + 1) - 1 = k /\ k <= n
    OBVIOUS
  <2>2. G[1 .. k + 1] = G[1 .. k] + s[k + 1]
    BY <1>8, <2>1
  <2>3. G[1 .. k] \in Nat /\ s[k + 1] \in Nat
    BY <1>10, <2>1
  <2> QED  BY <2>2, <2>3
<1>11. \A k \in Nat : k \in K
  <2> HIDE DEF K
  <2> QED  BY <1>9, <1>10, Induction
<1>12. r \in [0 .. n -> Nat]
  BY <1>11
<1>13. r[0] = 0
  <2>1. 0 \in 0 .. n /\ 1 .. 0 = {}
    OBVIOUS
  <2> QED  BY <1>7, <2>1
<1>14. \A k \in 1 .. n : r[k] = r[k - 1] + s[k]
  <2> SUFFICES ASSUME NEW k \in 1 .. n PROVE r[k] = r[k - 1] + s[k]
    OBVIOUS
  <2>1. k \in 0 .. n /\ k - 1 \in 0 .. n
    OBVIOUS
  <2> QED  BY <1>8, <2>1
<1>15. Total(s) = r[n]
  BY <1>3, <1>6
<1> HIDE DEF r
<1> QED  BY <1>12, <1>13, <1>14, <1>15

LEMMA TotalIsNat ==
  ASSUME NEW n \in Nat, NEW s \in [1 .. n -> Nat]
  PROVE  Total(s) \in Nat
<1>1. PICK r \in [0 .. n -> Nat] : Total(s) = r[n]
  BY TotalInTurn
<1> QED  BY <1>1

\* Parts that are each below the steps of a count are together below it.
LEMMA TotalBelow ==
  ASSUME NEW n \in Nat, NEW s \in [1 .. n -> Nat], NEW c \in [0 .. n -> Nat],
         \A k \in 1 .. n : c[k - 1] + s[k] <= c[k]
  PROVE  Total(s) <= c[n]
<1>1. PICK r \in [0 .. n -> Nat] :
        /\ r[0] = 0 /\ \A k \in 1 .. n : r[k] = r[k - 1] + s[k]
        /\ Total(s) = r[n]
  BY TotalInTurn
<1> DEFINE K == {k \in Nat : k <= n => r[k] <= c[k]}
<1>2. 0 \in K
  BY <1>1
<1>3. ASSUME NEW k \in Nat, k \in K PROVE k + 1 \in K
  <2> SUFFICES ASSUME k + 1 <= n PROVE r[k + 1] <= c[k + 1]
    OBVIOUS
  <2>1. k + 1 \in 1 .. n /\ (k + 1) - 1 = k /\ k \in 0 .. n /\ k + 1 \in 0 .. n
    OBVIOUS
  <2>2. r[k + 1] = r[k] + s[k + 1] /\ c[k] + s[k + 1] <= c[k + 1]
    BY <1>1, <2>1
  <2>3. r[k] <= c[k]
    BY <1>3, <2>1
  <2>4. r[k] \in Nat /\ c[k] \in Nat /\ c[k + 1] \in Nat /\ s[k + 1] \in Nat
    BY <2>1
  <2> HIDE DEF K
  <2> QED  BY <2>2, <2>3, <2>4
<1>4. n \in K
  <2> HIDE DEF K
  <2> QED  BY <1>2, <1>3, Induction
<1> QED  BY <1>1, <1>4

\* Sequences one behind the other.
LEMMA FlattenIsSeq ==
  ASSUME NEW D, NEW n \in Nat, NEW s \in [1 .. n -> Seq(D)]
  PROVE  FlattenSeq(s) \in Seq(D)
<1>1. Len(s) = n /\ (n = 0 => s \in Seq(D))
  <2>1. s \in Seq(Seq(D)) /\ Len(s) = n
    BY AsSeq
  <2>2. ASSUME n = 0 PROVE s = <<>>
    BY <2>1, <2>2
  <2> QED  BY <2>1, <2>2
<1>2. CASE n = 0
  BY <1>1, <1>2 DEF FlattenSeq
<1>3. CASE n # 0
  <2> DEFINE Is(m, f) == f = [i \in 1 .. m |-> IF i = 1 THEN s[i] ELSE f[i - 1] \o s[i]]
             K == {m \in Nat : m <= n => \E f \in [1 .. m -> Seq(D)] : Is(m, f)}
             G == CHOOSE f : Is(Len(s), f)
  <2>1. 0 \in K
    <3>1. Is(0, [i \in 1 .. 0 |-> s[i]]) /\ [i \in 1 .. 0 |-> s[i]] \in [1 .. 0 -> Seq(D)]
      OBVIOUS
    <3> HIDE DEF Is
    <3> QED  BY <3>1
  <2>2. ASSUME NEW m \in Nat, m \in K PROVE m + 1 \in K
    <3> HIDE DEF Is
    <3> SUFFICES ASSUME m + 1 <= n PROVE \E f \in [1 .. m + 1 -> Seq(D)] : Is(m + 1, f)
      OBVIOUS
    <3> USE DEF Is
    <3>1. PICK f \in [1 .. m -> Seq(D)] : Is(m, f)
      <4>1. m <= n
        OBVIOUS
      <4> HIDE DEF Is
      <4> QED  BY <2>2, <4>1
    <3> DEFINE h == [i \in 1 .. m + 1 |-> IF i = m + 1 THEN (IF m = 0 THEN s[1] ELSE f[m] \o s[m + 1])
                                          ELSE f[i]]
    <3>2. h \in [1 .. m + 1 -> Seq(D)]
      <4> SUFFICES ASSUME NEW i \in 1 .. m + 1
                   PROVE  (IF i = m + 1 THEN (IF m = 0 THEN s[1] ELSE f[m] \o s[m + 1]) ELSE f[i])
                          \in Seq(D)
        OBVIOUS
      <4>1. m + 1 \in 1 .. n /\ s[m + 1] \in Seq(D) /\ 1 \in 1 .. n /\ s[1] \in Seq(D)
        OBVIOUS
      <4>2. m # 0 => f[m] \in Seq(D)
        OBVIOUS
      <4>3. m # 0 => f[m] \o s[m + 1] \in Seq(D)
        BY <4>1, <4>2, ConcatProperties
      <4>4. i # m + 1 => f[i] \in Seq(D)
        OBVIOUS
      <4> QED  BY <4>1, <4>3, <4>4
    <3>3. ASSUME NEW i \in 1 .. m + 1 PROVE h[i] = IF i = 1 THEN s[i] ELSE h[i - 1] \o s[i]
      <4>1. CASE i = m + 1
        <5>1. h[i] = IF m = 0 THEN s[1] ELSE f[m] \o s[m + 1]
          BY <4>1
        <5>2. m # 0 => h[i - 1] = f[m]
          BY <4>1
        <5> HIDE DEF h
        <5> QED  BY <4>1, <5>1, <5>2
      <4>2. CASE i # m + 1
        <5>1. i \in 1 .. m /\ h[i] = f[i]
          BY <4>2
        <5>2. f[i] = IF i = 1 THEN s[i] ELSE f[i - 1] \o s[i]
          BY <3>1, <5>1
        <5>3. i # 1 => h[i - 1] = f[i - 1]
          BY <4>2
        <5> HIDE DEF h, Is
        <5> QED  BY <5>1, <5>2, <5>3
      <4> QED  BY <4>1, <4>2
    <3>4. Is(m + 1, h)
      <4>1. h = [i \in 1 .. m + 1 |-> h[i]]
        OBVIOUS
      <4> HIDE DEF h
      <4> QED  BY <3>3, <4>1
    <3> HIDE DEF h, Is
    <3> QED  BY <3>2, <3>4
  <2>3. n \in K
    <3>1. \A m \in Nat : m \in K
      <4> HIDE DEF K
      <4> QED  BY <2>1, <2>2, Induction
    <3> QED  BY <3>1
  <2>4. Is(n, G)
    <3>1. \E f : Is(n, f)
      <4> HIDE DEF Is
      <4> QED  BY <2>3
    <3> HIDE DEF Is
    <3> QED  BY <1>1, <3>1
  <2> DEFINE J == {m \in Nat : m + 1 <= n => G[m + 1] \in Seq(D)}
  <2>5. \A i \in 1 .. n : G[i] = IF i = 1 THEN s[i] ELSE G[i - 1] \o s[i]
    <3> HIDE DEF G
    <3> QED  BY <2>4
  <2> HIDE DEF Is, K
  <2>6. FlattenSeq(s) = G[n]
    BY <1>1, <1>3 DEF FlattenSeq, Is
  <2> HIDE DEF G
  <2>7. 0 \in J
    BY <2>5
  <2>8. ASSUME NEW m \in Nat, m \in J PROVE m + 1 \in J
    <3> SUFFICES ASSUME (m + 1) + 1 <= n PROVE G[(m + 1) + 1] \in Seq(D)
      OBVIOUS
    <3>1. /\ (m + 1) + 1 \in 1 .. n /\ (m + 1) + 1 # 1 /\ ((m + 1) + 1) - 1 = m + 1
          /\ m + 1 <= n
      OBVIOUS
    <3>2. G[(m + 1) + 1] = G[m + 1] \o s[(m + 1) + 1]
      BY <2>5, <3>1
    <3>3. G[m + 1] \in Seq(D) /\ s[(m + 1) + 1] \in Seq(D)
      BY <2>8, <3>1
    <3> HIDE DEF J
    <3> QED  BY <3>2, <3>3, ConcatProperties
  <2>9. n - 1 \in J
    <3>1. \A m \in Nat : m \in J
      <4> HIDE DEF J
      <4> QED  BY <2>7, <2>8, Induction
    <3>2. n - 1 \in Nat
      BY <1>3
    <3> HIDE DEF J
    <3> QED  BY <3>1, <3>2
  <2>10. (n - 1) + 1 = n
    OBVIOUS
  <2> QED  BY <2>6, <2>9, <2>10
<1> QED  BY <1>2, <1>3

-----------------------------------------------------------------------------
(***************************************************************************)
(* The lengths of a request.                                               *)
(***************************************************************************)

Pairs == [name : Strings, value : Strings]

\* References of a page: what an entry may have made of them.
LEMMA ItemsTyped ==
  ASSUME page \in Pages, NEW rs \in Seq(Refs), Len(rs) <= Len(page),
         NEW k \in 1 .. Len(rs), NEW p
  PROVE  Items(rs, k, p) \in Seq(Pairs)
<1> DEFINE n == Len(page[k].options)
           it(v) == [name |-> rs[k].name, value |-> v]
           tick(i) == IF i \in rs[k].value THEN <<it(page[k].options[i])>> ELSE <<>>
           ticks == [i \in 1 .. n |-> tick(i)]
<1>1. rs[k] \in Refs /\ Len(rs) \in Nat /\ k \in 1 .. Len(page)
  BY PageParts, LenProperties
<1>2. rs[k].name \in Strings /\ rs[k].data \in Strings
  BY <1>1 DEF Refs
<1>3. page[k] \in Controls
  BY <1>1, PageParts
<1>4. page[k].text \in Strings /\ page[k].options \in Seq(Strings)
  BY <1>3 DEF Controls
<1>5. \A v \in Strings : <<it(v)>> \in Seq(Pairs)
  BY <1>2 DEF Pairs
<1>6. n \in Nat /\ \A i \in 1 .. n : page[k].options[i] \in Strings
  BY <1>4, LenProperties
<1> HIDE DEF it
<1>7. \A i \in 1 .. n : tick(i) \in Seq(Pairs)
  <2> HIDE DEF n
  <2> QED  BY <1>5, <1>6
<1>8. FlattenSeq(ticks) \in Seq(Pairs)
  <2>1. ticks \in [1 .. n -> Seq(Pairs)]
    <3> HIDE DEF tick, n
    <3> QED  BY <1>7
  <2> HIDE DEF ticks, n
  <2> QED  BY <1>6, <2>1, FlattenIsSeq
<1>9. <<>> \in Seq(Pairs)
  OBVIOUS
<1>10. Items(rs, k, p) \in {FlattenSeq(ticks), <<it(page[k].text)>>, <<it(rs[k].data)>>, <<>>}
  BY DEF Items, it
<1> HIDE DEF ticks
<1> QED  BY <1>2, <1>4, <1>5, <1>8, <1>9, <1>10

LEMMA ItemsLenIsNat ==
  ASSUME NEW items \in Seq(Pairs)
  PROVE  ItemsLen(items) \in Nat
<1> DEFINE s == [i \in 1 .. Len(items) |-> Bytes[items[i].name] + 1 + Bytes[items[i].value] + 1]
<1>1. Len(items) \in Nat /\ \A i \in 1 .. Len(items) : items[i] \in Pairs
  BY LenProperties
<1>2. \A i \in 1 .. Len(items) : Bytes[items[i].name] + 1 + Bytes[items[i].value] + 1 \in Nat
  <2> SUFFICES ASSUME NEW i \in 1 .. Len(items)
               PROVE  Bytes[items[i].name] + 1 + Bytes[items[i].value] + 1 \in Nat
    OBVIOUS
  <2>1. items[i].name \in Strings /\ items[i].value \in Strings
    BY <1>1 DEF Pairs
  <2>2. Bytes[items[i].name] \in Nat /\ Bytes[items[i].value] \in Nat
    BY <2>1, BytesAssumption
  <2> QED  BY <2>2
<1>3. s \in [1 .. Len(items) -> Nat]
  BY <1>2
<1>4. ItemsLen(items) = Total(s)
  BY DEF ItemsLen
<1> HIDE DEF s
<1> QED  BY <1>1, <1>3, <1>4, TotalIsNat

\* The two numbers of the counting pass.
Counts == [len : Nat, size : Nat]

LEMMA SizeTyped ==
  ASSUME disk \in [Files -> FileSizes], NEW rf \in Refs
  PROVE  SizeOnDisk(rf) \in Nat \cup {NULL}
<1>1. rf.full_filename \in Files \cup {NULL}
  BY DEF Refs
<1> QED  BY <1>1, FilesAssumption DEF SizeOnDisk

LEMMA FileLenTyped ==
  ASSUME disk \in [Files -> FileSizes], NEW rf \in Refs, NEW size \in Nat, NEW ram
  PROVE  GetFileDataLen(rf, size, ram) \in Counts
<1> DEFINE n == SizeOnDisk(rf)
<1>1. n \in Nat \cup {NULL}
  BY SizeTyped
<1>2. n \in Nat => CALCLEN(n) \in Nat
  <2>1. Bytes["file="] \in Nat
    BY BytesAssumption
  <2>2. \A m \in Nat : CALCLEN(m) \in Nat
    BY <2>1 DEF CALCLEN
  <2> QED  BY <2>2
<1>3. GetFileDataLen(rf, size, ram) \in
        {[len |-> 0, size |-> size], [len |-> 0, size |-> 0]}
          \cup (IF n = NULL THEN {} ELSE {[len |-> CALCLEN(n), size |-> n]})
  BY DEF GetFileDataLen
<1> HIDE DEF n
<1>4. n # NULL => [len |-> CALCLEN(n), size |-> n] \in Counts
  BY <1>1, <1>2 DEF Counts
<1>5. [len |-> 0, size |-> size] \in Counts /\ [len |-> 0, size |-> 0] \in Counts
  BY DEF Counts
<1> QED  BY <1>3, <1>4, <1>5

FileOf(rs, ram, acc, k) ==
  IF HasFile(rs[k]) THEN GetFileDataLen(rs[k], acc.size, ram) ELSE [len |-> 0, size |-> acc.size]

CountStep(rs, p, ram, acc, k) ==
  [len  |-> acc.len + ItemsLen(Items(rs, k, p)) + FileOf(rs, ram, acc, k).len,
   size |-> FileOf(rs, ram, acc, k).size]

\* The reference k is counted after those before it.
CountedTo(c, rs, p, ram) ==
  /\ c[0] = [len |-> 0, size |-> filesize]
  /\ \A k \in 1 .. Len(rs) : c[k] = CountStep(rs, p, ram, c[k - 1], k)

LEMMA CountStepTyped ==
  ASSUME page \in Pages, disk \in [Files -> FileSizes], NEW rs \in Seq(Refs), Len(rs) <= Len(page),
         NEW p, NEW ram, NEW acc \in Counts, NEW k \in 1 .. Len(rs)
  PROVE  /\ FileOf(rs, ram, acc, k) \in Counts
         /\ CountStep(rs, p, ram, acc, k) \in Counts
<1>1. rs[k] \in Refs
  BY LenProperties
<1>2. acc.len \in Nat /\ acc.size \in Nat
  BY DEF Counts
<1>3. FileOf(rs, ram, acc, k) \in Counts
  <2>1. GetFileDataLen(rs[k], acc.size, ram) \in Counts
    BY <1>1, <1>2, FileLenTyped
  <2>2. [len |-> 0, size |-> acc.size] \in Counts
    BY <1>2 DEF Counts
  <2> QED  BY <2>1, <2>2 DEF FileOf
<1>4. ItemsLen(Items(rs, k, p)) \in Nat
  BY ItemsTyped, ItemsLenIsNat
<1>5. FileOf(rs, ram, acc, k).len \in Nat /\ FileOf(rs, ram, acc, k).size \in Nat
  BY <1>3 DEF Counts
<1> QED  BY <1>2, <1>3, <1>4, <1>5 DEF CountStep, Counts

LEMMA CountInTurn ==
  ASSUME page \in Pages, disk \in [Files -> FileSizes], filesize \in Nat,
         NEW rs \in Seq(Refs), Len(rs) <= Len(page), NEW p, NEW ram
  PROVE  \E c \in [0 .. Len(rs) -> Counts] :
           CountedTo(c, rs, p, ram) /\ CountPass(rs, p, ram) = c[Len(rs)]
<1> DEFINE n == Len(rs)
           base == [len |-> 0, size |-> filesize]
           op == [q \in Counts \X (1 .. n) |-> CountStep(rs, p, ram, q[1], q[2])]
           step(acc, k) == CountStep(rs, p, ram, acc, k)
<1>0. n \in Nat
  BY LenProperties
<1>1. op \in [Counts \X (1 .. n) -> Counts]
  BY CountStepTyped
<1>2. base \in Counts
  BY DEF Counts
<1> HIDE DEF n
<1>3. PICK F0 \in [SUBSET (1 .. n) -> Counts] : IsFold(F0, base, op, n)
  <2> HIDE DEF op, base
  <2> QED  BY <1>0, <1>1, <1>2, FoldIsDefined
<1> DEFINE Is(F) == F = [T \in SUBSET (1 .. n) |->
                           IF T = {} THEN base ELSE step(F[T \ {Max(T)}], Max(T))]
           G == CHOOSE F : Is(F)
<1>4. Is(F0)
  <2>1. ASSUME NEW T \in SUBSET (1 .. n), T # {}
        PROVE  op[<<F0[T \ {Max(T)}], Max(T)>>] = step(F0[T \ {Max(T)}], Max(T))
    <3>1. Max(T) \in T
      BY <1>0, <2>1, MaxOfRange
    <3>2. T \ {Max(T)} \in SUBSET (1 .. n) /\ Max(T) \in 1 .. n
      BY <3>1
    <3>3. F0[T \ {Max(T)}] \in Counts
      BY <1>3, <3>2
    <3> HIDE DEF base
    <3> QED  BY <3>2, <3>3
  <2> HIDE DEF op, step, base
  <2>2. ASSUME NEW T \in SUBSET (1 .. n)
        PROVE  (IF T = {} THEN base ELSE op[<<F0[T \ {Max(T)}], Max(T)>>])
               = IF T = {} THEN base ELSE step(F0[T \ {Max(T)}], Max(T))
    BY <2>1
  <2> QED  BY <1>3, <2>2 DEF IsFold
<1>5. Is(G)
  <2> HIDE DEF Is
  <2> QED  BY <1>4
<1>6. CountPass(rs, p, ram) = G[1 .. n]
  <2> DEFINE Op(acc, k) == [len  |-> acc.len + ItemsLen(Items(rs, k, p))
                                       + (IF HasFile(rs[k]) THEN GetFileDataLen(rs[k], acc.size, ram)
                                          ELSE [len |-> 0, size |-> acc.size]).len,
                            size |-> (IF HasFile(rs[k]) THEN GetFileDataLen(rs[k], acc.size, ram)
                                      ELSE [len |-> 0, size |-> acc.size]).size]
             Was(F) == F = [T \in SUBSET DOMAIN Places(rs) |->
                              IF T = {} THEN base ELSE Op(F[T \ {Max(T)}], Places(rs)[Max(T)])]
             H == CHOOSE F : Was(F)
  <2>1. CountPass(rs, p, ram) = H[DOMAIN Places(rs)]
    BY DEF CountPass, FoldLeft, MapThenFoldSet
  <2>2. DOMAIN Places(rs) = 1 .. n /\ \A k \in 1 .. n : Places(rs)[k] = k
    BY DEF Places, n
  <2>3. \A acc, k : Op(acc, k) = step(acc, k)
    BY DEF CountStep, FileOf
  <2> HIDE DEF Op, step, base
  <2>4. ASSUME NEW F, NEW T \in SUBSET (1 .. n)
        PROVE  (IF T = {} THEN base ELSE Op(F[T \ {Max(T)}], Places(rs)[Max(T)]))
               = IF T = {} THEN base ELSE step(F[T \ {Max(T)}], Max(T))
    <3>1. CASE T = {}
      BY <3>1
    <3>2. CASE T # {}
      <4>1. Max(T) \in 1 .. n
        BY <1>0, <3>2, MaxOfRange
      <4> QED  BY <2>2, <2>3, <3>2, <4>1
    <3> QED  BY <3>1, <3>2
  <2>5. ASSUME NEW F PROVE Was(F) <=> Is(F)
    <3> DEFINE A(T) == IF T = {} THEN base ELSE Op(F[T \ {Max(T)}], Places(rs)[Max(T)])
               B(T) == IF T = {} THEN base ELSE step(F[T \ {Max(T)}], Max(T))
    <3>1. \A T \in SUBSET (1 .. n) : A(T) = B(T)
      BY <2>4
    <3>2. (Was(F) <=> F = [T \in SUBSET DOMAIN Places(rs) |-> A(T)])
          /\ (Is(F) <=> F = [T \in SUBSET (1 .. n) |-> B(T)])
      OBVIOUS
    <3> HIDE DEF A, B, Was, Is
    <3>3. [T \in SUBSET DOMAIN Places(rs) |-> A(T)] = [T \in SUBSET (1 .. n) |-> B(T)]
      BY <2>2, <3>1
    <3> QED  BY <3>2, <3>3
  <2>6. H = G
    <3> HIDE DEF Was, Is
    <3> QED  BY <2>5
  <2> HIDE DEF H, G
  <2> QED  BY <2>1, <2>2, <2>6
<1> HIDE DEF G
<1>7. G[{}] = base
  <2> HIDE DEF base
  <2> QED  BY <1>5
<1>8. ASSUME NEW k \in 1 .. n PROVE G[1 .. k] = step(G[1 .. k - 1], k)
  <2>1. /\ 1 .. k \in SUBSET (1 .. n) /\ 1 .. k # {}
        /\ Max(1 .. k) = k /\ (1 .. k) \ {Max(1 .. k)} = 1 .. k - 1
    BY <1>0, FoldInOrder
  <2> HIDE DEF base, step
  <2>2. G[1 .. k] = step(G[(1 .. k) \ {Max(1 .. k)}], Max(1 .. k))
    BY <1>5, <2>1
  <2> QED  BY <2>1, <2>2
<1> HIDE DEF Is
<1> DEFINE c == [k \in 0 .. n |-> G[1 .. k]]
           K == {k \in Nat : k <= n => G[1 .. k] \in Counts}
<1>9. 0 \in K
  <2>1. 1 .. 0 = {}
    OBVIOUS
  <2> HIDE DEF base
  <2> QED  BY <1>2, <1>7, <2>1
<1>10. ASSUME NEW k \in Nat, k \in K PROVE k + 1 \in K
  <2> HIDE DEF step
  <2> SUFFICES ASSUME k + 1 <= n PROVE G[1 .. k + 1] \in Counts
    OBVIOUS
  <2>1. k + 1 \in 1 .. n /\ (k + 1) - 1 = k /\ k <= n
    BY <1>0
  <2>2. G[1 .. k + 1] = step(G[1 .. k], k + 1)
    BY <1>8, <2>1
  <2>3. G[1 .. k] \in Counts
    BY <1>10, <2>1
  <2>4. step(G[1 .. k], k + 1) \in Counts
    BY <2>1, <2>3, CountStepTyped DEF step, n
  <2> QED  BY <2>2, <2>4
<1>11. \A k \in Nat : k \in K
  <2> HIDE DEF K
  <2> QED  BY <1>9, <1>10, Induction
<1>12. c \in [0 .. n -> Counts]
  BY <1>0, <1>11
<1>13. c[0] = base
  <2>1. 0 \in 0 .. n /\ 1 .. 0 = {}
    BY <1>0
  <2> HIDE DEF base
  <2> QED  BY <1>7, <2>1
<1>14. \A k \in 1 .. n : c[k] = step(c[k - 1], k)
  <2> HIDE DEF step
  <2> SUFFICES ASSUME NEW k \in 1 .. n PROVE c[k] = step(c[k - 1], k)
    OBVIOUS
  <2>1. k \in 0 .. n /\ k - 1 \in 0 .. n
    BY <1>0
  <2> QED  BY <1>8, <2>1
<1>15. CountPass(rs, p, ram) = c[n]
  BY <1>0, <1>6
<1> HIDE DEF c
<1>16. CountedTo(c, rs, p, ram)
  BY <1>13, <1>14 DEF CountedTo, n
<1> QED  BY <1>12, <1>15, <1>16 DEF n

\* A file read in pieces of a multiple of three, each padded by itself, is no
\* longer in base 64 than CALCLEN counts for it.
LEMMA FileFits ==
  ASSUME NEW n \in Nat, n # 0
  PROVE  LET len == Bytes["file="] + (n \div BUFSIZE) * Base64Size(BUFSIZE) + Base64Size(n % BUFSIZE)
         IN  len \in Nat /\ len > 0 /\ len <= CALCLEN(n)
<1> DEFINE b == BUFSIZE \div 3
           q == n \div BUFSIZE
           r == n % BUFSIZE
           h == Bytes["file="]
<1>1. h \in Nat
  BY BytesAssumption
<1>2. b \in Nat /\ BUFSIZE = 3 * b /\ b # 0 /\ BUFSIZE \in Nat /\ BUFSIZE # 0
  BY FilesAssumption
<1>3. q \in Nat /\ r \in Nat /\ n = BUFSIZE * q + r
  BY <1>2
<1>4. Base64Size(BUFSIZE) = 4 * b
  <2>1. (3 * b + 2) \div 3 = b
    <3> HIDE DEF b
    <3> QED  BY <1>2
  <2> HIDE DEF b
  <2> QED  BY <1>2, <2>1 DEF Base64Size
<1> HIDE DEF b, q, r, h
<1> DEFINE w == b * q
<1>5. w \in Nat /\ q * (4 * b) = 4 * w /\ BUFSIZE * q = 3 * w
  BY <1>2, <1>3
<1> HIDE DEF w
<1>6. n = 3 * w + r /\ (w # 0 \/ r # 0)
  BY <1>3, <1>5
<1>7. /\ Base64Size(r) \in Nat /\ (r # 0 => Base64Size(r) > 0)
      /\ Base64Size(r) <= (4 * r) \div 3 + 3
  BY <1>3 DEF Base64Size
<1>8. (n * 4) \div 3 = 4 * w + (4 * r) \div 3
  BY <1>3, <1>5, <1>6
<1>9. /\ h + 4 * w + Base64Size(r) \in Nat /\ h + 4 * w + Base64Size(r) > 0
      /\ h + 4 * w + Base64Size(r) <= (n * 4) \div 3 + 2 + h + 1
  <2>1. (4 * r) \div 3 \in Nat
    BY <1>3
  <2> QED  BY <1>1, <1>5, <1>6, <1>7, <1>8, <2>1
<1> QED  BY <1>4, <1>5, <1>9 DEF q, r, h, CALCLEN

\* A size that is in S after reference k and stays there is in S at the end.
LEMMA SizeStays ==
  ASSUME NEW n \in Nat, NEW c, NEW S, NEW k \in 0 .. n, c[k].size \in S,
         \A j \in 1 .. n : j > k /\ c[j - 1].size \in S => c[j].size \in S
  PROVE  c[n].size \in S
<1> DEFINE K == {m \in Nat : k + m <= n => c[k + m].size \in S}
<1>1. 0 \in K
  OBVIOUS
<1>2. ASSUME NEW m \in Nat, m \in K PROVE m + 1 \in K
  <2> SUFFICES ASSUME k + (m + 1) <= n PROVE c[k + (m + 1)].size \in S
    OBVIOUS
  <2>1. /\ k + (m + 1) \in 1 .. n /\ k + (m + 1) > k /\ (k + (m + 1)) - 1 = k + m
        /\ k + m <= n
    OBVIOUS
  <2>2. c[k + m].size \in S
    BY <1>2, <2>1
  <2> HIDE DEF K
  <2> QED  BY <2>1, <2>2
<1>3. n - k \in K
  <2>1. \A m \in Nat : m \in K
    <3> HIDE DEF K
    <3> QED  BY <1>1, <1>2, Induction
  <2> QED  BY <2>1
<1>4. k + (n - k) = n
  OBVIOUS
<1> QED  BY <1>3, <1>4

\* The files of a request: each that is attached, with its size.
AttachedTo(rs) ==
  {<<k, SizeOnDisk(rs[k])>> : k \in {j \in 1 .. Len(rs) : HasFile(rs[j])}}

Sendable(n, ram) == n # NULL /\ n # 0 /\ ram >= RESERVE + CALCLEN(n)
ReadyOf(rs, ram) == {f \in AttachedTo(rs) : Sendable(f[2], ram)}
PlacesOf(files)  == {f[1] : f \in files}

LEMMA GetFileIs ==
  ASSUME disk \in [Files -> FileSizes], NEW rf \in Refs, NEW size \in Nat, NEW ram \in FreeRam
  PROVE  LET n == SizeOnDisk(rf)
         IN  /\ n \in Nat \cup {NULL}
             /\ Sendable(n, ram) => n \in Nat /\ n # 0
                                    /\ GetFileDataLen(rf, size, ram) = [len |-> CALCLEN(n), size |-> n]
             /\ ~Sendable(n, ram) /\ n # NULL =>
                  GetFileDataLen(rf, size, ram) = [len |-> 0, size |-> 0]
<1> DEFINE n == SizeOnDisk(rf)
<1>1. n \in Nat \cup {NULL}
  BY SizeTyped
<1>2. ram \in Nat /\ RESERVE \in Nat
  BY FilesAssumption
<1>3. n # NULL => RESERVE + CALCLEN(n) \in Nat
  <2>1. Bytes["file="] \in Nat
    BY BytesAssumption
  <2>2. \A m \in Nat : CALCLEN(m) \in Nat
    BY <2>1 DEF CALCLEN
  <2> HIDE DEF n
  <2> QED  BY <1>1, <1>2, <2>2
<1>4. GetFileDataLen(rf, size, ram) =
        CASE n = NULL -> [len |-> 0, size |-> size]
          [] n # NULL /\ (n = 0 \/ ram < RESERVE + CALCLEN(n)) -> [len |-> 0, size |-> 0]
          [] OTHER -> [len |-> CALCLEN(n), size |-> n]
  BY DEF GetFileDataLen
<1> HIDE DEF n
<1>5. CASE n = NULL
  BY <1>1, <1>5 DEF Sendable, n
<1>6. CASE n # NULL /\ (n = 0 \/ ram < RESERVE + CALCLEN(n))
  <2>1. ~Sendable(n, ram)
    BY <1>2, <1>3, <1>6 DEF Sendable
  <2> QED  BY <1>1, <1>4, <1>6, <2>1 DEF n
<1>7. CASE n # NULL /\ n # 0 /\ ~(ram < RESERVE + CALCLEN(n))
  <2>1. Sendable(n, ram)
    BY <1>2, <1>3, <1>7 DEF Sendable
  <2> QED  BY <1>1, <1>4, <1>7, <2>1 DEF n
<1> QED  BY <1>5, <1>6, <1>7

FilledFile(rs, size, k) == IF HasFile(rs[k]) THEN FillFileData(rs[k], size) ELSE 0

\* When all files can be sent, or there is only one, each is written in no more
\* than was counted for it, and it is written if it can be sent.
LEMMA EachFileFits ==
  ASSUME page \in Pages, disk \in [Files -> FileSizes],
         NEW rs \in Seq(Refs), Len(rs) <= Len(page), NEW p, NEW ram \in FreeRam,
         NEW c \in [0 .. Len(rs) -> Counts], CountedTo(c, rs, p, ram),
         \/ \A j \in 1 .. Len(rs) : HasFile(rs[j]) => Sendable(SizeOnDisk(rs[j]), ram)
         \/ \A i, j \in 1 .. Len(rs) : HasFile(rs[i]) /\ HasFile(rs[j]) => i = j,
         NEW k \in 1 .. Len(rs)
  PROVE  LET file == FilledFile(rs, c[Len(rs)].size, k)
         IN  /\ file \in Nat /\ file <= FileOf(rs, ram, c[k - 1], k).len
             /\ file > 0 <=> HasFile(rs[k]) /\ Sendable(SizeOnDisk(rs[k]), ram)
<1> DEFINE n == Len(rs)
           m == SizeOnDisk(rs[k])
           size == c[n].size
<1>1. n \in Nat /\ \A j \in 1 .. n : rs[j] \in Refs
  BY LenProperties
<1>2. ASSUME NEW j \in 1 .. n
      PROVE  /\ c[j].size = FileOf(rs, ram, c[j - 1], j).size
             /\ FileOf(rs, ram, c[j - 1], j) \in Counts
             /\ c[j - 1].size \in Nat /\ FileOf(rs, ram, c[j - 1], j).len \in Nat
  <2>1. j - 1 \in 0 .. n /\ c[j - 1] \in Counts
    BY <1>1
  <2>2. c[j] = CountStep(rs, p, ram, c[j - 1], j)
    BY DEF CountedTo
  <2>3. FileOf(rs, ram, c[j - 1], j) \in Counts
    BY <2>1, CountStepTyped
  <2> QED  BY <2>1, <2>2, <2>3 DEF CountStep, Counts
<1>3. CASE ~HasFile(rs[k])
  <2>1. FilledFile(rs, c[n].size, k) = 0
    BY <1>3 DEF FilledFile
  <2> QED  BY <1>2, <1>3, <2>1
<1>4. ASSUME NEW j \in 1 .. n, HasFile(rs[j])
      PROVE  /\ Sendable(SizeOnDisk(rs[j]), ram) =>
                  c[j].size = SizeOnDisk(rs[j]) /\ c[j].size \in Nat \ {0}
                  /\ FileOf(rs, ram, c[j - 1], j).len = CALCLEN(SizeOnDisk(rs[j]))
             /\ ~Sendable(SizeOnDisk(rs[j]), ram) /\ SizeOnDisk(rs[j]) # NULL => c[j].size = 0
  <2> DEFINE s == SizeOnDisk(rs[j])
             g == GetFileDataLen(rs[j], c[j - 1].size, ram)
  <2>1. FileOf(rs, ram, c[j - 1], j) = g
    BY <1>4 DEF FileOf
  <2>2. /\ s \in Nat \cup {NULL}
        /\ Sendable(s, ram) => s \in Nat /\ s # 0 /\ g = [len |-> CALCLEN(s), size |-> s]
        /\ ~Sendable(s, ram) /\ s # NULL => g = [len |-> 0, size |-> 0]
    BY <1>1, <1>2, GetFileIs
  <2> HIDE DEF s, g
  <2>3. c[j].size = g.size /\ FileOf(rs, ram, c[j - 1], j).len = g.len
    BY <1>2, <2>1
  <2> QED  BY <2>2, <2>3 DEF s
<1>5. ASSUME NEW j \in 1 .. n, ~HasFile(rs[j]) PROVE c[j].size = c[j - 1].size
  <2>1. FileOf(rs, ram, c[j - 1], j) = [len |-> 0, size |-> c[j - 1].size]
    BY <1>5 DEF FileOf
  <2> QED  BY <1>2, <2>1
<1>6. CASE HasFile(rs[k]) /\ Sendable(m, ram)
  <2>1. k \in 0 .. n /\ c[k].size \in Nat \ {0}
    BY <1>1, <1>4, <1>6
  <2>2. ASSUME NEW j \in 1 .. n, j > k /\ c[j - 1].size \in Nat \ {0}
        PROVE  c[j].size \in Nat \ {0}
    <3>1. CASE HasFile(rs[j])
      <4>1. j # k
        BY <2>2
      <4>2. Sendable(SizeOnDisk(rs[j]), ram)
        BY <1>6, <3>1, <4>1
      <4> QED  BY <1>4, <3>1, <4>2
    <3>2. CASE ~HasFile(rs[j])
      BY <1>5, <2>2, <3>2
    <3> QED  BY <3>1, <3>2
  <2>3. size \in Nat \ {0}
    <3> HIDE DEF n
    <3> QED  BY <1>1, <2>1, <2>2, SizeStays
  <2>4. m \in Nat /\ m # 0
    BY <1>4, <1>6
  <2>5. m # NULL
    BY <1>6 DEF Sendable
  <2>6. FillFileData(rs[k], size)
          = Bytes["file="] + (m \div BUFSIZE) * Base64Size(BUFSIZE) + Base64Size(m % BUFSIZE)
    <3> HIDE DEF size
    <3> QED  BY <2>3, <2>5 DEF FillFileData
  <2>7. FilledFile(rs, size, k) = FillFileData(rs[k], size)
    BY <1>6 DEF FilledFile
  <2>8. FileOf(rs, ram, c[k - 1], k).len = CALCLEN(m)
    BY <1>4, <1>6
  <2>9. /\ FilledFile(rs, size, k) \in Nat /\ FilledFile(rs, size, k) > 0
        /\ FilledFile(rs, size, k) <= FileOf(rs, ram, c[k - 1], k).len
    <3> HIDE DEF m, size
    <3> QED  BY <2>4, <2>6, <2>7, <2>8, FileFits
  <2> QED  BY <1>6, <2>9
<1>7. CASE HasFile(rs[k]) /\ ~Sendable(m, ram)
  <2>1. FillFileData(rs[k], size) = 0
    <3>1. CASE m = NULL
      BY <3>1 DEF FillFileData
    <3>2. CASE m # NULL
      <4>1. k \in 0 .. n /\ c[k].size \in {0}
        BY <1>1, <1>4, <1>7, <3>2
      <4>2. ASSUME NEW j \in 1 .. n, j > k /\ c[j - 1].size \in {0}
            PROVE  c[j].size \in {0}
        <5>1. ~HasFile(rs[j])
          <6>1. j # k
            BY <4>2
          <6> QED  BY <1>7, <6>1
        <5> QED  BY <1>5, <4>2, <5>1
      <4>3. size \in {0}
        <5> HIDE DEF n
        <5> QED  BY <1>1, <4>1, <4>2, SizeStays
      <4> QED  BY <4>3 DEF FillFileData
    <3> QED  BY <3>1, <3>2
  <2>2. FilledFile(rs, size, k) = 0
    BY <1>7, <2>1 DEF FilledFile
  <2> QED  BY <1>2, <1>7, <2>2
<1> QED  BY <1>3, <1>6, <1>7

LEMMA RequestFits ==
  ASSUME page \in Pages, disk \in [Files -> FileSizes], filesize \in Nat,
         NEW rs \in Seq(Refs), Len(rs) <= Len(page), NEW p, NEW ram \in FreeRam,
         NEW counted, counted = CountPass(rs, p, ram),
         NEW filled, filled = FillPass(rs, p, counted.size),
         Cardinality(AttachedTo(rs)) < 2 \/ ReadyOf(rs, ram) = AttachedTo(rs)
  PROVE  filled.len <= counted.len /\ filled.sent = PlacesOf(ReadyOf(rs, ram))
<1> DEFINE n == Len(rs)
           attached == AttachedTo(rs)
           ready == ReadyOf(rs, ram)
<1>0. ready = {f \in attached : Sendable(f[2], ram)}
  BY DEF ReadyOf
<1>1. n \in Nat
  BY LenProperties
<1>2. PICK c \in [0 .. n -> Counts] : CountedTo(c, rs, p, ram) /\ counted = c[n]
  BY CountInTurn
<1>3. \A k \in 1 .. n : HasFile(rs[k]) => <<k, SizeOnDisk(rs[k])>> \in attached
  BY DEF AttachedTo
<1>4. \A f \in attached : \E k \in 1 .. n : HasFile(rs[k]) /\ f = <<k, SizeOnDisk(rs[k])>>
  BY DEF AttachedTo
<1> HIDE DEF attached, ready
<1>5. \/ \A j \in 1 .. n : HasFile(rs[j]) => Sendable(SizeOnDisk(rs[j]), ram)
      \/ \A i, j \in 1 .. n : HasFile(rs[i]) /\ HasFile(rs[j]) => i = j
  <2>1. CASE ready = attached
    <3> SUFFICES ASSUME NEW j \in 1 .. n, HasFile(rs[j])
                 PROVE  Sendable(SizeOnDisk(rs[j]), ram)
      OBVIOUS
    <3>1. <<j, SizeOnDisk(rs[j])>> \in ready
      BY <1>3, <2>1
    <3>2. Sendable(<<j, SizeOnDisk(rs[j])>>[2], ram)
      BY <1>0, <3>1
    <3> QED  BY <3>2
  <2>2. CASE Cardinality(attached) < 2
    <3> SUFFICES ASSUME NEW i \in 1 .. n, NEW j \in 1 .. n,
                        HasFile(rs[i]), HasFile(rs[j]), i # j
                 PROVE  FALSE
      OBVIOUS
    <3> DEFINE x == <<i, SizeOnDisk(rs[i])>>  y == <<j, SizeOnDisk(rs[j])>>
    <3>1. x \in attached /\ y \in attached /\ x # y
      BY <1>3
    <3>2. IsFiniteSet(attached)
      <4> DEFINE Has == {k \in 1 .. n : HasFile(rs[k])}
                 F == [k \in 1 .. n |-> <<k, SizeOnDisk(rs[k])>>]
      <4>1. IsFiniteSet(1 .. n)
        BY <1>1, FS_Interval
      <4>2. IsFiniteSet({F[k] : k \in 1 .. n})
        <5>1. F \in [1 .. n -> {F[k] : k \in 1 .. n}]
          OBVIOUS
        <5>2. \A f \in {F[k] : k \in 1 .. n} : \E k \in 1 .. n : F[k] = f
          OBVIOUS
        <5> HIDE DEF F
        <5>3. F \in Surjection(1 .. n, {F[k] : k \in 1 .. n})
          BY ONLY <5>1, <5>2 DEF Surjection
        <5> QED  BY ONLY <4>1, <5>3, FS_Surjection
      <4>3. attached \subseteq {F[k] : k \in 1 .. n}
        <5> SUFFICES ASSUME NEW f \in attached PROVE f \in {F[k] : k \in 1 .. n}
          OBVIOUS
        <5>1. PICK k \in 1 .. n : f = <<k, SizeOnDisk(rs[k])>>
          BY <1>4
        <5>2. F[k] = f
          BY <5>1
        <5> HIDE DEF F
        <5> QED  BY <5>2
      <4> HIDE DEF F
      <4> QED  BY <4>2, <4>3, FS_Subset
    <3> HIDE DEF x, y
    <3>3. {x, y} \subseteq attached
      BY <3>1
    <3>4. Cardinality({x, y}) = 2
      <4>1. IsFiniteSet({x}) /\ Cardinality({x}) = 1
        BY FS_Singleton
      <4>2. Cardinality({x} \cup {y}) = Cardinality({x}) + 1
        BY <3>1, <4>1, FS_AddElement
      <4>3. {x, y} = {x} \cup {y}
        OBVIOUS
      <4> QED  BY <4>1, <4>2, <4>3
    <3>5. Cardinality({x, y}) <= Cardinality(attached) /\ Cardinality(attached) \in Nat
      BY <3>2, <3>3, FS_Subset, FS_CardinalityType
    <3> QED  BY <2>2, <3>4, <3>5
  <2> QED  BY <2>1, <2>2 DEF attached, ready
<1> DEFINE file(k) == FilledFile(rs, c[n].size, k)
<1>6. ASSUME NEW k \in 1 .. n
      PROVE  /\ file(k) \in Nat /\ file(k) <= FileOf(rs, ram, c[k - 1], k).len
             /\ file(k) > 0 <=> HasFile(rs[k]) /\ Sendable(SizeOnDisk(rs[k]), ram)
  BY <1>2, <1>5, EachFileFits
<1> DEFINE s == [k \in 1 .. n |-> ItemsLen(Items(rs, k, p)) + file(k)]
<1>7. filled.len = Total(s) /\ filled.sent = {k \in 1 .. n : file(k) > 0}
  BY <1>2 DEF FillPass, FilledFile
<1> HIDE DEF file
<1>8. ASSUME NEW k \in 1 .. n
      PROVE  /\ ItemsLen(Items(rs, k, p)) \in Nat /\ s[k] \in Nat
             /\ c[k - 1].len + s[k] <= c[k].len
  <2>1. ItemsLen(Items(rs, k, p)) \in Nat
    BY ItemsTyped, ItemsLenIsNat
  <2>2. k - 1 \in 0 .. n /\ c[k - 1] \in Counts
    BY <1>1, <1>2
  <2>3. c[k] = CountStep(rs, p, ram, c[k - 1], k)
    BY <1>2 DEF CountedTo
  <2>4. FileOf(rs, ram, c[k - 1], k) \in Counts
    BY <2>2, CountStepTyped
  <2>5. c[k - 1].len \in Nat /\ FileOf(rs, ram, c[k - 1], k).len \in Nat
    BY <2>2, <2>4 DEF Counts
  <2>6. c[k].len = c[k - 1].len + ItemsLen(Items(rs, k, p)) + FileOf(rs, ram, c[k - 1], k).len
    BY <2>3 DEF CountStep
  <2>7. s[k] = ItemsLen(Items(rs, k, p)) + file(k)
    OBVIOUS
  <2> HIDE DEF s
  <2> QED  BY <1>6, <2>1, <2>5, <2>6, <2>7
<1>9. filled.len <= counted.len
  <2> DEFINE d == [k \in 0 .. n |-> c[k].len]
  <2>1. s \in [1 .. n -> Nat]
    BY <1>8
  <2>2. d \in [0 .. n -> Nat]
    BY DEF Counts
  <2>3. ASSUME NEW k \in 1 .. n PROVE d[k - 1] + s[k] <= d[k]
    <3>1. k \in 0 .. n /\ k - 1 \in 0 .. n
      BY <1>1
    <3>2. d[k] = c[k].len /\ d[k - 1] = c[k - 1].len
      BY <3>1
    <3> HIDE DEF d, s
    <3> QED  BY <1>8, <3>2
  <2>4. d[n] = counted.len
    BY <1>1, <1>2
  <2>5. Total(s) <= d[n]
    <3> HIDE DEF d, s
    <3> QED  BY <1>1, <2>1, <2>2, <2>3, TotalBelow
  <2> QED  BY <1>7, <2>4, <2>5
<1>10. {k \in 1 .. n : file(k) > 0} = {f[1] : f \in ready}
  <2>1. ASSUME NEW k \in 1 .. n, file(k) > 0 PROVE k \in {f[1] : f \in ready}
    <3>1. <<k, SizeOnDisk(rs[k])>> \in attached /\ Sendable(SizeOnDisk(rs[k]), ram)
      BY <1>3, <1>6, <2>1
    <3>2. <<k, SizeOnDisk(rs[k])>> \in ready
      BY <1>0, <3>1
    <3>3. <<k, SizeOnDisk(rs[k])>>[1] = k
      OBVIOUS
    <3> QED  BY <3>2, <3>3
  <2>2. ASSUME NEW f \in ready PROVE f[1] \in 1 .. n /\ file(f[1]) > 0
    <3>1. f \in attached /\ Sendable(f[2], ram)
      BY <1>0
    <3>2. PICK k \in 1 .. n : HasFile(rs[k]) /\ f = <<k, SizeOnDisk(rs[k])>>
      BY <1>4, <3>1
    <3>3. f[1] = k /\ f[2] = SizeOnDisk(rs[k])
      BY <3>2
    <3>4. file(k) > 0
      BY <1>6, <3>1, <3>2, <3>3
    <3> QED  BY <3>3, <3>4
  <2> QED  BY <2>1, <2>2
<1> QED  BY <1>7, <1>9, <1>10 DEF PlacesOf, ready

-----------------------------------------------------------------------------
(***************************************************************************)
(* The request fits, whoever the user is and whatever becomes of the       *)
(* connection: what each pass reads has its type, and a list opened early, *)
(* a dialog whose reference has moved or a file left behind do not change  *)
(* that.                                                                   *)
(***************************************************************************)

RefsTyped ==
  /\ page \in Pages /\ refs \in Seq(Refs)
  /\ fed = Len(refs) /\ fed <= Len(page) /\ oms_pos \in Nat

KeptTyped ==
  /\ user_text \in [DOMAIN user_text -> Texts]
  /\ user_list \in [DOMAIN user_list -> SUBSET Nat]

DialogTyped ==
  /\ dialog \in [kind: {"none", "input", "list", "files"}, pos_ref: Nat, stale: BOOLEAN]
  /\ dialog.kind # "none" => view = "shown" /\ dialog.pos_ref \in 0 .. Len(refs)
  /\ dialog.kind \in {"input", "list"} => dialog.pos_ref # 0

FilesTyped == filesize \in Nat /\ disk \in [Files -> FileSizes]

UploadsInv == RefsTyped /\ KeptTyped /\ DialogTyped /\ FilesTyped /\ UploadFits

LEMMA RefTyped ==
  ASSUME RefsTyped, NEW k \in 1 .. Len(refs)
  PROVE  /\ refs[k] \in Refs /\ k \in DOMAIN refs /\ k \in 1 .. Len(page)
         /\ page[k] \in Controls
<1>1. refs \in Seq(Refs) /\ Len(refs) \in Nat /\ Len(refs) <= Len(page) /\ Len(page) \in Nat
  BY LenProperties, PageParts DEF RefsTyped
<1> QED  BY <1>1, LenProperties, PageParts DEF RefsTyped

LEMMA OneTyped ==
  ASSUME RefsTyped, NEW k \in 1 .. Len(refs), NEW x \in Refs
  PROVE  [refs EXCEPT ![k] = x] \in Seq(Refs) /\ Len([refs EXCEPT ![k] = x]) = Len(refs)
BY LenProperties DEF RefsTyped

\* With nothing sent there is nothing to fit.
LEMMA NoUploadFits == ASSUME upload = NoUpload PROVE UploadFits
<1>1. upload.attached = {} /\ upload.written = 0 /\ upload.counted = 0 /\ upload.sent = {}
  BY DEF NoUpload
<1> QED  BY <1>1 DEF UploadFits

LEMMA NamesFreed ==
  ASSUME NEW rs \in Seq(Refs), NEW new,
         new = [k \in 1 .. Len(rs) |->
                  IF HasFile(rs[k]) THEN [rs[k] EXCEPT !.full_filename = NULL] ELSE rs[k]]
  PROVE  new \in Seq(Refs) /\ Len(new) = Len(rs)
<1>1. Len(rs) \in Nat /\ \A k \in 1 .. Len(rs) : rs[k] \in Refs
  BY LenProperties
<1>2. \A k \in 1 .. Len(rs) : [rs[k] EXCEPT !.full_filename = NULL] \in Refs
  BY <1>1 DEF Refs
<1>3. new \in [1 .. Len(rs) -> Refs]
  BY <1>1, <1>2
<1> QED  BY <1>1, <1>3, AsSeq

LEMMA SubmitFits ==
  ASSUME RefsTyped, FilesTyped, NEW rs \in Seq(Refs), Len(rs) = Len(refs),
         NEW p, NEW url, Submit(rs, p, url), UNCHANGED <<page, oms_pos, fed, disk>>
  PROVE  /\ RefsTyped' /\ FilesTyped' /\ UploadFits'
         /\ view' = "leaving" /\ Len(refs') = Len(refs)
<1>1. view' = "leaving" /\ Collect(rs, p)
  BY DEF Submit
<1> DEFINE Freed == [k \in 1 .. Len(rs) |->
                       IF HasFile(rs[k]) THEN [rs[k] EXCEPT !.full_filename = NULL] ELSE rs[k]]
           Sent(counted, filled, ram) ==
             [counted |-> counted.len, written |-> filled.len, ram |-> ram,
              attached |-> AttachedTo(rs), sent |-> filled.sent]
<1>2. PICK ram \in FreeRam :
        /\ filesize' = CountPass(rs, p, ram).size
        /\ upload' = Sent(CountPass(rs, p, ram), FillPass(rs, p, CountPass(rs, p, ram).size), ram)
        /\ refs' = Freed
  BY <1>1 DEF Collect, AttachedTo
<1>3. refs' \in Seq(Refs) /\ Len(refs') = Len(refs)
  <2> HIDE DEF Freed
  <2>1. refs' = Freed
    BY <1>2
  <2> QED  BY <2>1, NamesFreed DEF Freed
<1> HIDE DEF Freed
<1> DEFINE counted == CountPass(rs, p, ram)
           filled == FillPass(rs, p, counted.size)
<1>4. /\ page \in Pages /\ disk \in [Files -> FileSizes] /\ filesize \in Nat
      /\ Len(rs) <= Len(page)
  BY DEF RefsTyped, FilesTyped
<1>5. counted \in Counts
  <2>1. PICK c \in [0 .. Len(rs) -> Counts] :
          CountedTo(c, rs, p, ram) /\ CountPass(rs, p, ram) = c[Len(rs)]
    BY <1>4, CountInTurn
  <2>2. Len(rs) \in 0 .. Len(rs)
    BY LenProperties
  <2> QED  BY <2>1, <2>2
<1>6. /\ filesize' = counted.size
      /\ upload' = [counted |-> counted.len, written |-> filled.len, ram |-> ram,
                    attached |-> AttachedTo(rs), sent |-> filled.sent]
  BY <1>2
<1>7. Cardinality(AttachedTo(rs)) < 2 \/ ReadyOf(rs, ram) = AttachedTo(rs)
      => filled.len <= counted.len /\ filled.sent = PlacesOf(ReadyOf(rs, ram))
  BY <1>4, RequestFits
<1> HIDE DEF counted, filled
<1>8. /\ upload'.counted = counted.len /\ upload'.written = filled.len /\ upload'.ram = ram
      /\ upload'.attached = AttachedTo(rs) /\ upload'.sent = filled.sent
  BY <1>6
<1>9. \A n : CanBeSent(n)' <=> Sendable(n, ram)
  BY <1>8 DEF CanBeSent, Sendable
<1>10. {f \in AttachedTo(rs) : CanBeSent(f[2])'} = ReadyOf(rs, ram)
  BY <1>9 DEF ReadyOf
<1>11. UploadFits'
  BY <1>7, <1>8, <1>10 DEF UploadFits, PlacesOf
<1>12. FilesTyped'
  BY <1>4, <1>5, <1>6 DEF FilesTyped, Counts
<1>13. RefsTyped'
  BY <1>3 DEF RefsTyped
<1> QED  BY <1>1, <1>3, <1>11, <1>12, <1>13

LEMMA EditFits ==
  ASSUME RefsTyped, FilesTyped, UploadFits, NEW rs \in Seq(Refs), Len(rs) = Len(refs),
         Edit(rs), UNCHANGED <<page, oms_pos, fed, disk>>
  PROVE  /\ RefsTyped' /\ FilesTyped' /\ UploadFits'
         /\ view' = view /\ Len(refs') = Len(refs)
<1>1. refs' = rs /\ view' = view /\ filesize' = filesize /\ upload' = upload
  BY DEF Edit, request
<1> QED  BY <1>1 DEF RefsTyped, FilesTyped, UploadFits, CanBeSent

\* The form is changed to rs, and stays or is sent.
LEMMA ChangeFits ==
  ASSUME RefsTyped, FilesTyped, UploadFits, NEW rs \in Seq(Refs), Len(rs) = Len(refs),
         NEW p, NEW url, Edit(rs) \/ Submit(rs, p, url), UNCHANGED <<page, oms_pos, fed, disk>>
  PROVE  RefsTyped' /\ FilesTyped' /\ UploadFits'
BY EditFits, SubmitFits

LEMMA Quiet ==
  ASSUME UploadsInv, UNCHANGED <<page, fed, refs, filesize, upload, disk>>, oms_pos' \in Nat
  PROVE  RefsTyped' /\ FilesTyped' /\ UploadFits'
BY DEF UploadsInv, RefsTyped, FilesTyped, UploadFits, CanBeSent

LEMMA OnTyped ==
  ASSUME RefsTyped, NEW k \in 1 .. Len(refs)
  PROVE  [refs EXCEPT ![k].on = ~@] \in Seq(Refs) /\ Len([refs EXCEPT ![k].on = ~@]) = Len(refs)
<1> DEFINE x == [refs[k] EXCEPT !.on = ~refs[k].on]
<1>1. x \in Refs
  BY RefTyped DEF Refs
<1>2. [refs EXCEPT ![k].on = ~@] = [refs EXCEPT ![k] = x]
  OBVIOUS
<1> HIDE DEF x
<1> QED  BY <1>1, <1>2, OneTyped

LEMMA DataTyped ==
  ASSUME RefsTyped, NEW k \in 1 .. Len(refs), NEW t \in Strings
  PROVE  [refs EXCEPT ![k].data = t] \in Seq(Refs) /\ Len([refs EXCEPT ![k].data = t]) = Len(refs)
<1> DEFINE x == [refs[k] EXCEPT !.data = t]
<1>1. x \in Refs
  BY RefTyped DEF Refs
<1>2. [refs EXCEPT ![k].data = t] = [refs EXCEPT ![k] = x]
  OBVIOUS
<1> HIDE DEF x
<1> QED  BY <1>1, <1>2, OneTyped

LEMMA ValueTyped ==
  ASSUME RefsTyped, NEW k \in 1 .. Len(refs), NEW v \in SUBSET Nat
  PROVE  [refs EXCEPT ![k].value = v] \in Seq(Refs) /\ Len([refs EXCEPT ![k].value = v]) = Len(refs)
<1> DEFINE x == [refs[k] EXCEPT !.value = v]
<1>1. x \in Refs
  BY RefTyped DEF Refs
<1>2. [refs EXCEPT ![k].value = v] = [refs EXCEPT ![k] = x]
  OBVIOUS
<1> HIDE DEF x
<1> QED  BY <1>1, <1>2, OneTyped

LEMMA FileTyped ==
  ASSUME RefsTyped, NEW k \in 1 .. Len(refs), NEW f \in Files,
         NEW rs, rs = [refs EXCEPT ![k].upload_file_data_not_present = FALSE,
                                   ![k].full_filename = f, ![k].data = f]
  PROVE  rs \in Seq(Refs) /\ Len(rs) = Len(refs)
<1> DEFINE x == [refs[k] EXCEPT !.upload_file_data_not_present = FALSE,
                                !.full_filename = f, !.data = f]
<1>1. x \in Refs
  <2>1. f \in Strings
    BY BytesAssumption
  <2> QED  BY <2>1, RefTyped DEF Refs
<1>2. rs = [refs EXCEPT ![k] = x]
  BY LenProperties DEF RefsTyped
<1>3. [refs EXCEPT ![k] = x] \in Seq(Refs) /\ Len([refs EXCEPT ![k] = x]) = Len(refs)
  <2> HIDE DEF x
  <2> QED  BY <1>1, OneTyped
<1> HIDE DEF x
<1> QED  BY <1>2, <1>3

LEMMA GroupTyped ==
  ASSUME RefsTyped, NEW k \in 1 .. Len(refs)
  PROVE  OnlyOn(k) \in Seq(Refs) /\ Len(OnlyOn(k)) = Len(refs)
<1>1. ASSUME NEW j \in 1 .. Len(refs) PROVE OnlyOn(k)[j] \in Refs
  <2> DEFINE on == IF j = k THEN TRUE ELSE refs[j].on /\ ~(j \in Same(k) /\ refs[j].tag = "r")
  <2>1. refs[j] \in Refs
    BY RefTyped
  <2>2. OnlyOn(k)[j] = [refs[j] EXCEPT !.on = on]
    BY DEF OnlyOn
  <2>3. on \in BOOLEAN
    BY <2>1 DEF Refs
  <2> HIDE DEF on
  <2> QED  BY <2>1, <2>2, <2>3 DEF Refs
<1>2. Len(refs) \in Nat
  BY LenProperties DEF RefsTyped
<1>3. OnlyOn(k) \in [1 .. Len(refs) -> Refs]
  <2>1. OnlyOn(k) = [j \in 1 .. Len(refs) |-> OnlyOn(k)[j]]
    BY DEF OnlyOn
  <2> QED  BY <1>1, <2>1
<1> QED  BY <1>2, <1>3, AsSeq

LEMMA NewRefTyped ==
  ASSUME page \in Pages, KeptTyped, NEW k \in 1 .. Len(page)
  PROVE  NewRef(k) \in Refs
<1> DEFINE data == IF k \in DOMAIN user_text THEN user_text[k] ELSE page[k].text
           value == IF k \in DOMAIN user_list THEN user_list[k] ELSE page[k].marked
           on == page[k].marked # {}
           rf == [tag |-> page[k].tag, name |-> page[k].name, no_upload |-> page[k].no_upload,
                  multiselect |-> page[k].multiselect, data |-> data, value |-> value,
                  on |-> on, upload_file_data_not_present |-> TRUE, full_filename |-> NULL]
<1>1. NewRef(k) = rf
  BY DEF NewRef
<1>2. page[k] \in Controls
  BY PageParts
<1>3. /\ page[k].tag \in {"L", "x", "p", "s", "c", "r", "i", "u"} /\ page[k].name \in Strings
      /\ page[k].text \in Strings /\ page[k].marked \in SUBSET Nat
      /\ page[k].multiselect \in BOOLEAN /\ page[k].no_upload \in BOOLEAN
  BY <1>2 DEF Controls
<1>4. data \in Strings
  BY <1>3, BytesAssumption DEF KeptTyped
<1>5. value \in SUBSET Nat
  BY <1>3 DEF KeptTyped
<1>6. on \in BOOLEAN
  OBVIOUS
<1>7. rf \in Refs
  <2> HIDE DEF data, value, on
  <2> QED  BY <1>3, <1>4, <1>5, <1>6 DEF Refs
<1> HIDE DEF rf
<1> QED  BY <1>1, <1>7

LEMMA NoDialogTyped == ASSUME dialog' = NoDialog PROVE DialogTyped'
BY DEF NoDialog, DialogTyped

LEMMA KeepTyped ==
  ASSUME NEW f, NEW S, f \in [DOMAIN f -> S], NEW id, NEW v \in S, NEW g, g = Keep(f, id, v)
  PROVE  g \in [DOMAIN g -> S]
<1>1. DOMAIN g = DOMAIN f \cup {id} /\ \A j \in DOMAIN g : g[j] \in S
  BY DEF Keep
<1>2. g = [j \in DOMAIN g |-> g[j]]
  BY DEF Keep
<1> QED  BY <1>1, <1>2

-----------------------------------------------------------------------------
(***************************************************************************)
(* The steps.                                                              *)
(***************************************************************************)

LEMMA ArriveFits == ASSUME UploadsInv, Arrive PROVE UploadsInv'
<1> DEFINE rf == NewRef(oms_pos + 1)
<1>1. /\ view' = view /\ fed < Len(page) /\ oms_pos < Len(page)
      /\ fed' = fed + 1 /\ oms_pos' = oms_pos + 1 /\ refs' = Append(refs, rf)
      /\ dialog' = [dialog EXCEPT !.stale = dialog.kind = "files"]
      /\ UNCHANGED <<page, user_text, user_list, filesize, upload, disk>>
  BY DEF Arrive, kept, request
<1>2. /\ page \in Pages /\ refs \in Seq(Refs) /\ fed = Len(refs) /\ oms_pos \in Nat
      /\ Len(page) \in Nat /\ Len(refs) \in Nat
  BY PageParts, LenProperties DEF UploadsInv, RefsTyped
<1>3. rf \in Refs
  BY <1>1, <1>2, NewRefTyped DEF UploadsInv
<1> HIDE DEF rf
<1>4. refs' \in Seq(Refs) /\ Len(refs') = Len(refs) + 1
  BY <1>1, <1>2, <1>3, AppendProperties
<1>5. RefsTyped'
  BY <1>1, <1>2, <1>4 DEF RefsTyped
<1>6. KeptTyped' /\ FilesTyped' /\ UploadFits'
  BY <1>1 DEF UploadsInv, KeptTyped, FilesTyped, UploadFits, CanBeSent
<1>7. DialogTyped'
  <2>1. /\ dialog \in [kind: {"none", "input", "list", "files"}, pos_ref: Nat, stale: BOOLEAN]
        /\ dialog.kind # "none" => view = "shown" /\ dialog.pos_ref \in 0 .. Len(refs)
        /\ dialog.kind \in {"input", "list"} => dialog.pos_ref # 0
    BY DEF UploadsInv, DialogTyped
  <2>2. /\ dialog' \in [kind: {"none", "input", "list", "files"}, pos_ref: Nat, stale: BOOLEAN]
        /\ dialog'.kind = dialog.kind /\ dialog'.pos_ref = dialog.pos_ref
    BY <1>1, <2>1
  <2> QED  BY <1>1, <1>2, <1>4, <2>1, <2>2 DEF DialogTyped
<1> QED  BY <1>5, <1>6, <1>7 DEF UploadsInv

\* A key with the cursor on reference k that changes the form or sends it.
LEMMA PressFits ==
  ASSUME UploadsInv, dialog = NoDialog, NEW rs \in Seq(Refs), Len(rs) = Len(refs), NEW p, NEW url,
         Edit(rs) \/ Submit(rs, p, url), UNCHANGED <<page, oms_pos, fed, kept, dialog, disk>>
  PROVE  UploadsInv'
<1>1. RefsTyped' /\ FilesTyped' /\ UploadFits'
  BY ChangeFits DEF UploadsInv
<1>2. KeptTyped'
  BY DEF UploadsInv, KeptTyped, kept
<1>3. DialogTyped'
  BY NoDialogTyped
<1> QED  BY <1>1, <1>2, <1>3 DEF UploadsInv

LEMMA EnterFits ==
  ASSUME UploadsInv, NEW k \in 1 .. Len(refs),
         EnterScript(k) \/ EnterRadio(k) \/ EnterCheckBox(k) \/ EnterButton(k)
  PROVE  UploadsInv'
<1>1. refs \in Seq(Refs) /\ RefsTyped
  BY DEF UploadsInv, RefsTyped
<1>2. CASE EnterScript(k)
  <2>1. /\ dialog = NoDialog /\ Submit(refs, k, "script")
        /\ UNCHANGED <<page, oms_pos, fed, kept, dialog, disk>>
    BY <1>2 DEF EnterScript, IsLink, Pressed
  <2> QED  BY <1>1, <2>1, PressFits
<1>3. CASE EnterButton(k)
  <2>1. /\ dialog = NoDialog /\ Submit(refs, k, "page")
        /\ UNCHANGED <<page, oms_pos, fed, kept, dialog, disk>>
    BY <1>3 DEF EnterButton, Pressed
  <2> QED  BY <1>1, <2>1, PressFits
<1>4. CASE EnterCheckBox(k)
  <2> DEFINE rs == [refs EXCEPT ![k].on = ~@]
  <2>1. /\ dialog = NoDialog
        /\ Edit(rs) \/ Submit(rs, k, "page")
        /\ UNCHANGED <<page, oms_pos, fed, kept, dialog, disk>>
    BY <1>4 DEF EnterCheckBox, Pressed
  <2>2. rs \in Seq(Refs) /\ Len(rs) = Len(refs)
    BY <1>1, OnTyped
  <2> HIDE DEF rs
  <2> QED  BY <2>1, <2>2, PressFits
<1>5. CASE EnterRadio(k)
  <2>1. /\ dialog = NoDialog
        /\ Edit(OnlyOn(k)) \/ Submit(OnlyOn(k), k, "page")
        /\ UNCHANGED <<page, oms_pos, fed, kept, dialog, disk>>
    BY <1>5 DEF EnterRadio, Pressed, OnlyOn, Same
  <2>2. OnlyOn(k) \in Seq(Refs) /\ Len(OnlyOn(k)) = Len(refs)
    BY <1>1, GroupTyped
  <2> QED  BY <2>1, <2>2, PressFits
<1> QED  BY <1>2, <1>3, <1>4, <1>5

\* A link is followed, or a dialog opened.
LEMMA OpenFits ==
  ASSUME UploadsInv, NEW k \in 1 .. Len(refs),
         EnterLink(k) \/ EnterFileSelect(k) \/ EnterField(k) \/ EnterList(k)
  PROVE  UploadsInv'
<1>1. oms_pos \in Nat /\ k \in Nat /\ Len(refs) \in Nat
  BY LenProperties DEF UploadsInv, RefsTyped
<1>2. /\ UNCHANGED <<page, fed, refs, filesize, upload, disk, user_text, user_list>>
      /\ oms_pos' \in Nat
  BY <1>1 DEF EnterLink, EnterFileSelect, EnterField, EnterList, pageVars, kept, request
<1>3. RefsTyped' /\ FilesTyped' /\ UploadFits' /\ KeptTyped'
  BY <1>2, Quiet DEF UploadsInv, KeptTyped
<1>4. DialogTyped'
  <2>1. CASE EnterLink(k)
    <3>1. dialog' = NoDialog
      BY <2>1 DEF EnterLink, IsLink, Pressed
    <3> QED  BY <3>1, NoDialogTyped
  <2>2. CASE EnterFileSelect(k)
    <3>1. PICK prev \in PrevRef(k) :
            dialog' = [kind |-> "files", pos_ref |-> prev, stale |-> FALSE]
      BY <2>2 DEF EnterFileSelect
    <3>2. k > 1 /\ view' = "shown"
      BY <2>2 DEF EnterFileSelect, IsLink, Pressed
    <3>3. prev \in 0 .. Len(refs)
      BY <1>1, <3>2 DEF PrevRef
    <3> QED  BY <1>2, <3>1, <3>2, <3>3 DEF DialogTyped
  <2>3. CASE EnterField(k)
    <3>1. view' = "shown" /\ dialog' = [kind |-> "input", pos_ref |-> k, stale |-> FALSE]
      BY <2>3 DEF EnterField, Pressed
    <3> QED  BY <1>1, <1>2, <3>1 DEF DialogTyped
  <2>4. CASE EnterList(k)
    <3>1. view' = "shown" /\ dialog' = [kind |-> "list", pos_ref |-> k, stale |-> FALSE]
      BY <2>4 DEF EnterList, Pressed, request
    <3> QED  BY <1>1, <1>2, <3>1 DEF DialogTyped
  <2> QED  BY <2>1, <2>2, <2>3, <2>4
<1> QED  BY <1>3, <1>4 DEF UploadsInv

LEMMA InputOkFits ==
  ASSUME UploadsInv, NEW t \in Texts, NEW green, InputOk(t, green)
  PROVE  UploadsInv'
<1> DEFINE k == dialog.pos_ref
           rs == [refs EXCEPT ![k].data = t]
<1>1. /\ dialog.kind = "input" /\ user_text' = Keep(user_text, k, t) /\ dialog' = NoDialog
      /\ Edit(rs) \/ Submit(rs, k, "page")
      /\ UNCHANGED <<page, oms_pos, fed, user_list, disk>>
  BY DEF InputOk
<1>2. k \in 1 .. Len(refs)
  BY <1>1 DEF UploadsInv, DialogTyped
<1>3. t \in Strings
  BY BytesAssumption
<1> HIDE DEF k
<1>4. rs \in Seq(Refs) /\ Len(rs) = Len(refs)
  BY <1>2, <1>3, DataTyped DEF UploadsInv
<1> HIDE DEF rs
<1>5. RefsTyped' /\ FilesTyped' /\ UploadFits'
  BY <1>1, <1>4, ChangeFits DEF UploadsInv
<1>6. KeptTyped'
  BY <1>1, KeepTyped DEF UploadsInv, KeptTyped
<1> QED  BY <1>1, <1>5, <1>6, NoDialogTyped DEF UploadsInv

LEMMA TakeItemFits ==
  ASSUME UploadsInv, NEW i \in Nat, TakeItem(i)
  PROVE  UploadsInv'
<1> DEFINE k == dialog.pos_ref
           v == At(k, Short(page[k].places[i]))
           rs == [refs EXCEPT ![k].value = v]
<1>1. /\ dialog.kind = "list" /\ user_list' = Keep(user_list, k, v) /\ dialog' = NoDialog
      /\ Edit(rs) \/ Submit(rs, k, "page")
      /\ UNCHANGED <<page, oms_pos, fed, user_text, disk>>
  BY DEF TakeItem
<1>2. k \in 1 .. Len(refs)
  BY <1>1 DEF UploadsInv, DialogTyped
<1>0. v \in SUBSET Nat
  <2>1. page[k].options \in Seq(Strings)
    BY <1>2, RefTyped DEF UploadsInv, Controls
  <2>2. DOMAIN page[k].options \subseteq Nat
    BY <2>1, LenProperties
  <2> QED  BY <2>2 DEF At
<1> HIDE DEF k, v
<1>3. rs \in Seq(Refs) /\ Len(rs) = Len(refs)
  BY <1>0, <1>2, ValueTyped DEF UploadsInv
<1> HIDE DEF rs
<1>4. RefsTyped' /\ FilesTyped' /\ UploadFits'
  BY <1>1, <1>3, ChangeFits DEF UploadsInv
<1>5. KeptTyped'
  BY <1>0, <1>1, KeepTyped DEF UploadsInv, KeptTyped
<1> QED  BY <1>1, <1>4, <1>5, NoDialogTyped DEF UploadsInv

LEMMA MarkItemFits ==
  ASSUME UploadsInv, NEW i \in Nat, MarkItem(i)
  PROVE  UploadsInv'
<1> DEFINE k == dialog.pos_ref
           v == IF i \in refs[k].value THEN refs[k].value \ {i} ELSE refs[k].value \cup {i}
           rs == [refs EXCEPT ![k].value = v]
<1>1. dialog.kind = "list" /\ UNCHANGED <<page, oms_pos, fed, kept, dialog, disk>>
  BY DEF MarkItem
<1>2. Edit(rs)
  <2>1. Edit([refs EXCEPT ![k].value = IF i \in @ THEN @ \ {i} ELSE @ \cup {i}])
    BY DEF MarkItem
  <2>2. [refs EXCEPT ![k].value = IF i \in @ THEN @ \ {i} ELSE @ \cup {i}] = rs
    OBVIOUS
  <2> HIDE DEF rs
  <2> QED  BY <2>1, <2>2
<1>3. k \in 1 .. Len(refs)
  BY <1>1 DEF UploadsInv, DialogTyped
<1>4. v \in SUBSET Nat
  <2>1. refs[k] \in Refs
    BY <1>3, RefTyped DEF UploadsInv
  <2> QED  BY <2>1 DEF Refs
<1>5. rs \in Seq(Refs) /\ Len(rs) = Len(refs)
  <2> HIDE DEF v, k
  <2> QED  BY <1>3, <1>4, ValueTyped DEF UploadsInv
<1> HIDE DEF k, v, rs
<1>6. RefsTyped' /\ FilesTyped' /\ UploadFits' /\ view' = view /\ Len(refs') = Len(refs)
  BY <1>1, <1>2, <1>5, EditFits DEF UploadsInv
<1>7. KeptTyped' /\ DialogTyped'
  BY <1>1, <1>6 DEF UploadsInv, KeptTyped, DialogTyped, kept
<1> QED  BY <1>6, <1>7 DEF UploadsInv

LEMMA TakeFileFits ==
  ASSUME UploadsInv, NEW f \in Files, TakeFile(f)
  PROVE  UploadsInv'
<1> DEFINE k == dialog.pos_ref
           rs == [refs EXCEPT ![k].upload_file_data_not_present = FALSE,
                              ![k].full_filename = f, ![k].data = f]
<1>1. /\ dialog.kind = "files" /\ dialog' = NoDialog
      /\ UNCHANGED <<page, oms_pos, fed, kept, disk>>
  BY DEF TakeFile
<1>2. ASSUME dialog.stale \/ k = 0
      PROVE  RefsTyped' /\ FilesTyped' /\ UploadFits'
  <2>1. UNCHANGED <<page, fed, oms_pos, refs, filesize, upload, disk>>
    BY <1>1, <1>2 DEF TakeFile, request
  <2>2. oms_pos' \in Nat
    BY <1>1 DEF UploadsInv, RefsTyped
  <2> QED  BY <2>1, <2>2, Quiet
<1>3. ASSUME ~(dialog.stale \/ k = 0)
      PROVE  RefsTyped' /\ FilesTyped' /\ UploadFits'
  <2>1. k \in 1 .. Len(refs) /\ refs \in Seq(Refs)
    BY <1>1, <1>3, LenProperties DEF UploadsInv, RefsTyped, DialogTyped
  <2>2. Edit(rs)
    BY <1>3, SMT DEF TakeFile
  <2>3. rs \in Seq(Refs) /\ Len(rs) = Len(refs)
    <3>1. rs = [refs EXCEPT ![k].upload_file_data_not_present = FALSE,
                            ![k].full_filename = f, ![k].data = f]
      OBVIOUS
    <3> HIDE DEF rs
    <3> QED  BY <2>1, <3>1, FileTyped DEF UploadsInv
  <2> HIDE DEF rs
  <2> QED  BY <1>1, <2>2, <2>3, EditFits DEF UploadsInv
<1>4. RefsTyped' /\ FilesTyped' /\ UploadFits'
  BY <1>2, <1>3
<1>5. KeptTyped'
  BY <1>1 DEF UploadsInv, KeptTyped, kept
<1> QED  BY <1>1, <1>4, <1>5, NoDialogTyped DEF UploadsInv

\* A dialog is closed, the page left or returned to, a file changed.
LEMMA RestFits ==
  ASSUME UploadsInv,
         \/ CloseDialog \/ Leave \/ Return \/ UNCHANGED vars
         \/ \E f \in Files : DiskChanges(f)
  PROVE  UploadsInv'
<1>1. CASE CloseDialog
  <2>1. dialog' = NoDialog /\ UNCHANGED <<pageVars, kept, request, view, disk>>
    BY <1>1 DEF CloseDialog
  <2>2. RefsTyped' /\ FilesTyped' /\ UploadFits' /\ KeptTyped'
    BY <2>1, Quiet DEF UploadsInv, KeptTyped, RefsTyped, pageVars, kept, request
  <2> QED  BY <2>1, <2>2, NoDialogTyped DEF UploadsInv
<1>2. CASE Leave
  <2>1. view = "leaving" /\ UNCHANGED <<pageVars, kept, dialog, filesize, upload, disk>>
    BY <1>2 DEF Leave
  <2>2. RefsTyped' /\ FilesTyped' /\ UploadFits' /\ KeptTyped'
    BY <2>1, Quiet DEF UploadsInv, KeptTyped, RefsTyped, pageVars, kept
  <2>3. DialogTyped'
    BY <2>1 DEF UploadsInv, DialogTyped
  <2> QED  BY <2>2, <2>3 DEF UploadsInv
<1>3. CASE Return
  <2>1. /\ view = "away" /\ refs' = <<>> /\ oms_pos' = 0 /\ fed' = 0
        /\ UNCHANGED <<page, kept, dialog, request, disk>>
    BY <1>3 DEF Return
  <2>2. RefsTyped'
    <3>1. page \in Pages /\ Len(page) \in Nat
      BY PageParts DEF UploadsInv, RefsTyped
    <3>2. page' = page /\ refs' = <<>> /\ Len(refs') = 0 /\ refs' \in Seq(Refs)
      BY <2>1
    <3> QED  BY <2>1, <3>1, <3>2 DEF RefsTyped
  <2>3. FilesTyped' /\ UploadFits' /\ KeptTyped'
    BY <2>1 DEF UploadsInv, FilesTyped, KeptTyped, UploadFits, CanBeSent, kept, request
  <2>4. DialogTyped'
    BY <2>1 DEF UploadsInv, DialogTyped
  <2> QED  BY <2>2, <2>3, <2>4 DEF UploadsInv
<1>4. ASSUME NEW f \in Files, DiskChanges(f) PROVE UploadsInv'
  <2>1. UNCHANGED <<pageVars, kept, dialog, request, view>>
    BY <1>4 DEF DiskChanges
  <2>2. disk' \in [Files -> FileSizes]
    BY <1>4 DEF DiskChanges, UploadsInv, FilesTyped
  <2>3. RefsTyped' /\ KeptTyped' /\ DialogTyped'
    BY <2>1 DEF UploadsInv, RefsTyped, KeptTyped, DialogTyped, pageVars, kept
  <2>4. FilesTyped' /\ UploadFits'
    BY <2>1, <2>2 DEF UploadsInv, FilesTyped, UploadFits, CanBeSent, request
  <2> QED  BY <2>3, <2>4 DEF UploadsInv
<1>5. CASE UNCHANGED vars
  BY <1>5 DEF vars, pageVars, kept, request, UploadsInv, RefsTyped, KeptTyped, DialogTyped,
     FilesTyped, UploadFits, CanBeSent
<1> QED  BY <1>1, <1>2, <1>3, <1>4, <1>5

LEMMA UploadsInit == ASSUME Init PROVE UploadsInv
<1>1. /\ page \in Pages /\ refs = <<>> /\ fed = 0 /\ oms_pos = 0
      /\ user_text = <<>> /\ user_list = <<>> /\ dialog = NoDialog
      /\ filesize = 0 /\ upload = NoUpload /\ disk \in [Files -> FileSizes]
  BY DEF Init
<1>2. Len(page) \in Nat
  BY <1>1, PageParts
<1>3. RefsTyped
  BY <1>1, <1>2 DEF RefsTyped
<1>4. KeptTyped /\ FilesTyped
  BY <1>1 DEF KeptTyped, FilesTyped
<1>5. DialogTyped /\ UploadFits
  BY <1>1, NoUploadFits DEF DialogTyped, NoDialog
<1> QED  BY <1>3, <1>4, <1>5 DEF UploadsInv

LEMMA UploadsStep == ASSUME UploadsInv, [Next]_vars PROVE UploadsInv'
<1>1. CASE Arrive
  BY <1>1, ArriveFits
<1>2. CASE CloseDialog \/ Leave \/ Return \/ UNCHANGED vars
  BY <1>2, RestFits
<1>3. ASSUME NEW k \in 1 .. Len(refs),
             EnterScript(k) \/ EnterRadio(k) \/ EnterCheckBox(k) \/ EnterButton(k)
      PROVE  UploadsInv'
  BY <1>3, EnterFits
<1>4. ASSUME NEW k \in 1 .. Len(refs),
             EnterLink(k) \/ EnterFileSelect(k) \/ EnterField(k) \/ EnterList(k)
      PROVE  UploadsInv'
  BY <1>4, OpenFits
<1>5. ASSUME NEW t \in Texts, NEW green \in BOOLEAN, InputOk(t, green)
      PROVE  UploadsInv'
  BY <1>5, InputOkFits
<1>6. ASSUME NEW i \in 1 .. Len(page), MarkItem(i) \/ TakeItem(i)
      PROVE  UploadsInv'
  <2>1. i \in Nat
    BY PageParts DEF UploadsInv, RefsTyped
  <2> QED  BY <1>6, <2>1, MarkItemFits, TakeItemFits
<1>7. ASSUME NEW f \in Files, TakeFile(f) \/ DiskChanges(f)
      PROVE  UploadsInv'
  BY <1>7, TakeFileFits, RestFits
<1> QED  BY <1>1, <1>2, <1>3, <1>4, <1>5, <1>6, <1>7 DEF Next

(* Whatever the pages, the files and their sizes, the memory there is, the *)
(* user and the connection: what is written of a request is never more     *)
(* than was counted for it, and the files sent are those that can be, when *)
(* one file is attached or all of them can be sent (collectItemsParams,    *)
(* main.c:176-256; upload.c:28-84).                                        *)
THEOREM UploadsFit == Spec => []UploadFits
<1>1. Init => UploadsInv
  BY UploadsInit
<1>2. UploadsInv /\ [Next]_vars => UploadsInv'
  BY UploadsStep
<1>3. UploadsInv => UploadFits
  BY DEF UploadsInv
<1> QED  BY <1>1, <1>2, <1>3, PTL DEF Spec
=============================================================================
