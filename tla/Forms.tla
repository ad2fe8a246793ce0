-------------------------------- MODULE Forms -------------------------------
(***************************************************************************)
(* The forms of a page: the Enter key on each kind of control (main.c),    *)
(* the dialogs for texts, lists and files (display_utils.c, fileman.c),    *)
(* the request made of them (collectItemsParams) with the files that go    *)
(* along (upload.c), and the entries kept on the page stack (urlstack.c).  *)
(*                                                                         *)
(* A reference is known by its place in ref_cache, which stands for        *)
(* `begin' as well as for `id', the place of its name in the data: both    *)
(* are unique, and the same each time the page is read.  The picture drawn *)
(* for a box or a button, rawtext[begin+1], is the field `on'.  An option  *)
(* is known by its number; the list's `value' and `id2', two places of the *)
(* data, stand for the set of the options found there.                     *)
(***************************************************************************)
EXTENDS Naturals, Sequences, FiniteSets, SequencesExt

CONSTANTS
    Pages,          \* the pages: sequences of controls, as the server wrote them
    Texts,          \* what a user types
    Files,          \* the files a user may attach
    Bytes,          \* the length of each string
    FileSizes,      \* the sizes a file may have, NULL for a file that is gone
    BUFSIZE,        \* the bytes read of a file at a time
    RESERVE,        \* the memory left alone
    SHORT,          \* what an unsigned short counts up to: 65536
    FreeRam,        \* the memory there may be
    HurriedUser,    \* a user who does not wait for the whole page
    ScrolledUser,   \* a user who attaches a file with the field off the screen
    Connections,    \* may one be made, may it fail: {TRUE} or BOOLEAN
    MaxSubmits,     \* bound: requests made
    NULL

VARIABLES
    page,           \* what the server sends for this page
    fed,            \* how much of it has arrived
    oms_pos,        \* vd->oms_pos: where the parser goes on
    refs,           \* vd->ref_cache
    user_text,      \* PageSTACK[stack_top-1].user_text, by the field's id
    user_list,      \* PageSTACK[stack_top-1].user_list, by the list's id
    dialog,         \* the dialog open over the page
    goto_url, from_url, goto_params,
    view,           \* the page is "shown", "leaving" or "away", or "broken"
    filesize,       \* the static of upload.c
    disk,           \* external: the size of each file
    upload,         \* history: the sizes and files of the last request
    submits         \* requests made

pageVars == <<page, fed, refs, oms_pos>>
kept     == <<user_text, user_list>>
request  == <<goto_url, from_url, goto_params, filesize, upload, submits>>
vars     == <<pageVars, kept, dialog, request, view, disk>>

NoDialog == [kind |-> "none", pos_ref |-> 0, stale |-> FALSE]
NoUpload == [counted |-> 0, written |-> 0, attached |-> {}, sent |-> {}, ram |-> 0]

(* AddInputItem, AddDropDownList, AddRadioButton, AddCheckBoxItem: the     *)
(* reference as the parser makes it, with the entry kept for it.           *)
NewRef(k) ==
    LET item == page[k]
    IN  [tag |-> item.tag, name |-> item.name, no_upload |-> item.no_upload,
         multiselect |-> item.multiselect,
         data  |-> IF k \in DOMAIN user_text THEN user_text[k] ELSE item.text,
         value |-> IF k \in DOMAIN user_list THEN user_list[k] ELSE item.marked,
         on    |-> item.marked # {},
         upload_file_data_not_present |-> TRUE,
         full_filename |-> NULL]

-----------------------------------------------------------------------------
(* A page as the server writes it: a box or a radio button says whether it *)
(* is on, the link that asks for a file is behind its field, and each      *)
(* option of a list has a place in the data of its own.                    *)
Strings  == DOMAIN Bytes
Controls == [tag: {"L", "x", "p", "s", "c", "r", "i", "u"}, name: Strings, text: Strings,
             marked: SUBSET Nat, options: Seq(Strings), places: Seq(Nat),
             multiselect: BOOLEAN, no_upload: BOOLEAN,
             link: {"no", "plain", "script", "fileselect"}]

ASSUME PagesAssumption ==
    \A p \in Pages :
        /\ p \in Seq(Controls)
        /\ \A k \in 1..Len(p) :
              /\ p[k].tag \in {"c", "r"} => p[k].marked \in {{}, {1}}
              /\ p[k].link = "fileselect" => k > 1 /\ p[k-1].tag \in {"x", "p"}
              /\ Len(p[k].places) = Len(p[k].options) /\ IsInjective(p[k].places)

(* No option of a page is further in than an unsigned short can say. *)
NearPages == \A p \in Pages : \A k \in 1..Len(p) : \A i \in DOMAIN p[k].places :
                 p[k].places[i] < SHORT

ASSUME ShortAssumption == SHORT \in Nat \ {0}

ASSUME BytesAssumption ==
    /\ \A s \in Strings : Bytes[s] \in Nat
    /\ Texts \cup Files \cup {"file="} \subseteq Strings

ASSUME FilesAssumption ==
    /\ FileSizes \subseteq Nat \cup {NULL} /\ NULL \notin Nat \cup Files
    /\ RESERVE \in Nat /\ FreeRam \subseteq Nat
    /\ BUFSIZE \in Nat \ {0} /\ BUFSIZE % 3 = 0

-----------------------------------------------------------------------------
(* upload.c *)

\* mutant: the last bytes of a file are not rounded up
CALCLENShort(size) == (size * 4) \div 3 + Bytes["file="] + 1

CALCLEN(size) == (size * 4) \div 3 + 2 + Bytes["file="] + 1

Base64Size(n) == 4 * ((n + 2) \div 3)

SizeOnDisk(rf) == IF rf.full_filename = NULL THEN NULL ELSE disk[rf.full_filename]

(* The length counted for the file of rf, and filesize after it: a file    *)
(* that is not there leaves the size of the one before.                    *)
GetFileDataLen(rf, size, ram) ==
    LET n == SizeOnDisk(rf)
    IN  CASE n = NULL -> [len |-> 0, size |-> size]
          [] n # NULL /\ (n = 0 \/ ram < RESERVE + CALCLEN(n)) -> [len |-> 0, size |-> 0]
          [] OTHER -> [len |-> CALCLEN(n), size |-> n]

(* The file is read to its end if it opens and filesize, which need not be *)
(* its own, is not 0.                                                      *)
FillFileData(rf, size) ==
    LET n == IF size = 0 THEN NULL ELSE SizeOnDisk(rf)
    IN  IF n = NULL THEN 0
        ELSE Bytes["file="] + (n \div BUFSIZE) * Base64Size(BUFSIZE) + Base64Size(n % BUFSIZE)

-----------------------------------------------------------------------------
(* collectItemsParams: one pass finds the size, the other fills the block. *)

(* What reference k gives to the request when reference p was pressed. *)
Items(rs, k, p) ==
    LET rf      == rs[k]
        it(v)   == [name |-> rf.name, value |-> v]
        tick(i) == IF i \in rf.value THEN <<it(page[k].options[i])>> ELSE <<>>
    IN  CASE rf.tag = "s" -> FlattenSeq([i \in 1..Len(page[k].options) |-> tick(i)])
          [] rf.tag \in {"c", "r"} /\ rf.on -> <<it(page[k].text)>>
          [] rf.tag \in {"i", "u"} /\ k = p -> <<it(page[k].text)>>
          [] rf.tag \in {"p", "x"} -> <<it(rf.data)>>
          [] OTHER -> <<>>

Total(ns) == FoldLeft(LAMBDA m, n : m + n, 0, ns)

ItemsLen(items) ==
    Total([i \in 1..Len(items) |-> Bytes[items[i].name] + 1 + Bytes[items[i].value] + 1])

Places(rs)   == [k \in 1..Len(rs) |-> k]
HasFile(rf)  == rf.tag \in {"p", "x"} /\ ~rf.upload_file_data_not_present

CountPass(rs, p, ram) ==
    FoldLeft(LAMBDA acc, k :
                 LET file == IF HasFile(rs[k]) THEN GetFileDataLen(rs[k], acc.size, ram)
                             ELSE [len |-> 0, size |-> acc.size]
                 IN  [len  |-> acc.len + ItemsLen(Items(rs, k, p)) + file.len,
                      size |-> file.size],
             [len |-> 0, size |-> filesize], Places(rs))

FillPass(rs, p, size) ==
    LET file(k) == IF HasFile(rs[k]) THEN FillFileData(rs[k], size) ELSE 0
    IN  [out  |-> FlattenSeq([k \in 1..Len(rs) |-> Items(rs, k, p)]),
         len  |-> Total([k \in 1..Len(rs) |-> ItemsLen(Items(rs, k, p)) + file(k)]),
         sent |-> {k \in 1..Len(rs) : file(k) > 0}]

(* goto_params = collectItemsParams(vd, rf): the files' names are freed.   *)
Collect(rs, p) ==
    \E ram \in FreeRam :
        LET counted == CountPass(rs, p, ram)
            filled  == FillPass(rs, p, counted.size)
        IN  /\ goto_params' = filled.out
            /\ filesize' = counted.size
            /\ upload' = [counted  |-> counted.len, written |-> filled.len, ram |-> ram,
                          attached |-> {<<k, SizeOnDisk(rs[k])>> :
                                            k \in {j \in 1..Len(rs) : HasFile(rs[j])}},
                          sent     |-> filled.sent]
            /\ refs' = [k \in 1..Len(rs) |->
                           IF HasFile(rs[k]) THEN [rs[k] EXCEPT !.full_filename = NULL]
                           ELSE rs[k]]

(* The form, changed to rs, is sent from reference p; the view closes.     *)
Submit(rs, p, url) == /\ goto_url' = url
                      /\ from_url' = TRUE
                      /\ Collect(rs, p)
                      /\ view' = "leaving"
                      /\ UNCHANGED submits

(* The form is changed to rs and stays on the screen. *)
Edit(rs) == /\ refs' = rs
            /\ UNCHANGED <<request, view>>

-----------------------------------------------------------------------------

Init == /\ page \in Pages
        /\ oms_pos = 0 /\ fed = 0 /\ refs = <<>>
        /\ user_text = <<>> /\ user_list = <<>>
        /\ dialog = NoDialog
        /\ goto_url = NULL /\ from_url = FALSE /\ goto_params = NULL
        /\ view = "shown"
        /\ filesize = 0 /\ upload = NoUpload /\ submits = 0
        /\ disk \in [Files -> FileSizes]

(* OMS_DataArrived: the next reference is read where oms_pos stands.  The  *)
(* cache grows by realloc: a pointer into it is stale from now on.         *)
Arrive == /\ view = "shown" /\ fed < Len(page) /\ oms_pos < Len(page)
          /\ fed' = fed + 1
          /\ oms_pos' = oms_pos + 1
          /\ refs' = Append(refs, NewRef(oms_pos + 1))
          /\ dialog' = [dialog EXCEPT !.stale = dialog.kind = "files"]
          /\ UNCHANGED <<page, kept, request, view, disk>>

Loaded == fed = Len(page)

(* method5, cfgKeyEnter, with the cursor on reference k. *)
Pressed(k, tags) == view = "shown" /\ dialog = NoDialog /\ refs[k].tag \in tags

IsLink(k, link) == Pressed(k, {"L"}) /\ page[k].link = link

EnterLink(k) ==
    /\ IsLink(k, "plain")
    /\ goto_url' = "link"
    /\ view' = "leaving"
    /\ UNCHANGED <<pageVars, kept, dialog, from_url, goto_params, filesize, upload, submits, disk>>

EnterScript(k) == /\ IsLink(k, "script")
                  /\ Submit(refs, k, "script")
                  /\ UNCHANGED <<page, oms_pos, fed, kept, dialog, disk>>

(* pos_prev_ref, the last reference drawn before the cursor: the one       *)
(* before it or, when that is off the screen, and with it all that is      *)
(* above, none.                                                            *)
PrevRef(k) == IF ScrolledUser THEN {k - 1, 0} ELSE {k - 1}

(* "0/op:fileselect": the file is for the reference before this one, which *)
(* the file manager is given as a pointer.                                 *)
EnterFileSelect(k) ==
    /\ IsLink(k, "fileselect") /\ k > 1
    /\ HurriedUser \/ Loaded
    /\ goto_url' = "0/op:fileselect"
    /\ \E prev \in PrevRef(k) : dialog' = [kind |-> "files", pos_ref |-> prev, stale |-> FALSE]
    /\ UNCHANGED <<pageVars, kept, from_url, goto_params, filesize, upload, submits, view, disk>>

\* mutant: the other buttons of a group keep their mark
EnterRadioAlone(k) ==
    /\ Pressed(k, {"r"}) /\ ~refs[k].on
    /\ LET rs == [refs EXCEPT ![k].on = TRUE]
       IN  IF refs[k].no_upload THEN Edit(rs) ELSE Submit(rs, k, "page")
    /\ UNCHANGED <<page, oms_pos, fed, kept, dialog, disk>>

(* FindReferenceById finds the references of the same name; those of them  *)
(* that show a radio button that is on lose it.                            *)
EnterRadio(k) ==
    /\ Pressed(k, {"r"}) /\ ~refs[k].on
    /\ LET same == {j \in 1..Len(refs) : refs[j].name = refs[k].name}
           rs   == [j \in 1..Len(refs) |->
                       [refs[j] EXCEPT !.on = IF j = k THEN TRUE
                                              ELSE @ /\ ~(j \in same /\ refs[j].tag = "r")]]
       IN  IF refs[k].no_upload THEN Edit(rs) ELSE Submit(rs, k, "page")
    /\ UNCHANGED <<page, oms_pos, fed, kept, dialog, disk>>

EnterCheckBox(k) ==
    /\ Pressed(k, {"c"})
    /\ LET rs == [refs EXCEPT ![k].on = ~@]
       IN  IF refs[k].no_upload THEN Edit(rs) ELSE Submit(rs, k, "page")
    /\ UNCHANGED <<page, oms_pos, fed, kept, dialog, disk>>

EnterButton(k) == /\ Pressed(k, {"i", "u"})
                  /\ Submit(refs, k, "page")
                  /\ UNCHANGED <<page, oms_pos, fed, kept, dialog, disk>>

(* CreateInputBox remembers the field by its place. *)
EnterField(k) ==
    /\ Pressed(k, {"x", "p"})
    /\ dialog' = [kind |-> "input", pos_ref |-> k, stale |-> FALSE]
    /\ UNCHANGED <<pageVars, kept, request, view, disk>>

(* ChangeMenuSelection walks the options with oms_pos, the parser's place. *)
EnterList(k) ==
    /\ Pressed(k, {"s"})
    /\ HurriedUser \/ Loaded
    /\ oms_pos' = k
    /\ dialog' = [kind |-> "list", pos_ref |-> k, stale |-> FALSE]
    /\ UNCHANGED <<page, fed, refs, kept, request, view, disk>>

-----------------------------------------------------------------------------
(* The dialogs.  A closed dialog changes nothing. *)

Keep(f, id, v) == [j \in DOMAIN f \cup {id} |-> IF j = id THEN v ELSE f[j]]

(* input_box_onkey: Ok, or the green button, which sends the form at once. *)
InputOk(text, green) ==
    /\ dialog.kind = "input"
    /\ LET k  == dialog.pos_ref
           rs == [refs EXCEPT ![k].data = text]
       IN  /\ user_text' = Keep(user_text, k, text)
           /\ IF green \/ ~refs[k].no_upload THEN Submit(rs, k, "page") ELSE Edit(rs)
    /\ dialog' = NoDialog
    /\ UNCHANGED <<page, oms_pos, fed, user_list, disk>>

(* A place in the data as the menu's item holds it, an unsigned short, and *)
(* the options of list k that are found at a place: none if it is another  *)
(* piece of the page.                                                      *)
Short(n) == n % SHORT

At(k, n) == {i \in DOMAIN page[k].options : page[k].places[i] = n}

(* sel_menu_onkey: an item of a list of several is marked and the menu     *)
(* stays; one of a list of one is taken, by its place.                     *)
MarkItem(i) ==
    /\ dialog.kind = "list" /\ refs[dialog.pos_ref].multiselect
    /\ i \in DOMAIN page[dialog.pos_ref].options
    /\ Edit([refs EXCEPT ![dialog.pos_ref].value = IF i \in @ THEN @ \ {i} ELSE @ \cup {i}])
    /\ UNCHANGED <<page, oms_pos, fed, kept, dialog, disk>>

TakeItem(i) ==
    /\ dialog.kind = "list" /\ ~refs[dialog.pos_ref].multiselect
    /\ i \in DOMAIN page[dialog.pos_ref].options
    /\ LET k  == dialog.pos_ref
           v  == At(k, Short(page[k].places[i]))
           rs == [refs EXCEPT ![k].value = v]
       IN  /\ user_list' = Keep(user_list, k, v)
           /\ IF refs[k].no_upload THEN Edit(rs) ELSE Submit(rs, k, "page")
    /\ dialog' = NoDialog
    /\ UNCHANGED <<page, oms_pos, fed, user_text, disk>>

(* filelist_menu_onkey calls PrepareFileForUpload with the pointer.  When  *)
(* there was no reference, or the cache has moved, it writes elsewhere,    *)
(* and nothing is known from then on.                                      *)
TakeFile(f) ==
    /\ dialog.kind = "files"
    /\ IF dialog.stale \/ dialog.pos_ref = 0
         THEN view' = "broken" /\ UNCHANGED <<refs, request>>
         ELSE Edit([refs EXCEPT ![dialog.pos_ref].upload_file_data_not_present = FALSE,
                                ![dialog.pos_ref].full_filename = f,
                                ![dialog.pos_ref].data = f])
    /\ dialog' = NoDialog
    /\ UNCHANGED <<page, oms_pos, fed, kept, disk>>

CloseDialog == /\ dialog # NoDialog
               /\ dialog' = NoDialog
               /\ UNCHANGED <<pageVars, kept, request, view, disk>>

-----------------------------------------------------------------------------
(* The view has closed and GotoLink asks for the page.  SendPost takes     *)
(* from_url and goto_params; where create_connect gives up they stay.      *)
Leave == /\ view = "leaving"
         /\ view' = "away"
         /\ goto_url' = NULL
         /\ submits' = submits + 1
         /\ \E made \in Connections :
               /\ from_url' = (from_url /\ ~made)
               /\ goto_params' = IF made THEN NULL ELSE goto_params
         /\ UNCHANGED <<pageVars, kept, dialog, filesize, upload, disk>>

(* The page comes from the cache again, with the entries of its slot.      *)
Return == /\ view = "away" /\ submits < MaxSubmits
          /\ view' = "shown"
          /\ refs' = <<>> /\ oms_pos' = 0 /\ fed' = 0
          /\ UNCHANGED <<page, kept, dialog, request, disk>>

(* external: another program writes or removes a file. *)
DiskChanges(f) == /\ dialog = NoDialog /\ view = "shown"
                  /\ \E n \in FileSizes : disk' = [disk EXCEPT ![f] = n]
                  /\ UNCHANGED <<pageVars, kept, dialog, request, view>>

Next ==
    \/ Arrive \/ CloseDialog \/ Leave \/ Return
    \/ \E k \in 1..Len(refs) :
          \/ EnterLink(k) \/ EnterScript(k) \/ EnterFileSelect(k)
          \/ EnterRadio(k) \/ EnterCheckBox(k) \/ EnterButton(k)
          \/ EnterField(k) \/ EnterList(k)
    \/ \E t \in Texts, green \in BOOLEAN : InputOk(t, green)
    \/ \E i \in 1..Len(page) : MarkItem(i) \/ TakeItem(i)
    \/ \E f \in Files : TakeFile(f) \/ DiskChanges(f)

Spec == Init /\ [][Next]_vars
-----------------------------------------------------------------------------
(* Properties *)

Kept == [k \in DOMAIN user_text \cup DOMAIN user_list |->
            IF k \in DOMAIN user_text
              THEN [text |-> user_text[k], marked |-> page[k].marked]
              ELSE [text |-> page[k].text, marked |-> user_list[k]]]

Shown == [k \in 1..Len(refs) |->
             [text   |-> IF refs[k].tag \in {"x", "p"} THEN refs[k].data ELSE page[k].text,
              marked |-> CASE refs[k].tag = "s" -> refs[k].value
                           [] refs[k].tag \in {"c", "r"} -> IF refs[k].on THEN {1} ELSE {}
                           [] OTHER -> page[k].marked]]

Request == [to |-> goto_url, from |-> from_url, params |-> goto_params]

AForm == INSTANCE Form WITH
            form    <- IF view = "shown" THEN Shown ELSE <<>>,
            kept    <- Kept,
            request <- IF view = "leaving" THEN Request ELSE NULL

(* The controls, dialogs and the page stack together are the form of       *)
(* module Form: an entry changes its own control, whatever has arrived     *)
(* since the dialog was opened; what is sent is what is shown; what was    *)
(* typed or picked is there again after Back (main.c:733-822,              *)
(* display_utils.c:1173-1214, 1363-1411, collectItemsParams, setUserText). *)
ImplementsForm == AForm!Spec

(* What is written of a request fits in the block that was allocated for   *)
(* it, and each file that can be sent is sent whole, when one file is      *)
(* attached or all of them can be sent (upload.c:28-84 counts each file in *)
(* one pass and reads it in another, with one filesize for all).           *)
CanBeSent(n) == n # NULL /\ n # 0 /\ upload.ram >= RESERVE + CALCLEN(n)

UploadFits ==
    LET ready == {f \in upload.attached : CanBeSent(f[2])}
    IN  Cardinality(upload.attached) < 2 \/ ready = upload.attached
        => /\ upload.written <= upload.counted
           /\ upload.sent = {f[1] : f \in ready}
=============================================================================
