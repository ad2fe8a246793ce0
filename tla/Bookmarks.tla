------------------------------ MODULE Bookmarks ------------------------------
(* The bookmark menus of BalletMini (mainmenu.c): the menu that shows one      *)
(* folder, its options, and the dialog that adds and edits.  Entries are       *)
(* files: a folder, NAME.url holding an address, a saved page, or a file       *)
(* without an extension.  The menu's list is read from the disk when the menu  *)
(* opens, when a folder is entered and when the menu gets the focus; options   *)
(* and dialog hold an entry of that list.  Folders are one level deep here.    *)
EXTENDS UrlText, FiniteSets

CONSTANTS Names,        \* numbers from 2 on: 2k and 2k+1 differ in case only
          Links,        \* the addresses the user types, as texts
          Saved,        \* what other programs put there: "oms", pages; "url", empty files
          MaxFiles,     \* bound: entries on the disk
          MaxNames      \* bound: names on the disk at a time

ASSUME NamesAssumption == Names \subseteq Nat \ {0, 1}
ASSUME SavedAssumption == Saved \subseteq {"oms", "url"}

Root == 0
Nocase(name) == name \div 2      \* the disk and strcmp_nocase do not tell them apart

Back == [dir |-> Root, name |-> 0, ext |-> "back", link |-> <<>>, meant |-> <<>>]
Null == [Back EXCEPT !.ext = "null"]

Folder(d, name) == [dir |-> d, name |-> name, ext |-> "dir", link |-> <<>>, meant |-> <<>>]
UrlFile(d, name, link, meant) ==
  [dir |-> d, name |-> name, ext |-> "url", link |-> link, meant |-> meant]

\* A folder and a file without an extension may not share a name.
PathOf(n) == <<n.dir, Nocase(n.name), IF n.ext = "dir" THEN "none" ELSE n.ext>>

VARIABLES disk,                       \* the entries under $bookmarks
          gui,                        \* what is in front: the page, the menu, its
                                      \* options, the dialog
          bookmarks_current_folder,
          bl_top,                     \* the list of the menu, sorted by name
          bl,                         \* the entry options and dialog work on
          edit_mode,
          goto_url,                   \* the entry the browser is sent to, or Null
          answer                      \* ghost: what became of a request in the last step:
                                      \* "done", "failed" if a file call failed, or "none"

vars == <<disk, gui, bookmarks_current_folder, bl_top, bl, edit_mode, goto_url, answer>>

Init ==
  /\ disk = {} /\ gui = "page"
  /\ bookmarks_current_folder = Root /\ bl_top = <<>> /\ bl = Null
  /\ edit_mode = "none" /\ goto_url = "none" /\ answer = "none"

\* Mutants: the menu keeps its list; an edited name is not looked for.
FocusKeepsList ==
  /\ gui' = "menu" /\ bl' = Null /\ edit_mode' = "none"
  /\ UNCHANGED <<bookmarks_current_folder, bl_top>>
ExistsUnlessEdited(n) == edit_mode # "EditBookmark" /\ \E o \in disk : PathOf(o) = PathOf(n)

Exists(n) == \E o \in disk : PathOf(o) = PathOf(n)
Without(n) == {o \in disk : PathOf(o) # PathOf(n)}

\* AddToFList: before the first entry that does not sort before it.
AddToFList(list, n) ==
  LET before == {i \in DOMAIN list : \A k \in 1 .. i : Nocase(list[k].name) < Nocase(n.name)}
  IN InsertAt(list, Cardinality(before) + 1, n)

\* FindFiles: the way back, then the entries in the order the disk gives them.
FindFiles(d) ==
  /\ bookmarks_current_folder' = d
  /\ bl_top' \in {FoldLeft(AddToFList, IF d = Root THEN <<>> ELSE <<Back>>, found) :
                    found \in SetToSeqs({n \in disk' : n.dir = d})}

\* FindBListByN: the rows show the way back first, then folders, then files.
Kind(n) == IF n.ext = "back" THEN 0 ELSE IF n.ext = "dir" THEN 1 ELSE 2

OfKind(k) == FoldLeft(LAMBDA rows, n : IF Kind(n) = k THEN Append(rows, n) ELSE rows, <<>>, bl_top)

Rows == OfKind(0) \o OfKind(1) \o OfKind(2)

\* TI_CMD_FOCUS of the menu: the folder is read again.  Options and dialog are
\* gone, and what they worked on with them.
Focus ==
  /\ gui' = "menu" /\ bl' = Null /\ edit_mode' = "none"
  /\ FindFiles(bookmarks_current_folder)

CreateBookmarksMenu ==
  /\ gui = "page"
  /\ gui' = "menu" /\ goto_url' = "none"
  /\ UNCHANGED <<disk, bl, edit_mode>>
  /\ FindFiles(Root)

Closed == gui' = "page" /\ bl_top' = <<>> /\ bookmarks_current_folder' = Root

\* The key on a row: a folder is entered, a page or an address opened; any
\* other file only closes the menu.
Enter(i) ==
  LET n == Rows[i]
  IN /\ gui = "menu" /\ i \in DOMAIN Rows
     /\ UNCHANGED <<disk, bl, edit_mode>>
     /\ \/ /\ n.ext \in {"back", "dir"}
           /\ FindFiles(IF n.ext = "back" THEN Root ELSE Nocase(n.name))
           /\ UNCHANGED <<gui, goto_url>>
        \/ /\ n.ext \notin {"back", "dir"}
           /\ goto_url' = IF n.ext = "oms" \/ (n.ext = "url" /\ n.link # <<>>)
                          THEN n.ext ELSE goto_url
           /\ Closed

CloseMenu ==
  /\ gui = "menu" /\ Closed
  /\ UNCHANGED <<disk, bl, edit_mode, goto_url>>

\* Options of the row under the cursor; of an empty list, of no entry.
ShowOptions(n) ==
  /\ gui = "menu"
  /\ n \in IF bl_top = <<>> THEN {Null} ELSE ToSet(bl_top)
  /\ gui' = "options" /\ bl' = n
  /\ UNCHANGED <<disk, bookmarks_current_folder, bl_top, edit_mode, goto_url>>

CloseOptions ==
  /\ gui = "options"
  /\ UNCHANGED <<disk, goto_url>>
  /\ Focus

\* The way back can be neither edited nor deleted; without an entry no option is
\* left.  A file that is no bookmark is renamed as a folder is.
ShowDialog(mode) ==
  /\ gui = "options" /\ bl # Null
  /\ CASE mode = "EditBookmark" -> bl.ext = "url"
       [] mode = "RenameFolder" -> bl.ext \in {"dir", "oms"}
       [] mode = "CreateFolder" -> bookmarks_current_folder = Root    \* bound: one level
       [] OTHER -> TRUE
  /\ gui' = "edit" /\ edit_mode' = mode
  /\ UNCHANGED <<disk, bookmarks_current_folder, bl_top, bl, goto_url>>

\* No result of a file call is looked at but that of _rmdir, for a message.
Answered(done) == answer' = IF done THEN "done" ELSE "failed"

\* Delete: a folder only when it is empty; ok is false if the disk fails.
Delete(ok) ==
  LET holds == bl.ext = "dir" /\ \E n \in disk : n.dir = Nocase(bl.name)
      gone == ok /\ Exists(bl) /\ ~holds
  IN /\ gui = "options" /\ bl.ext \notin {"null", "back"}
     /\ disk' = IF gone THEN Without(bl) ELSE disk
     /\ Answered(gone)
     /\ Focus
     /\ UNCHANGED goto_url

\* LGP_Absent, which the address field shows for an empty file.
Absent == <<45>>

\* What the address field shows for the file, and what leaves it as it was.
Shown == IF bl.link = <<>> THEN Absent ELSE URL_unescape(bl.link)

\* OK of the dialog on a folder or a file that is no bookmark: nothing if a
\* folder has the name already; mkdir and fmove fail if a file has it, or if the
\* disk fails.
FolderOk(name, ok) ==
  LET new == IF edit_mode = "CreateFolder" THEN Folder(bookmarks_current_folder, name)
             ELSE [bl EXCEPT !.name = name, !.ext = IF @ = "dir" THEN "dir" ELSE "none"]
      moved(n) == IF PathOf(n) = PathOf(bl) THEN new
                  ELSE IF bl.ext = "dir" /\ n.dir = Nocase(bl.name)
                       THEN [n EXCEPT !.dir = Nocase(name)] ELSE n
      works == ok /\ ~Exists(new) /\ (edit_mode = "CreateFolder" \/ Exists(bl))
  IN /\ gui = "edit" /\ edit_mode \in {"CreateFolder", "RenameFolder"}
     /\ ~\E n \in disk : n.ext = "dir" /\ PathOf(n) = PathOf(new)
     /\ disk' = IF ~works THEN disk
                ELSE IF edit_mode = "CreateFolder" THEN disk \cup {new}
                ELSE {moved(n) : n \in disk}
     /\ Answered(works)
     /\ Focus
     /\ UNCHANGED goto_url

\* A file opened without A_Truncate and written from its start.
Over(text, old) == text \o SubSeq(old, Len(text) + 1, Len(old))

\* OK of the dialog on a bookmark.  The old file goes first, if _unlink can
\* remove it; the new one may fail to open or take nothing of the address, and
\* is the old one still if that has the name and stayed.
BookmarkOk(name, text, removed, stored) ==
  LET edited == edit_mode = "EditBookmark"
      link == URL_reencode_escapes(text)
      meant == IF edited /\ bl.link # <<>> /\ text = Shown THEN bl.meant ELSE link
      new == UrlFile(bookmarks_current_folder, name, <<>>, <<>>)
      left == IF edited /\ removed THEN Without(bl) ELSE disk
      there == {o \in left : PathOf(o) = PathOf(new)}
      opened == IF there = {} THEN {new} ELSE there
      full(o) == [o EXCEPT !.link = Over(link, @),
                           !.meant = IF there = {} THEN meant ELSE Over(link, o.link)]
  IN /\ gui = "edit" /\ edit_mode \in {"CreateBookmark", "EditBookmark"}
     /\ edited \/ removed                          \* there is none to remove
     /\ text # <<>>                                                    \* NO_URL
     /\ ~edited \/ bl.name # name => ~Exists(new)                      \* SAME_FILE
     /\ disk' = CASE stored = "no file" -> left
                  [] stored = "empty" -> left \cup opened
                  [] OTHER -> (left \ there) \cup {full(o) : o \in opened}
     /\ Answered((edited => removed) /\ stored = "whole")
     /\ Focus
     /\ UNCHANGED goto_url

\* Cancel of the dialog: the options have closed under it.
CancelDialog ==
  /\ gui = "edit"
  /\ UNCHANGED <<disk, goto_url>>
  /\ Focus

\* Another program adds (saved pages, empty files) or removes a file while
\* BalletMini is in the background;
\* whatever is in front gets the focus on the way back.
Elsewhere ==
  /\ \/ \E d \in {Root} \cup {Nocase(n.name) : n \in {o \in disk : o.ext = "dir"}},
           name \in Names, ext \in Saved :
          LET n == [UrlFile(d, name, <<>>, <<>>) EXCEPT !.ext = ext]
          IN ~Exists(n) /\ disk' = disk \cup {n}
     \/ \E n \in disk : n.ext # "dir" /\ disk' = disk \ {n}
  /\ IF gui = "menu" THEN Focus
     ELSE UNCHANGED <<gui, bookmarks_current_folder, bl_top, bl, edit_mode>>
  /\ UNCHANGED goto_url

\* The steps that answer no request.
Asking ==
  \/ CreateBookmarksMenu \/ CloseMenu
  \/ gui = "menu" /\ \E i \in DOMAIN Rows : Enter(i)
  \/ gui = "menu" /\ \E n \in {Null} \cup ToSet(bl_top) : ShowOptions(n)
  \/ CloseOptions
  \/ \E mode \in {"EditBookmark", "RenameFolder", "CreateBookmark", "CreateFolder"} :
       ShowDialog(mode)
  \/ CancelDialog
  \/ Elsewhere

Next ==
  \/ Asking /\ answer' = "none"
  \/ \E ok \in BOOLEAN : Delete(ok)
  \/ /\ gui = "edit"
     /\ \E name \in Names :
          \/ \E ok \in BOOLEAN : FolderOk(name, ok)
          \/ \E text \in Links \cup {Shown}, removed \in BOOLEAN,
                stored \in {"no file", "empty", "whole"} : BookmarkOk(name, text, removed, stored)

Within ==
  /\ Cardinality(disk) <= MaxFiles
  /\ Cardinality({n.name : n \in disk}) <= MaxNames

BoundedNext == Next /\ Within'

Spec == Init /\ [][BoundedNext]_vars

-----------------------------------------------------------------------------
Store == INSTANCE BookmarkStore WITH store <- disk, asked <- edit_mode, entry <- bl

\* Each request does to the folder just what was asked, to the entry the menu
\* showed and no other, also when the disk has changed since: an edited bookmark
\* takes the place of the old one, never another's, and a folder keeps what it
\* holds.  Only if a file call fails may the edited bookmark be lost or stay
\* beside the new one, and nothing else is touched then: that is how a change of
\* a bookmark's name makes two of them, the open item ToDo.txt:81, and the only way
\* (edit_bookmark_onkey, mainmenu.c:137-186, and bookmarks_options_delete).
ImplementsStore == Store!Spec

\* The menu in front shows the folder as the disk holds it: each entry on one
\* row, the way back on the first, folders before files and each by name, after
\* any dialog and on the way back from another program.
MenuShowsFolder ==
  gui = "menu" =>
    LET here == {n \in disk : n.dir = bookmarks_current_folder}
        kind(n) == CASE n.ext = "back" -> 0 [] n.ext = "dir" -> 1 [] OTHER -> 2
    IN /\ ToSet(Rows) = here \cup (IF bookmarks_current_folder = Root THEN {} ELSE {Back})
       /\ Len(Rows) = Cardinality(ToSet(Rows))
       /\ \A i, j \in DOMAIN Rows : i < j =>
            \/ kind(Rows[i]) < kind(Rows[j])
            \/ kind(Rows[i]) = kind(Rows[j]) /\ Nocase(Rows[i].name) <= Nocase(Rows[j].name)

\* A bookmark holds the address last typed for it, escaped: a change of its name
\* alone keeps the address, unless the old file could not be removed.
\* URL_unescape on the way into the dialog loses which of the reserved characters
\* were escaped (show_edit_bookmark_menu, mainmenu.c:313-320).
LinksAsMeant == \A n \in disk : n.ext = "url" => n.link = n.meant
=============================================================================
