---------------------------- MODULE BookmarkStore ----------------------------
(* What the bookmark menus promise of the folder of bookmarks: a request that *)
(* is done adds, changes, moves or removes the one entry it names and nothing *)
(* else; one that failed spoils no more than that entry; and no two entries   *)
(* ever have one path.  It is the abstract specification Bookmarks            *)
(* implements.                                                                *)
EXTENDS Naturals, FiniteSets

CONSTANT PathOf(_)       \* the path of an entry: two entries never share one

VARIABLES store,         \* the entries: records with dir, ext, link, meant, name
          asked,         \* the request of the dialog, or "none"
          entry,         \* the entry it is about
          answer         \* of the last step: "done", "failed", "none"

vars == <<store, asked, entry, answer>>

Inside(f) == {n \in store : n.dir = PathOf(f)[2]}
Free(n, others) == \A o \in others : PathOf(o) # PathOf(n)
Rest == {o \in store : PathOf(o) # PathOf(entry)}

Init == store = {} /\ asked = "none" /\ answer = "none"

Add(n) == Free(n, store) /\ store' = store \cup {n}

\* The entry is written anew, perhaps under another name.
Edit(n) ==
  /\ n.dir = entry.dir /\ n.ext = entry.ext
  /\ Free(n, Rest)
  /\ store' = Rest \cup {n}

\* A folder moves with all it holds; a file keeps its contents.
Move(o, n) ==
  /\ n.dir = o.dir /\ n.link = o.link /\ n.meant = o.meant
  /\ Free(n, store \ {o})
  /\ store' = {IF x = o THEN n
               ELSE IF o.ext = "dir" /\ x \in Inside(o) THEN [x EXCEPT !.dir = PathOf(n)[2]]
               ELSE x : x \in store}

\* Only an empty folder can go.
Remove(o) ==
  /\ o.ext = "dir" => Inside(o) = {}
  /\ store' = store \ {o}

\* Another program.
Outside ==
  /\ UNCHANGED <<asked, entry>>
  /\ \/ \E n \in store' : Add(n)
     \/ \E o \in store : Remove(o)

Done ==
  \/ /\ asked = "CreateBookmark"
     /\ \E n \in store' : n.ext = "url" /\ Add(n)
  \/ asked = "CreateFolder" /\ \E n \in store' : n.ext = "dir" /\ Add(n)
  \/ asked = "EditBookmark" /\ \E n \in store' : Edit(n)
  \/ /\ asked = "RenameFolder"
     /\ \E o \in store, n \in store' : PathOf(o) = PathOf(entry) /\ Move(o, n)
  \/ asked = "none" /\ \E o \in store : PathOf(o) = PathOf(entry) /\ Remove(o)

\* What a file call that fails may spoil: the entry that was edited, and the new
\* one, which may be empty or lie over the old.
Failed ==
  \/ store' = store
  \/ asked \in {"CreateBookmark", "EditBookmark"} /\ \E n \in store' : n.ext = "url" /\ Add(n)
  \/ asked = "EditBookmark" /\ (store' = Rest \/ \E n \in store' : Edit(n))

Next ==
  \/ answer' = "none" /\ (store' = store \/ Outside)
  \/ answer' = "done" /\ Done
  \/ answer' = "failed" /\ Failed

Spec == Init /\ [][Next]_vars
=============================================================================
