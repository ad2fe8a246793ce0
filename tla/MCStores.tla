------------------------------ MODULE MCStores ------------------------------
(* BalletMini's stores on small instances: the bookmarks, the address history *)
(* and the conversions of the texts both keep.  They share nothing, and each   *)
(* behaviour is about the one chosen at the start.                             *)
EXTENDS Bookmarks

CONSTANTS UrlChars, TypedChars, MaxLen,     \* the texts: their characters, their length
          Entries, Depths

ASSUME DepthsAssumption == Depths \subseteq Nat

\* The bytes of an address; Latin characters and Russian letters.
ASSUME CharsAssumption ==
  /\ UrlChars \subseteq 1 .. 255
  /\ TypedChars \subseteq (1 .. 127) \cup (1040 .. 1103) \cup {1025, 1105}

MCLinks == {Absent}                         \* the link field of an empty file
MCEscapedLinks == {<<65, 37, 50, 66>>}      \* "A%2B"

VARIABLES chosen,
          file, HISTORY_DEPTH, history, depth, selected,
          url,      \* an address as it may stand in a file or a dialog
          typed     \* a text the user types, in the phone's characters

History == INSTANCE UrlHistory WITH goto_url <- selected

historyVars == <<file, HISTORY_DEPTH, history, depth, selected>>
textVars == <<url, typed>>

MCInit ==
  /\ chosen \in {"bookmarks", "history", "address", "typing"}
  /\ Init /\ History!Init
  /\ chosen # "history" => HISTORY_DEPTH = Max(Depths)
  /\ url = <<>> /\ typed = <<>>

GrowText(text, chars) == Len(text) < MaxLen /\ \E c \in chars : text' = Append(text, c)

MCNext ==
  /\ UNCHANGED chosen
  /\ CASE chosen = "bookmarks" -> BoundedNext /\ UNCHANGED <<historyVars, textVars>>
       [] chosen = "history" -> History!Next /\ UNCHANGED <<vars, textVars>>
       [] chosen = "address" -> GrowText(url, UrlChars) /\ UNCHANGED <<vars, historyVars, typed>>
       [] OTHER -> GrowText(typed, TypedChars) /\ UNCHANGED <<vars, historyVars, url>>

MCSpec == MCInit /\ [][MCNext]_<<chosen, vars, historyVars, textVars>>

-----------------------------------------------------------------------------
\* UTF-8 of a character up to 0x7FF.
Utf8(c) == IF c < 128 THEN <<c>> ELSE <<192 + c \div 64, 128 + (c % 64)>>

Utf8Of(s) == Walk(s, [i \in DOMAIN s |-> Utf8(s[i])], [i \in DOMAIN s |-> 1])

\* Writing a bookmark again changes nothing more, and the escapes it adds do not
\* change what the address decodes to, whatever "%" the user typed by hand
\* ("This function is stable", url_utils.c:261).
ReencodeKeeps ==
  LET once == URL_reencode_escapes(url)
  IN /\ URL_reencode_escapes(once) = once
     /\ URL_unescape(once) = URL_unescape(url)

\* The server reads from an escaped query exactly the letters typed, Russian ones
\* included, and the escapes fit the memory ToWeb counted for them; a title in
\* the same letters is shown as the server sent it.
TypedArrives ==
  LET bytes == Utf8Of(typed)
      narrow == [i \in DOMAIN typed |-> char16to8(typed[i])]
      web == ToWeb(narrow, TRUE, FALSE)
      shown == LET t == utf82win(bytes) IN [i \in DOMAIN t |-> char8to16(t[i])]
  IN /\ URL_unescape(web) = bytes
     /\ Len(web) <= Allocated(narrow, TRUE, FALSE)
     /\ (\A i \in DOMAIN typed : typed[i] \notin {1025, 1105}) => shown = typed

\* UrlHistory implements the recent list, whatever is asked of it and when
\* (AddURLToHistory, history.c:96-192).
HistoryIsRecent == History!HistoryIsRecent
=============================================================================
