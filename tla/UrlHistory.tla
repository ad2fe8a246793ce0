----------------------------- MODULE UrlHistory -----------------------------
(* BalletMini's history of addresses (history.c) and its menu (mainmenu.c):  *)
(* a text file of lines "address|title", rewritten whole at each title of a  *)
(* page, and a menu that works on a copy of it.  HISTORY_DEPTH is a setting  *)
(* of the program: a reconfiguration changes it between two uses.            *)
EXTENDS Naturals, Sequences, SequencesExt

CONSTANTS Entries,    \* the lines: an address with a title
          Depths      \* the values HISTORY_DEPTH takes

NoLine == "no line"
NoMenu == <<>>

VARIABLES file,           \* history.txt, a sequence of lines
          HISTORY_DEPTH,
          history,        \* the array of the open menu, or NoMenu
          depth,          \* the rows of the open menu
          goto_url        \* the line whose address the menu goes to, or NoLine

vars == <<file, HISTORY_DEPTH, history, depth, goto_url>>

Init ==
  /\ file = <<>>
  /\ HISTORY_DEPTH \in Depths
  /\ history = NoMenu
  /\ depth = 0
  /\ goto_url = NoLine

\* Both readers stop after HISTORY_DEPTH lines; the rest of the array is 0.
ReadLines ==
  SubSeq(file, 1, IF Len(file) < HISTORY_DEPTH THEN Len(file) ELSE HISTORY_DEPTH)

\* Mutant: one swap.
SwapWithFront(lines, i) ==
  [k \in DOMAIN lines |-> IF k = 1 THEN lines[i] ELSE IF k = i THEN lines[1] ELSE lines[k]]

\* The loop of swaps: the line found moves to the front, those before it one down.
MoveToFront(lines, i) ==
  [k \in DOMAIN lines |-> IF k = 1 THEN lines[i]
                          ELSE IF k <= i THEN lines[k - 1] ELSE lines[k]]

\* The lines as they stand after the search for the address.
Searched(lines, url) ==
  IF url \in ToSet(lines)
  THEN MoveToFront(lines, CHOOSE i \in DOMAIN lines :
                            lines[i] = url /\ \A k \in 1 .. i - 1 : lines[k] # url)
  ELSE lines

\* A new line goes in front; the last of a full array is freed.
Inserted(lines, url) ==
  IF HISTORY_DEPTH # 0 /\ (lines = <<>> \/ lines[1] # url)
  THEN <<url>> \o (IF Len(lines) = HISTORY_DEPTH THEN Front(lines) ELSE lines)
  ELSE lines

NewLines(url) == Inserted(Searched(ReadLines, url), url)

\* AddURLToHistory, called by the parser when a page's title has arrived,
\* whatever menu is open.
AddURLToHistory(url) ==
  /\ file' = NewLines(url)
  /\ UNCHANGED <<HISTORY_DEPTH, history, depth, goto_url>>

\* The file was unlinked, and is not created again: the open fails, or the
\* phone goes off.
AddURLLost ==
  /\ file' = <<>>
  /\ UNCHANGED <<HISTORY_DEPTH, history, depth, goto_url>>

CreateHistoryMenu ==
  /\ history = NoMenu
  /\ ReadLines # <<>>                       \* if (!depth) return 0
  /\ history' = ReadLines
  /\ depth' = Len(ReadLines)
  /\ UNCHANGED <<file, HISTORY_DEPTH, goto_url>>

\* Select: the address of the row, up to the bar; the menu closes with 0xFF.
Select(i) ==
  /\ history # NoMenu /\ i \in 1 .. depth
  /\ goto_url' = history[i]
  /\ history' = NoMenu /\ depth' = 0
  /\ UNCHANGED <<file, HISTORY_DEPTH>>

\* Cancel; TI_CMD_DESTROY frees the array.
Cancel ==
  /\ history # NoMenu
  /\ history' = NoMenu /\ depth' = 0
  /\ UNCHANGED <<file, HISTORY_DEPTH, goto_url>>

\* MSG_RECONFIGURE_REQ.  The menu's array keeps the old depth, and is freed by
\* the new one: the model follows what the file and the rows show.
Reconfigure ==
  /\ HISTORY_DEPTH' \in Depths
  /\ UNCHANGED <<file, history, depth, goto_url>>

Next ==
  \/ \E url \in Entries : AddURLToHistory(url)
  \/ AddURLLost
  \/ CreateHistoryMenu
  \/ \E i \in 1 .. depth : Select(i)
  \/ Cancel
  \/ Reconfigure

Spec == Init /\ [][Next]_vars

-----------------------------------------------------------------------------
Recent == INSTANCE RecentList WITH recent <- file, depth <- HISTORY_DEPTH

\* The file is the list of the last addresses: newest first, none twice, at most
\* as many as the settings allow, whatever the order of visits, the changes of
\* the depth and the losses (the swaps, the drop of the last line and the shift
\* of AddURLToHistory, history.c:130-162).
HistoryIsRecent == Recent!Spec
=============================================================================
