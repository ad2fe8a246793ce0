---------------------------- MODULE BackForward ----------------------------
(***************************************************************************)
(* What a user expects of a browser's history: a bounded list of visited   *)
(* pages with a cursor.  A new page drops the pages ahead and, when the    *)
(* list is full, the oldest one; going back and forward moves the cursor   *)
(* and shows each page at the position, and with the form, it was left.    *)
(***************************************************************************)
EXTENDS Sequences, Naturals

CONSTANTS MaxPages,    \* how many pages the list holds
          Docs, Lines, Forms,
          NoForm,      \* the form of a page in which nothing was typed
          NoPage       \* what is on screen once the browser is closed

VARIABLES past, cur, future,  \* the list around the cursor
          line,               \* where the page on screen is scrolled to
          running

vars == <<past, cur, future, line, running>>

Entry(d, l, f) == [doc |-> d, line |-> l, form |-> f]

\* The page on screen as it will be found again.
Left == [cur EXCEPT !.line = line]

Init ==
  /\ \E d \in Docs : cur = Entry(d, 0, NoForm)
  /\ past = <<>> /\ future = <<>>
  /\ line = 0
  /\ running = TRUE

Visit ==
  /\ running
  /\ \E d \in Docs : cur' = Entry(d, 0, NoForm)
  /\ past' = IF Len(past) + 1 = MaxPages
             THEN Append(Tail(past), Left)
             ELSE Append(past, Left)
  /\ future' = <<>>
  /\ line' = 0
  /\ UNCHANGED running

Back ==
  /\ running /\ past # <<>>
  /\ cur' = past[Len(past)]
  /\ past' = SubSeq(past, 1, Len(past) - 1)
  /\ future' = <<Left>> \o future
  /\ line' = cur'.line
  /\ UNCHANGED running

Forward ==
  /\ running /\ future # <<>>
  /\ cur' = Head(future)
  /\ past' = Append(past, Left)
  /\ future' = Tail(future)
  /\ line' = cur'.line
  /\ UNCHANGED running

\* The document may have changed on the server; what was typed is gone.
Reload ==
  /\ running
  /\ \E d \in Docs : cur' = Entry(d, 0, NoForm)
  /\ future' = <<>>
  /\ UNCHANGED <<past, line, running>>

Scroll ==
  /\ running
  /\ line' \in Lines
  /\ UNCHANGED <<past, cur, future, running>>

Type ==
  /\ running
  /\ \E f \in Forms : cur' = [cur EXCEPT !.form = f]
  /\ UNCHANGED <<past, future, line, running>>

Quit ==
  /\ running
  /\ running' = FALSE
  /\ past' = <<>> /\ future' = <<>>
  /\ cur' = NoPage
  /\ line' = 0

Next == Visit \/ Back \/ Forward \/ Reload \/ Scroll \/ Type \/ Quit

Spec == Init /\ [][Next]_vars
=============================================================================
