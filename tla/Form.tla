-------------------------------- MODULE Form --------------------------------
(***************************************************************************)
(* What a form of a page promises its user.  Each control of the page has  *)
(* one value; an entry changes the control it was made in (and, for a      *)
(* radio button, takes the mark from the others of its group); a request   *)
(* carries the values that are shown; and what was typed or picked from a  *)
(* list is there again when the user comes back to the page.               *)
(***************************************************************************)
EXTENDS Naturals, Sequences, FiniteSets, SequencesExt

CONSTANTS
    Pages,      \* the pages: sequences of controls, as the server wrote them
    Texts,      \* what a user types
    Files,      \* what a user attaches
    NULL

VARIABLES
    page,       \* the page on the screen
    form,       \* the values of the controls that have arrived
    kept,       \* the entries the browser remembers for the page
    request     \* the request being made, NULL when there is none

vars == <<page, form, kept, request>>

(* A control is a text or a choice: what it says and what is marked of it. *)
Value(text, marked) == [text |-> text, marked |-> marked]

Initial(k) == IF k \in DOMAIN kept THEN kept[k] ELSE Value(page[k].text, page[k].marked)

Group(k) == {j \in 1..Len(form) : page[j].tag = "r" /\ page[j].name = page[k].name}

(* What control k contributes when control p is the one that was pressed. *)
Carries(f, k, p) ==
    LET item(v)   == [name |-> page[k].name, value |-> v]
        chosen(i) == IF i \in f[k].marked THEN <<item(page[k].options[i])>> ELSE <<>>
    IN  CASE page[k].tag \in {"x", "p"} -> <<item(f[k].text)>>
          [] page[k].tag = "s" -> FlattenSeq([i \in 1..Len(page[k].options) |-> chosen(i)])
          [] page[k].tag \in {"c", "r"} /\ f[k].marked # {} -> <<item(page[k].text)>>
          [] page[k].tag \in {"i", "u"} /\ k = p -> <<item(page[k].text)>>
          [] OTHER -> <<>>

Carried(f, p) == FlattenSeq([k \in 1..Len(f) |-> Carries(f, k, p)])

Submitted(f, p) == [to |-> "page", from |-> TRUE, params |-> Carried(f, p)]
Plain           == [to |-> "link", from |-> FALSE, params |-> NULL]
Script(p)       == [to |-> "script", from |-> TRUE, params |-> Carried(form, p)]

-----------------------------------------------------------------------------

Init == page \in Pages /\ form = <<>> /\ kept = <<>> /\ request = NULL

Grow == /\ request = NULL
        /\ Len(form) < Len(page)
        /\ form' = Append(form, Initial(Len(form) + 1))
        /\ UNCHANGED <<page, kept, request>>

(* An entry made in control k turns the form into f; it may send the form, *)
(* and with that leaves the page.                                          *)
Enter(f, k) == \/ form' = f /\ request' = NULL
               \/ form' = <<>> /\ request' = Submitted(f, k)

Remember(k, v) == kept' = [j \in DOMAIN kept \cup {k} |-> IF j = k THEN v ELSE kept[j]]

Type(k) == /\ page[k].tag \in {"x", "p"}
           /\ \E t \in Texts : /\ Enter([form EXCEPT ![k].text = t], k)
                               /\ Remember(k, Value(t, page[k].marked))

Pick(k) == /\ page[k].tag = "s" /\ ~page[k].multiselect
           /\ \E o \in DOMAIN page[k].options :
                 /\ Enter([form EXCEPT ![k].marked = {o}], k)
                 /\ Remember(k, Value(page[k].text, {o}))

Mark(k) == /\ page[k].tag = "s" /\ page[k].multiselect
           /\ \E o \in DOMAIN page[k].options :
                 form' = [form EXCEPT ![k].marked = (@ \ {o}) \cup ({o} \ @)]
           /\ UNCHANGED <<request, kept>>

Tick(k) == /\ page[k].tag = "c"
           /\ Enter([form EXCEPT ![k].marked = {1} \ @], k)
           /\ UNCHANGED kept

Choose(k) == /\ page[k].tag = "r"
             /\ Enter([j \in 1..Len(form) |->
                          IF j = k THEN [form[j] EXCEPT !.marked = {1}]
                          ELSE IF j \in Group(k) THEN [form[j] EXCEPT !.marked = {}]
                          ELSE form[j]], k)
             /\ UNCHANGED kept

(* A field a file was attached to shows the name of the file. *)
Attach(k) == /\ page[k].tag \in {"x", "p"}
             /\ \E f \in Files : form' = [form EXCEPT ![k].text = f]
             /\ UNCHANGED <<request, kept>>

Press(k) == /\ page[k].tag \in {"i", "u"}
            /\ form' = <<>> /\ request' = Submitted(form, k)
            /\ UNCHANGED kept

(* A link is followed; one to a script takes the form along. *)
Follow(k) == /\ page[k].tag = "L"
             /\ form' = <<>>
             /\ request' = IF page[k].link = "script" THEN Script(k) ELSE Plain
             /\ UNCHANGED kept

Entry(k) == /\ request = NULL
            /\ \/ Type(k) \/ Pick(k) \/ Mark(k) \/ Tick(k)
               \/ Choose(k) \/ Attach(k) \/ Press(k) \/ Follow(k)
            /\ UNCHANGED page

Sent == request' = NULL /\ UNCHANGED <<page, form, kept>>

Next == Grow \/ Sent \/ \E k \in 1..Len(form) : Entry(k)

Spec == Init /\ [][Next]_vars
=============================================================================
