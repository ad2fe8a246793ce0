------------------------------ MODULE MCForms -------------------------------
(* Three forms: of texts and files, of lists and boxes, of controls that    *)
(* send the form at once.                                                   *)
EXTENDS Forms

Control(tag, name, text, marked, options, several, stays) ==
    [tag |-> tag, name |-> name, text |-> text, marked |-> marked, options |-> options,
     places |-> [i \in DOMAIN options |-> 5 + i], multiselect |-> several, no_upload |-> stays, link |-> "no"]

Text(tag, name, stays)         == Control(tag, name, "old", {}, <<>>, FALSE, stays)
Box(tag, name, v, on, stays)   == Control(tag, name, v, IF on THEN {1} ELSE {}, <<>>, FALSE, stays)
List(name, marked, several, stays) ==
    Control("s", name, "", marked, <<"one", "two">>, several, stays)
Button(tag, name)              == Control(tag, name, "go", {}, <<>>, FALSE, FALSE)
Link(link)                     == [Text("L", "link", TRUE) EXCEPT !.link = link]

Upload  == <<Text("x", "a", TRUE), Link("fileselect"),
             Text("x", "b", TRUE), Link("fileselect"), Button("i", "ok")>>
Options == <<List("a", {1}, FALSE, TRUE), List("b", {2}, TRUE, TRUE),
             Box("c", "c", "yes", TRUE, TRUE), Box("r", "g", "one", TRUE, TRUE),
             Box("r", "g", "two", FALSE, TRUE), Box("r", "h", "one", FALSE, TRUE),
             Link("plain"), Link("script")>>
Direct  == <<Text("p", "a", FALSE), Box("r", "g", "one", FALSE, FALSE),
             Box("r", "g", "two", TRUE, FALSE), Box("c", "c", "yes", FALSE, FALSE),
             List("l", {1}, FALSE, FALSE), Button("u", "x"), Button("u", "y"), Link("plain")>>

MCPages == {Upload, Options, Direct}

MCBytes == [s \in {"a", "b", "c", "g", "h", "l", "x", "y", "link", "ok", "go", "old", "new", "",
                   "one", "two", "yes", "file=", "f"} |->
               CASE s = "" -> 0 [] s = "file=" -> 5 [] s \in {"old", "new", "one", "two", "yes"} -> 3
                 [] OTHER -> 1]
MCFileSizes == {NULL, 0, 1, 8}
=============================================================================
