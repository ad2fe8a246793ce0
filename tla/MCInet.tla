------------------------------ MODULE MCInet ------------------------------
(* The connection with two pages, two sockets and the worlds each run asks     *)
(* about.                                                                      *)
EXTENDS Inet

MCSocks == {0, 1}
MCOneSock == {0}
Short == {<<"hdrBody", "body">>}
Long == {<<"hdr", "hdrEnd", "body">>}

\* Keys at any time, and every call fails.
Hurried == [numeric |-> TRUE, gprs |-> BOOLEAN, fast |-> TRUE, pieces |-> 2, hurried |-> TRUE,
            faults |-> {"dns", "socket", "connect", "peer", "send"}, responses |-> Short,
            stops |-> 1]
\* Keys while a page loads or has ended, and a name lookup that fails.
Patient == [numeric |-> FALSE, gprs |-> {TRUE}, fast |-> FALSE, pieces |-> 1, hurried |-> FALSE,
            faults |-> {"dns"}, responses |-> Long, stops |-> 1]
MCWorlds == {Hurried, Patient}

\* Nothing fails and nobody is in a hurry, without and with the name lookup.
Calm == [numeric |-> TRUE, gprs |-> {TRUE}, fast |-> FALSE, pieces |-> 1, hurried |-> FALSE,
         faults |-> {}, responses |-> Short, stops |-> 0]
MCCalm == {Calm}
MCNamed == {[Calm EXCEPT !.numeric = FALSE]}
=============================================================================
