-------------------------------- MODULE Inet --------------------------------
(***************************************************************************)
(* The connection of BalletMini (BalletMini/inet.c) with the life of a     *)
(* view (main.c) that drives it.                                           *)
(*                                                                         *)
(* Two threads share the variables of inet.c without a lock.  The MMI      *)
(* thread handles keys and the messages of mmiq, among them the socket     *)
(* events; the HELPER thread runs, in order, the procedures handed to      *)
(* SUBPROC (helperq).  A handler of the MMI thread is one action; a        *)
(* procedure of HELPER is one action per step another thread can come      *)
(* between (hp is its program counter): inet.c locks the scheduler in the  *)
(* helper's accesses to ws_console and never in the MMI's.                 *)
(*                                                                         *)
(* The firmware (sockets, DNS, queues, timers) and the proxy server are    *)
(* external and modelled from how inet.c uses them.  A socket number is    *)
(* not given out again while an event for it is undelivered.               *)
(***************************************************************************)
EXTENDS Integers, Sequences, SequencesExt, FiniteSets

CONSTANTS NumPages,       \* the pages asked for
          Socks,          \* socket numbers
          SEND_TIMER,     \* the build has the resend timer (not NEWSGOLD)
          Worlds,         \* what a behaviour may meet: the operators below
          NULL

VARIABLE world            \* one of Worlds, for good

HostIsNumeric == world.numeric   \* str2ip(OM_POST_HOST) succeeds: no DNS
GPRS == world.gprs               \* the answers IsGPRSEnabled may give
Faults == world.faults           \* the calls that may fail: see CanFail
FastNetwork == world.fast        \* "connected" may come before connect() returns
ReqLen == world.pieces           \* pieces the request is sent in
Responses == world.responses     \* the answers of the server: see SegKinds
HurriedUser == world.hurried     \* keys are pressed while a request is still set up
MaxStops == world.stops          \* bound: presses of Stop

NoSock == -1

\* What a recv returns: a part of the HTTP header, the end of the header
\* alone or with the first bytes of the body, or bytes of the body.
SegKinds == {"hdr", "hdrEnd", "hdrBody", "body"}

Pages == 1 .. NumPages

ASSUME PagesAssumption == NumPages \in Nat \ {0}
ASSUME SocksAssumption == Socks \subseteq Nat
ASSUME NullAssumption ==
  NULL \notin Pages \cup {0} \cup [req : Pages \cup {0}, left : Nat \ {0}]
ASSUME SendTimerAssumption == SEND_TIMER \in BOOLEAN
ASSUME WorldsAssumption ==
  \A w \in Worlds :
    /\ w.numeric \in BOOLEAN /\ w.fast \in BOOLEAN /\ w.hurried \in BOOLEAN
    /\ w.gprs \subseteq BOOLEAN /\ w.pieces \in Nat \ {0} /\ w.stops \in Nat
    /\ w.responses \subseteq Seq(SegKinds)

VARIABLES
  connect_state, sock, receive_mode, URL, FNCACHE, recvq, sendq, send_tmr,
  DNR_ID, DNR_TRIES,          \* the statics of inet.c
  STOPPED, view, view_url,    \* main.c: view is the page whose view is open
  opened,                     \* the last page a view was opened for
  helperq, hp, seg,           \* HELPER: queue, program counter, recv'd segment
  mmiq,                       \* messages to the MMI thread
  conns,                      \* the firmware's sockets
  dnr,                        \* DNS: last query, those unanswered, host known
  cache, shown, ended,        \* per page: cache file, data parsed, DATA_END seen
  stops, crashed

inetVars == <<connect_state, sock, receive_mode, URL, FNCACHE, recvq, sendq,
              send_tmr, DNR_ID, DNR_TRIES>>
viewVars == <<STOPPED, view, view_url, opened>>
helperVars == <<helperq, hp, seg>>
osVars == <<mmiq, conns, dnr>>
pageVars == <<cache, shown, ended>>
vars == <<inetVars, viewVars, helperVars, osVars, pageVars, stops, crashed>>

-----------------------------------------------------------------------------
(* External: the firmware's queues, sockets and timers.                      *)

Msg(kind, arg) == [kind |-> kind, arg |-> arg]

SUBPROC(proc) == helperq' = Append(helperq, proc)
Post(m) == mmiq' = Append(mmiq, m)

\* HELPER starts the procedure p with its first step.
Starts(p) == hp = "idle" /\ helperq # <<>> /\ Head(helperq) = p /\ ~crashed
Dequeue == helperq' = Tail(helperq)

NoConn == [st |-> "free", req |-> NULL, got |-> 0, full |-> FALSE,
           resp |-> <<>>, sent |-> 0, rd |-> 0]
Alive(s) == s \in Socks /\ conns[s].st \in {"new", "connecting", "open", "remoteClosed"}
SocketEvents == {"CONNECTED", "BUFFER_FREE", "DATA_READ", "REMOTE_CLOSED", "CLOSED"}
Undelivered(s) == \E i \in DOMAIN mmiq : mmiq[i].kind \in SocketEvents /\ mmiq[i].arg = s

\* closesocket: a socket already closed is left alone.
Closed(s) == IF Alive(s) THEN [conns EXCEPT ![s].st = "closing"] ELSE conns

CanFail(call) == call \in Faults

\* The link comes up, or the peer refuses or drops the connection.
NetConnects(s) ==
  /\ conns[s].st = "connecting"
  /\ FastNetwork \/ hp # "connecting"
  /\ conns' = [conns EXCEPT ![s].st = "open"]
  /\ Post(Msg("CONNECTED", s))
  /\ UNCHANGED <<inetVars, viewVars, helperVars, dnr, pageVars, stops, crashed>>

\* Room again in a send buffer that was full.
NetBufferFree(s) ==
  /\ conns[s].st = "open" /\ conns[s].full
  /\ conns' = [conns EXCEPT ![s].full = FALSE]
  /\ Post(Msg("BUFFER_FREE", s))
  /\ UNCHANGED <<inetVars, viewVars, helperVars, dnr, pageVars, stops, crashed>>

ServerAnswers(s) ==
  /\ conns[s].st = "open" /\ conns[s].got >= ReqLen
  /\ \E r \in Responses :
       /\ conns[s].resp \in {<<>>, r}
       /\ conns[s].sent < Len(r)
       /\ conns' = [conns EXCEPT ![s].resp = r, ![s].sent = @ + 1]
  /\ Post(Msg("DATA_READ", s))
  /\ UNCHANGED <<inetVars, viewVars, helperVars, dnr, pageVars, stops, crashed>>

\* "Connection: close": the server closes after its answer, or earlier.
RemoteCloses(s) ==
  /\ conns[s].st \in {"connecting", "open"}
  /\ \/ conns[s].resp # <<>> /\ conns[s].sent = Len(conns[s].resp)
     \/ CanFail("peer")
  /\ conns' = [conns EXCEPT ![s].st = "remoteClosed"]
  /\ Post(Msg("REMOTE_CLOSED", s))
  /\ UNCHANGED <<inetVars, viewVars, helperVars, dnr, pageVars, stops, crashed>>

LocalCloses(s) ==
  /\ conns[s].st = "closing"
  /\ conns' = [conns EXCEPT ![s] = NoConn]
  /\ Post(Msg("CLOSED", s))
  /\ UNCHANGED <<inetVars, viewVars, helperVars, dnr, pageVars, stops, crashed>>

DnsAnswers(q) ==
  /\ q \in dnr.open
  /\ dnr' = [dnr EXCEPT !.open = @ \ {q}, !.known = TRUE]
  /\ Post(Msg("DNR", q))
  /\ UNCHANGED <<inetVars, viewVars, helperVars, conns, pageVars, stops, crashed>>

Network ==
  \/ \E s \in Socks : \/ NetConnects(s) \/ NetBufferFree(s) \/ ServerAnswers(s)
                      \/ RemoteCloses(s) \/ LocalCloses(s)
  \/ \E q \in dnr.open : DnsAnswers(q)

-----------------------------------------------------------------------------
(* The HELPER thread.                                                        *)

InetNeverBusy == FALSE                             \* mutant: no busy check
InetBusy == connect_state # 0

\* StartGetFile for a network page: StartINET up to its SUBPROC.
StartINET ==
  /\ Starts("StartGetFile")
  /\ Dequeue
  /\ \/ /\ InetBusy                                \* LGP_InetBusy
        /\ UNCHANGED <<URL, FNCACHE, STOPPED, hp, cache>>
     \/ /\ ~InetBusy
        /\ FALSE \in GPRS \/ view_url = NULL
        /\ STOPPED' = TRUE
        /\ UNCHANGED <<URL, FNCACHE, hp, cache>>
     \/ /\ ~InetBusy
        /\ TRUE \in GPRS /\ view_url # NULL
        /\ URL' = view_url
        /\ FNCACHE' = view_url
        /\ cache' = [cache EXCEPT ![view_url] = <<>>]
        /\ hp' = "StartINET"
        /\ UNCHANGED STOPPED
  /\ UNCHANGED <<connect_state, sock, receive_mode, recvq, sendq, send_tmr, DNR_ID,
                 DNR_TRIES, view, view_url, opened, seg, osVars, shown, ended, stops, crashed>>

StartINETQueues ==
  /\ hp = "StartINET" /\ ~crashed
  /\ SUBPROC("create_connect")
  /\ hp' = "idle"
  /\ UNCHANGED <<inetVars, viewVars, seg, osVars, pageVars, stops, crashed>>

KeepsReceiveMode == UNCHANGED receive_mode         \* mutant: no reset
AwaitHeader == receive_mode' = FALSE

\* The lookup has no answer yet: a query with a number of its own.
AskDNR ==
  /\ dnr' = [dnr EXCEPT !.last = @ + 1, !.open = @ \cup {dnr.last + 1}]
  /\ DNR_ID' = dnr.last + 1

WaitDNR == hp' = "idle"                             \* LGP_WaitDNR

\* create_connect up to the socket call: the GPRS check and the name lookup.
create_connect ==
  /\ Starts("create_connect")
  /\ Dequeue
  /\ connect_state' = 0
  /\ AwaitHeader
  /\ \/ /\ FALSE \in GPRS
        /\ hp' = "idle"
        /\ UNCHANGED <<DNR_ID, DNR_TRIES, dnr>>
     \/ /\ TRUE \in GPRS /\ HostIsNumeric
        /\ hp' = "socket" /\ DNR_ID' = 0
        /\ UNCHANGED <<DNR_TRIES, dnr>>
     \/ /\ TRUE \in GPRS /\ ~HostIsNumeric /\ dnr.known
        /\ hp' = "socket" /\ DNR_ID' = 0 /\ DNR_TRIES' = 0
        /\ \E known \in BOOLEAN : dnr' = [dnr EXCEPT !.known = known]
     \/ /\ TRUE \in GPRS /\ ~HostIsNumeric /\ ~dnr.known
        /\ AskDNR
        /\ WaitDNR
        /\ UNCHANGED DNR_TRIES
     \/ /\ TRUE \in GPRS /\ ~HostIsNumeric     \* LGP_FaultDNR
        /\ CanFail("dns")
        /\ hp' = "idle" /\ DNR_ID' = 0
        /\ UNCHANGED <<DNR_TRIES, dnr>>
     \/ /\ TRUE \in GPRS /\ ~HostIsNumeric     \* neither an error nor an answer
        /\ CanFail("dns")
        /\ hp' = "idle" /\ DNR_ID' = 0 /\ DNR_TRIES' = DNR_TRIES - 1
        /\ UNCHANGED dnr
  /\ UNCHANGED <<sock, URL, FNCACHE, recvq, sendq, send_tmr, viewVars, seg, mmiq, conns,
                 pageVars, stops, crashed>>

OpenSocket ==
  /\ hp = "socket" /\ ~crashed
  /\ \/ /\ CanFail("socket")                   \* GPRS_OnOff
        /\ sock' = NoSock
        /\ hp' = "idle"
        /\ UNCHANGED conns
     \/ \E s \in Socks :
          /\ conns[s].st = "free" /\ ~Undelivered(s)
          /\ sock' = s
          /\ conns' = [conns EXCEPT ![s] = [NoConn EXCEPT !.st = "new"]]
          /\ hp' = "connect"
  /\ UNCHANGED <<connect_state, receive_mode, URL, FNCACHE, recvq, sendq, send_tmr,
                 DNR_ID, DNR_TRIES, viewVars, helperq, seg, mmiq, dnr, pageVars, stops, crashed>>

Connect ==
  /\ hp = "connect" /\ ~crashed
  /\ \/ /\ CanFail("connect")                  \* LGP_ConnectFault
        /\ sock' = NoSock
        /\ conns' = Closed(sock)
        /\ hp' = "idle"
     \/ /\ conns' = [conns EXCEPT ![sock].st = "connecting"]
        /\ hp' = "connecting"
        /\ UNCHANGED sock
  /\ UNCHANGED <<connect_state, receive_mode, URL, FNCACHE, recvq, sendq, send_tmr,
                 DNR_ID, DNR_TRIES, viewVars, helperq, seg, mmiq, dnr, pageVars, stops, crashed>>

ConnectReturns ==
  /\ hp = "connecting" /\ ~crashed
  /\ connect_state' = 1
  /\ hp' = "idle"
  /\ UNCHANGED <<sock, receive_mode, URL, FNCACHE, recvq, sendq, send_tmr, DNR_ID,
                 DNR_TRIES, viewVars, helperq, seg, osVars, pageVars, stops, crashed>>

\* SendPost builds the request from URL; bsend then drops it or queues it.
\* Reading a URL that is NULL is undefined: the program stops, or goes on
\* with what it finds at address 0.
SendPost ==
  /\ Starts("SendPost")
  /\ Dequeue
  /\ IF URL = NULL THEN crashed' \in BOOLEAN ELSE UNCHANGED crashed
  /\ IF connect_state < 2
     THEN /\ UNCHANGED sendq
          /\ hp' = "idle"
     ELSE IF sendq # NULL                      \* behind what is not sent yet
     THEN /\ sendq' = [sendq EXCEPT !.left = @ + ReqLen]
          /\ hp' = "idle"
     ELSE /\ sendq' = [req |-> IF URL = NULL THEN 0 ELSE URL, left |-> ReqLen]
          /\ hp' = "bsend"
  /\ URL' = NULL
  /\ UNCHANGED <<connect_state, sock, receive_mode, FNCACHE, recvq, send_tmr, DNR_ID,
                 DNR_TRIES, viewVars, seg, osVars, pageVars, stops>>

\* bsend(0,0): send what is left of the queue.
ResumeSend ==
  /\ Starts("bsend")
  /\ Dequeue
  /\ hp' = IF connect_state < 2 \/ sendq = NULL THEN "idle" ELSE "bsend"
  /\ UNCHANGED <<inetVars, viewVars, seg, osVars, pageVars, stops, crashed>>

\* One turn of the send loop.  A send takes a piece of the request, and may
\* fill the buffer: then the next would block, or this one was cut short.
bsend ==
  /\ hp = "bsend" /\ ~crashed
  /\ \/ /\ Alive(sock) /\ conns[sock].st = "open" /\ ~conns[sock].full
        /\ \E full \in BOOLEAN :
             conns' = [conns EXCEPT ![sock].req = sendq.req, ![sock].got = @ + 1,
                                    ![sock].full = full]
        /\ IF sendq.left = 1
           THEN sendq' = NULL /\ hp' = "idle" /\ UNCHANGED send_tmr
           ELSE /\ sendq' = [sendq EXCEPT !.left = @ - 1]
                /\ \/ hp' = "bsend" /\ UNCHANGED send_tmr
                   \/ /\ conns'[sock].full                  \* sent less than asked
                      /\ hp' = "idle" /\ send_tmr' = SEND_TIMER
     \/ /\ \/ ~Alive(sock) \/ conns[sock].st # "open" \/ conns[sock].full
           \/ CanFail("send")
        /\ hp' = "idle"                         \* would block, or an error
        /\ UNCHANGED <<conns, sendq, send_tmr>>
  /\ UNCHANGED <<connect_state, sock, receive_mode, URL, FNCACHE, recvq, DNR_ID, DNR_TRIES,
                 viewVars, helperq, seg, mmiq, dnr, pageVars, stops, crashed>>

\* The next piece of the answer that s has not read.
Chunk(s) == LET k == conns[s].rd + 1
            IN  [req |-> conns[s].req, k |-> k, kind |-> conns[s].resp[k]]

HeaderEnds(chunk) == chunk.kind \in {"hdrEnd", "hdrBody"}

\* What follows the first "\r\n\r\n" in the pieces q.
AfterHeader(q) ==
  LET end == SelectInSeq(q, HeaderEnds)
  IN  SubSeq(q, IF q[end].kind = "hdrBody" THEN end ELSE end + 1, Len(q))

writecache(chunks) ==
  cache' = IF FNCACHE = NULL THEN cache ELSE [cache EXCEPT ![FNCACHE] = @ \o chunks]

\* get_answer up to the LockSched: recv, header, cache file.
get_answer ==
  /\ Starts("get_answer")
  /\ Dequeue
  /\ IF Alive(sock) /\ conns[sock].rd < conns[sock].sent
     THEN LET q == Append(recvq, Chunk(sock))
              inHeader == ~receive_mode /\ SelectInSeq(q, HeaderEnds) = 0
              body == IF receive_mode THEN <<Chunk(sock)>>
                      ELSE IF inHeader THEN <<>> ELSE AfterHeader(q)
          IN  /\ conns' = [conns EXCEPT ![sock].rd = @ + 1]
              /\ receive_mode' = ~inHeader
              /\ recvq' = IF receive_mode THEN recvq ELSE q
              /\ IF body = <<>>
                 THEN UNCHANGED <<seg, hp, cache>>
                 ELSE /\ seg' = body
                      /\ writecache(body)
                      /\ hp' = IF receive_mode THEN "post" ELSE "postFirst"
     ELSE UNCHANGED <<conns, receive_mode, seg, hp, cache, recvq>>
  /\ UNCHANGED <<connect_state, sock, URL, FNCACHE, sendq, send_tmr, DNR_ID, DNR_TRIES,
                 viewVars, mmiq, dnr, shown, ended, stops, crashed>>

\* The locked part: the data goes to the view unless the page is stopped.
\* The header of the answer is dropped with its first data.
PostData ==
  /\ hp \in {"post", "postFirst"} /\ ~crashed
  /\ IF STOPPED THEN UNCHANGED mmiq ELSE Post(Msg("DATA_ARRIVED", seg))
  /\ recvq' = IF hp = "postFirst" THEN <<>> ELSE recvq
  /\ seg' = <<>>
  /\ hp' = "idle"
  /\ UNCHANGED <<connect_state, sock, receive_mode, URL, FNCACHE, sendq, send_tmr, DNR_ID,
                 DNR_TRIES, viewVars, helperq, conns, dnr, pageVars, stops, crashed>>

\* mutant: shutdown without closesocket
end_socketShuts ==
  /\ Starts("end_socket")
  /\ Dequeue
  /\ send_tmr' = FALSE
  /\ UNCHANGED <<connect_state, sock, receive_mode, URL, FNCACHE, recvq, sendq, DNR_ID,
                 DNR_TRIES, viewVars, hp, seg, osVars, pageVars, stops, crashed>>

end_socket ==
  /\ Starts("end_socket")
  /\ Dequeue
  /\ conns' = Closed(sock)
  /\ send_tmr' = FALSE
  /\ UNCHANGED <<connect_state, sock, receive_mode, URL, FNCACHE, recvq, sendq, DNR_ID,
                 DNR_TRIES, viewVars, hp, seg, mmiq, dnr, pageVars, stops, crashed>>

KeepsUrl == FNCACHE' = NULL /\ UNCHANGED URL       \* mutant: URL stays
FreeUrl == FNCACHE' = NULL /\ URL' = NULL

FreeSocket ==
  /\ sock' = NoSock
  /\ connect_state' = 0
  /\ sendq' = NULL /\ recvq' = <<>>
  /\ FreeUrl
  /\ send_tmr' = FALSE
  /\ STOPPED' = TRUE
  /\ UNCHANGED <<receive_mode, DNR_ID, DNR_TRIES, view, view_url, opened, seg, mmiq,
                 dnr, pageVars, stops, crashed>>

free_socket ==
  /\ Starts("free_socket")
  /\ Dequeue
  /\ FreeSocket
  /\ UNCHANGED <<hp, conns>>

\* StopINET: end_socket, then free_socket.
StopINET ==
  /\ Starts("StopINET")
  /\ Dequeue
  /\ conns' = Closed(sock)
  /\ send_tmr' = FALSE
  /\ hp' = "StopINET"
  /\ UNCHANGED <<connect_state, sock, receive_mode, URL, FNCACHE, recvq, sendq, DNR_ID,
                 DNR_TRIES, viewVars, seg, mmiq, dnr, pageVars, stops, crashed>>

StopINETFrees ==
  /\ hp = "StopINET" /\ ~crashed
  /\ FreeSocket
  /\ hp' = "idle"
  /\ UNCHANGED <<helperq, conns>>

GotoLink ==
  /\ Starts("GotoLink")
  /\ Dequeue
  /\ Post(Msg("GOTO_URL", NULL))
  /\ UNCHANGED <<inetVars, viewVars, hp, seg, conns, dnr, pageVars, stops, crashed>>

Helper ==
  \/ StartINET \/ StartINETQueues
  \/ create_connect \/ OpenSocket \/ Connect \/ ConnectReturns
  \/ SendPost \/ ResumeSend \/ bsend
  \/ get_answer \/ PostData
  \/ end_socket \/ free_socket \/ StopINET \/ StopINETFrees
  \/ GotoLink

-----------------------------------------------------------------------------
(* The MMI thread.                                                           *)

Handles(kind) == mmiq # <<>> /\ Head(mmiq).kind = kind /\ ~crashed
Ours == Head(mmiq).arg = sock
Consume == mmiq' = Tail(mmiq)

\* ParseSocketMsg, one action per event.
OnDNR ==
  /\ Handles("DNR")
  /\ Consume
  /\ IF Head(mmiq).arg = DNR_ID /\ DNR_TRIES # 0
     THEN SUBPROC("create_connect") ELSE UNCHANGED helperq
  /\ UNCHANGED <<inetVars, viewVars, hp, seg, conns, dnr, pageVars, stops, crashed>>

OnConnected ==
  /\ Handles("CONNECTED")
  /\ Consume
  /\ IF Ours /\ connect_state = 1
     THEN connect_state' = 2 /\ SUBPROC("SendPost")
     ELSE UNCHANGED <<connect_state, helperq>>
  /\ UNCHANGED <<sock, receive_mode, URL, FNCACHE, recvq, sendq, send_tmr, DNR_ID, DNR_TRIES,
                 viewVars, hp, seg, conns, dnr, pageVars, stops, crashed>>

\* mutant: the state counts the events
OnDataReadCounts ==
  /\ Handles("DATA_READ")
  /\ Consume
  /\ IF Ours /\ connect_state >= 2
     THEN connect_state' = connect_state + 1 /\ SUBPROC("get_answer")
     ELSE UNCHANGED <<connect_state, helperq>>
  /\ UNCHANGED <<sock, receive_mode, URL, FNCACHE, recvq, sendq, send_tmr, DNR_ID, DNR_TRIES,
                 viewVars, hp, seg, conns, dnr, pageVars, stops, crashed>>

OnDataRead ==
  /\ Handles("DATA_READ")
  /\ Consume
  /\ IF Ours /\ connect_state >= 2
     THEN connect_state' = 3 /\ SUBPROC("get_answer")
     ELSE UNCHANGED <<connect_state, helperq>>
  /\ UNCHANGED <<sock, receive_mode, URL, FNCACHE, recvq, sendq, send_tmr, DNR_ID, DNR_TRIES,
                 viewVars, hp, seg, conns, dnr, pageVars, stops, crashed>>

OnBufferFree ==
  /\ Handles("BUFFER_FREE")
  /\ Consume
  /\ IF Ours THEN SUBPROC("bsend") ELSE UNCHANGED helperq
  /\ UNCHANGED <<inetVars, viewVars, hp, seg, conns, dnr, pageVars, stops, crashed>>

\* mutant: the first close ends the page at once
OnClosedEndsFirst ==
  /\ Handles("REMOTE_CLOSED") \/ Handles("CLOSED")
  /\ IF Ours /\ connect_state # 0
     THEN /\ connect_state' = 0
          /\ SUBPROC("free_socket")
          /\ mmiq' = Append(Tail(mmiq), Msg("DATA_END", NULL))
     ELSE Consume /\ UNCHANGED <<connect_state, helperq>>
  /\ UNCHANGED <<sock, receive_mode, URL, FNCACHE, recvq, sendq, send_tmr, DNR_ID, DNR_TRIES,
                 viewVars, hp, seg, conns, dnr, pageVars, stops, crashed>>

\* ENIP_SOCK_CLOSED_ALL: the first close shuts our end, the second frees
\* the connection and tells the view that the page is complete.
OnClosed ==
  /\ Handles("REMOTE_CLOSED") \/ Handles("CLOSED")
  /\ CASE Ours /\ connect_state = -1 ->
            /\ connect_state' = 0
            /\ SUBPROC("free_socket")
            /\ mmiq' = Append(Tail(mmiq), Msg("DATA_END", NULL))
       [] Ours /\ connect_state > 0 ->
            /\ connect_state' = -1
            /\ SUBPROC("end_socket")
            /\ Consume
       [] OTHER -> Consume /\ UNCHANGED <<connect_state, helperq>>
  /\ UNCHANGED <<sock, receive_mode, URL, FNCACHE, recvq, sendq, send_tmr, DNR_ID, DNR_TRIES,
                 viewVars, hp, seg, conns, dnr, pageVars, stops, crashed>>

\* IPC_DATA_ARRIVED and IPC_DATA_END: dropped when no view is open.
OnDataArrived ==
  /\ Handles("DATA_ARRIVED")
  /\ Consume
  /\ shown' = IF view = 0 THEN shown ELSE [shown EXCEPT ![view] = @ \o Head(mmiq).arg]
  /\ UNCHANGED <<inetVars, viewVars, helperVars, conns, dnr, cache, ended, stops, crashed>>

OnDataEnd ==
  /\ Handles("DATA_END")
  /\ Consume
  /\ ended' = IF view = 0 THEN ended ELSE [ended EXCEPT ![view] = TRUE]
  /\ UNCHANGED <<inetVars, viewVars, helperVars, conns, dnr, cache, shown, stops, crashed>>

\* IPC_GOTO_URL: view_url, CreateViewGUI and method1 of the new view.
OnGotoUrl ==
  /\ Handles("GOTO_URL")
  /\ Consume
  /\ opened' = opened + 1
  /\ view' = opened'
  /\ view_url' = opened'
  /\ STOPPED' = FALSE
  /\ SUBPROC("StartGetFile")
  /\ UNCHANGED <<inetVars, hp, seg, conns, dnr, pageVars, stops, crashed>>

\* MSG_GUI_DESTROYED with a link to follow.
OnGuiDestroyed ==
  /\ Handles("GUI_DESTROYED")
  /\ Consume
  /\ SUBPROC("GotoLink")
  /\ UNCHANGED <<inetVars, viewVars, hp, seg, conns, dnr, pageVars, stops, crashed>>

\* A page was asked for and its request has not been built yet.
SettingUp ==
  \/ hp \in {"StartINET", "socket", "connect", "connecting"}
  \/ connect_state = 1
  \/ dnr.open # {} \/ \E i \in DOMAIN mmiq : mmiq[i].kind = "DNR"
  \/ \E i \in DOMAIN helperq : helperq[i] \in {"StartGetFile", "create_connect", "SendPost"}

MayPress == view # 0 /\ (HurriedUser \/ ~SettingUp)

\* mutant: method2 without StopINET
LeaveConnected ==
  /\ MayPress /\ opened + 1 \in Pages /\ ~crashed
  /\ STOPPED' = TRUE
  /\ view' = 0
  /\ view_url' = NULL
  /\ Post(Msg("GUI_DESTROYED", NULL))
  /\ UNCHANGED <<inetVars, opened, helperVars, conns, dnr, pageVars, stops, crashed>>

\* The user goes to another page: method2 of the view.
Leave ==
  /\ MayPress /\ opened + 1 \in Pages /\ ~crashed
  /\ STOPPED' = TRUE
  /\ SUBPROC("StopINET")
  /\ view' = 0
  /\ view_url' = NULL
  /\ Post(Msg("GUI_DESTROYED", NULL))
  /\ UNCHANGED <<inetVars, opened, hp, seg, conns, dnr, pageVars, stops, crashed>>

\* The Stop key (cfgKeyBack while the page loads).
PressStop ==
  /\ MayPress /\ ~STOPPED /\ stops < MaxStops /\ ~crashed
  /\ stops' = stops + 1
  /\ SUBPROC("StopINET")
  /\ UNCHANGED <<inetVars, viewVars, hp, seg, osVars, pageVars, crashed>>

\* The resend timer expires.
resend ==
  /\ send_tmr /\ ~crashed
  /\ send_tmr' = FALSE
  /\ SUBPROC("bsend")
  /\ UNCHANGED <<connect_state, sock, receive_mode, URL, FNCACHE, recvq, sendq, DNR_ID,
                 DNR_TRIES, viewVars, hp, seg, osVars, pageVars, stops, crashed>>

Mmi ==
  \/ OnDNR \/ OnConnected \/ OnDataRead \/ OnBufferFree \/ OnClosed
  \/ OnDataArrived \/ OnDataEnd \/ OnGotoUrl \/ OnGuiDestroyed
  \/ resend

User == Leave \/ PressStop

-----------------------------------------------------------------------------
\* maincsm_oncreate has opened the view of the first page.
Init ==
  /\ world \in Worlds
  /\ connect_state = 0 /\ sock = NoSock /\ receive_mode = FALSE
  /\ URL = NULL /\ FNCACHE = NULL /\ recvq = <<>> /\ sendq = NULL /\ send_tmr = FALSE
  /\ DNR_ID = 0 /\ DNR_TRIES = 3
  /\ STOPPED = FALSE /\ view = 1 /\ view_url = 1 /\ opened = 1
  /\ helperq = <<"StartGetFile">> /\ hp = "idle" /\ seg = <<>>
  /\ mmiq = <<>> /\ conns = [s \in Socks |-> NoConn]
  /\ \E known \in BOOLEAN : dnr = [last |-> 0, open |-> {}, known |-> known]
  /\ cache = [p \in Pages |-> <<>>]
  /\ shown = [p \in Pages |-> <<>>]
  /\ ended = [p \in Pages |-> FALSE]
  /\ stops = 0 /\ crashed = FALSE

Next == UNCHANGED world /\ (Helper \/ Mmi \/ User \/ Network)

Spec == Init /\ [][Next]_<<vars, world>>

\* Both threads are scheduled, and the network does what it has begun.
FairSpec == Spec /\ WF_vars(Helper) /\ WF_vars(Mmi) /\ WF_vars(Network)
-----------------------------------------------------------------------------
(* Properties.                                                               *)

Chunks == [req : Pages \cup {0}, k : Nat \ {0}, kind : SegKinds]
Procs == {"StartGetFile", "create_connect", "SendPost", "bsend", "get_answer",
          "end_socket", "free_socket", "StopINET", "GotoLink"}

\* Every variable keeps to its type: connect_state to its five values, the
\* queues to the procedures and the pieces the code puts there.
TypeOK ==
  /\ connect_state \in -1 .. 3 /\ sock \in Socks \cup {NoSock}
  /\ receive_mode \in BOOLEAN /\ STOPPED \in BOOLEAN /\ send_tmr \in BOOLEAN
  /\ {URL, FNCACHE, view_url} \subseteq Pages \cup {NULL}
  /\ view \in Pages \cup {0} /\ opened \in Pages
  /\ sendq \in [req : Pages \cup {0}, left : Nat \ {0}] \cup {NULL}
  /\ helperq \in Seq(Procs)
  /\ seg \in Seq(Chunks) /\ recvq \in Seq(Chunks)
  /\ \A p \in Pages : cache[p] \in Seq(Chunks) /\ shown[p] \in Seq(Chunks)
  /\ \A i \in DOMAIN mmiq :
       mmiq[i].kind = "DATA_ARRIVED" => mmiq[i].arg \in Seq(Chunks)

Contiguous(cs) ==
  \A i \in 1 .. Len(cs) - 1 : cs[i + 1].req = cs[i].req /\ cs[i + 1].k = cs[i].k + 1

\* What a page shows and what its cache file holds are pieces of one answer,
\* in the order they were sent, none missing between them and none twice:
\* whatever the user stops, the network loses and the threads interleave,
\* get_answer and the queues never tear an answer.
InOrder == \A p \in Pages : Contiguous(shown[p]) /\ Contiguous(cache[p])

\* A page never shows, and its cache file never holds, the answer to the
\* request of another page, although both threads share one sock, one
\* FNCACHE and one STOPPED.  (A request built without a URL is number 0.)
Isolation ==
  \A p \in Pages :
    /\ \A i \in DOMAIN shown[p] : shown[p][i].req \in {p, 0}
    /\ \A i \in DOMAIN cache[p] : cache[p][i].req = p

\* The body of the answer resp, as the pieces get_answer should pass on.
BodyOf(req, resp) ==
  AfterHeader([i \in DOMAIN resp |-> [req |-> req, k |-> i, kind |-> resp[i]]])

\* Going back shows at least as much: every byte a page shows is in its cache
\* file (writecache comes before the message to the view).  DATA_END means the
\* page is complete: when the view is told so and nobody pressed Stop, the cache
\* file holds the whole body of an answer to this page.  The two closes OnClosed
\* waits for leave get_answer the time; a user in a hurry does not.
CacheComplete ==
  ~HurriedUser /\ "peer" \notin Faults =>
    \A p \in Pages :
      /\ shown[p] # <<>> => IsPrefix(shown[p], cache[p])
      /\ ended[p] /\ stops = 0 => \E r \in Responses : cache[p] = BodyOf(p, r)

\* inet.c has one variable for its socket: it never has two of them alive,
\* the first of which nobody could close.
OneSocket == \A s, t \in Socks : Alive(s) /\ Alive(t) => s = t

\* StartINET never overwrites (and leaks) the URL or the cache file name of an
\* earlier page: it assigns them only after a StopINET or free_socket.  And
\* SendPost has a URL to build the request from (inet.c:547: the connection is
\* established, we send the packet; strlen(URL) at inet.c:360), unless a key was
\* pressed while the connection was set up.
UrlHeld ==
  /\ Starts("StartGetFile") => URL = NULL /\ FNCACHE = NULL
  /\ ~HurriedUser /\ Starts("SendPost") => URL # NULL

\* After DATA_END nothing is added to the page or to its cache file.
EndIsLast ==
  [][\A p \in Pages : ended[p] => shown'[p] = shown[p] /\ cache'[p] = cache[p]]_vars

\* A page that was opened does not hang: DATA_END comes, unless the user
\* stops it or leaves.  (inet.c:95, "we wait for the DNR", counts on it.)
OpenedPageEnds == \A p \in Pages : view = p ~> ended[p] \/ view # p \/ stops > 0
=============================================================================
