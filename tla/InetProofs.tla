----------------------------- MODULE InetProofs -----------------------------
(***************************************************************************)
(* Proofs about the connection, for every number of pages and sockets and   *)
(* every world.                                                             *)
(***************************************************************************)
EXTENDS Inet, SequenceTheorems, WellFoundedInduction, TLAPS

(***************************************************************************)
(* The inductive invariant.                                                *)
(***************************************************************************)

HelperSteps == {"idle", "StartINET", "socket", "connect", "connecting", "bsend", "post",
                "postFirst", "StopINET"}
States == {"free", "new", "connecting", "open", "remoteClosed", "closing"}
Conns == [st : States, req : Pages \cup {0, NULL}, got : Nat, full : BOOLEAN,
          resp : Seq(SegKinds), sent : Nat, rd : Nat]
\* An answer comes after the request, and is read after it came.
SoundConns ==
  {c \in Conns : /\ c.got > 0 => c.req \in Pages \cup {0}
                 /\ c.sent > 0 => c.got > 0
                 /\ c.rd <= c.sent /\ c.sent <= Len(c.resp)}
Opening == {"GUI_DESTROYED", "GOTO_URL"}
Messages == [kind : SocketEvents, arg : Socks] \cup [kind : {"DNR"}, arg : Nat]
              \cup [kind : {"DATA_ARRIVED"}, arg : Seq(Chunks)]
              \cup [kind : {"DATA_END"} \cup Opening, arg : {NULL}]

InetTypes ==
  /\ connect_state \in -1 .. 3 /\ sock \in Socks \cup {NoSock}
  /\ receive_mode \in BOOLEAN /\ send_tmr \in BOOLEAN
  /\ URL \in Pages \cup {NULL} /\ FNCACHE \in Pages \cup {NULL}
  /\ sendq \in [req : Pages \cup {0}, left : Nat \ {0}] \cup {NULL}
  /\ recvq \in Seq(Chunks) /\ DNR_ID \in Nat /\ DNR_TRIES \in Int
ViewTypes ==
  /\ STOPPED \in BOOLEAN /\ view \in Pages \cup {0} /\ view_url \in Pages \cup {NULL}
  /\ opened \in Pages /\ stops \in Nat /\ crashed \in BOOLEAN
HelperTypes ==
  /\ helperq \in Seq(Procs) /\ hp \in HelperSteps /\ seg \in Seq(Chunks)
  /\ hp = "bsend" => sendq # NULL
  /\ hp \in {"connect", "connecting"} => sock \in Socks
PageTypes ==
  /\ cache \in [Pages -> Seq(Chunks)] /\ shown \in [Pages -> Seq(Chunks)]
  /\ ended \in [Pages -> BOOLEAN]
OsTypes ==
  /\ mmiq \in Seq(Messages)
  /\ dnr \in [last : Nat, open : SUBSET Nat, known : BOOLEAN]
  /\ conns \in [Socks -> SoundConns]

Types == world \in Worlds /\ InetTypes /\ ViewTypes /\ HelperTypes /\ PageTypes /\ OsTypes

\* What is in a queue of procedures: p is there, once, before every r; and an a
\* is there before everything of S.
In(q, p) == \E i \in DOMAIN q : q[i] = p
Once(q, p) == \A i, j \in DOMAIN q : q[i] = p /\ q[j] = p => i = j
Before(q, p, r) == \A i, j \in DOMAIN q : q[i] = p /\ q[j] = r => i < j
First(q, a, S) == \E i \in DOMAIN q : q[i] = a /\ \A j \in DOMAIN q : j < i => q[j] \notin S

\* What is in a queue of messages.
Has(q, K) == \E i \in DOMAIN q : q[i].kind \in K
Single(q, K) == \A i, j \in DOMAIN q : q[i].kind \in K /\ q[j].kind \in K => i = j

Queued(p) == In(helperq, p)
Sent(K) == Has(mmiq, K)

\* While no view is open one is about to be: the request for it is in one place.
OneOpening ==
  /\ view # 0 => ~ Queued("GotoLink") /\ ~ Sent(Opening)
  /\ view = 0 => opened + 1 \in Pages /\ view_url = NULL
  /\ Single(mmiq, Opening) /\ Once(helperq, "GotoLink")
  /\ Queued("GotoLink") => ~ Sent(Opening)

\* One page at a time is loaded, and it is set up before the next view is opened.
OneLoading ==
  /\ Once(helperq, "StartGetFile") /\ Before(helperq, "StartGetFile", "GotoLink")
  /\ Queued("StartGetFile") => ~ Sent({"GOTO_URL"})
  /\ Queued("StartGetFile") \/ Sent({"GOTO_URL"}) => hp # "StartINET"

\* What StartINET assigned is freed before the next page is loaded.
Dirty == URL # NULL \/ FNCACHE # NULL
UrlFreed ==
  Dirty /\ (view = 0 \/ Queued("StartGetFile")) =>
    hp = "StopINET" \/ First(helperq, "StopINET", {"GotoLink", "StartGetFile"})

\* The firmware reports the end of a connection once from each side: q is the
\* queue of messages, c the connections.
Ends == {"REMOTE_CLOSED", "CLOSED"}
Ended == {"remoteClosed", "closing", "free"}
ClosesIn(q, c) ==
  /\ \A i \in DOMAIN q : q[i].kind = "REMOTE_CLOSED" => c[q[i].arg].st \in Ended
  /\ \A i \in DOMAIN q : q[i].kind = "CLOSED" => c[q[i].arg].st = "free"
  /\ \A i, j \in DOMAIN q :
       i < j /\ q[i].kind \in Ends /\ q[j].kind = "REMOTE_CLOSED" => q[i].arg # q[j].arg
ClosesOnce ==
  /\ ClosesIn(mmiq, conns)
  /\ hp = "connect" => conns[sock].st = "new"

\* A lookup cannot be overtaken by the user.
Calm == HostIsNumeric \/ ~HurriedUser

\* Where the one connection that is being made is: with HELPER, with DNS, or
\* in a queue.
Connecting == hp \in {"StartINET", "socket", "connect", "connecting"}
LookingUp == dnr.open # {} \/ Sent({"DNR"})
OneConnecting ==
  /\ Connecting \/ LookingUp \/ Queued("create_connect") => connect_state = 0
  /\ HostIsNumeric => ~ LookingUp
  /\ ~ (Connecting /\ LookingUp)
  /\ Queued("create_connect") => ~ Connecting /\ ~ LookingUp
  /\ Once(helperq, "create_connect") /\ Before(helperq, "create_connect", "StartGetFile")
  /\ \A q, r \in dnr.open : q = r
  /\ Single(mmiq, {"DNR"}) /\ (Sent({"DNR"}) => dnr.open = {})
  /\ LookingUp => ~ Queued("StartGetFile")

\* A message in the queue q: the peer has closed s.
RemoteEnd(q, s) == \E i \in DOMAIN q : q[i].kind = "REMOTE_CLOSED" /\ q[i].arg = s

\* The socket alive is sock, and it is closed before sock is overwritten.
SockHeld ==
  /\ \A s \in Socks :
       Alive(s) => s = sock /\ (connect_state # 0 \/ hp \in {"connect", "connecting"})
  /\ hp = "StopINET" => ~ Alive(sock)
  /\ Queued("free_socket") => connect_state = 0 /\ hp \notin {"socket", "connect", "connecting"}
  /\ Before(helperq, "free_socket", "create_connect")
  /\ connect_state = -1 =>
       /\ sock \in Socks => ~ RemoteEnd(mmiq, sock)
       /\ sock \in Socks => conns[sock].st \notin {"new", "connecting", "open"}

\* For a user who waits, until the request of a page is built.
Awaited == connect_state = 1 \/ Queued("SendPost")
Building == Connecting \/ LookingUp \/ Queued("create_connect") \/ Awaited
UrlAwaits ==
  /\ Building =>
       /\ URL # NULL /\ view # 0 /\ hp # "StopINET"
       /\ ~ Queued("StartGetFile") /\ ~ Queued("StopINET") /\ ~ Queued("free_socket")
  /\ Building /\ ~ Queued("SendPost") => ~ Queued("end_socket")
SendAwaits ==
  /\ connect_state = 1 \/ hp = "connecting" \/ Queued("SendPost") => Alive(sock)
  /\ Queued("SendPost") => connect_state \notin {0, 1}
  /\ Once(helperq, "SendPost") /\ Before(helperq, "SendPost", "end_socket")
\* What stops a page comes before the next is opened and loaded.
StopsFirst ==
  /\ Before(helperq, "end_socket", "StartGetFile")
  /\ Before(helperq, "free_socket", "StartGetFile")
  /\ Before(helperq, "StopINET", "GotoLink")
  /\ Queued("StartGetFile") \/ Sent({"GOTO_URL"}) =>
       sock = NoSock /\ hp # "StopINET" /\ ~ Queued("StopINET")
  /\ Queued("GotoLink") /\ sock # NoSock =>
       hp = "StopINET" \/ First(helperq, "StopINET", {"GotoLink"})
  /\ Sent({"GUI_DESTROYED"}) /\ sock # NoSock => hp = "StopINET" \/ Queued("StopINET")
UrlKept == UrlAwaits /\ SendAwaits /\ StopsFirst

IInv ==
  /\ Types /\ OneOpening /\ OneLoading /\ UrlFreed /\ ClosesOnce
  /\ Calm => OneConnecting /\ SockHeld
  /\ ~ HurriedUser => UrlKept

-----------------------------------------------------------------------------
(***************************************************************************)
(* Queues.                                                                 *)
(***************************************************************************)

\* A queue without its first element.
LEMMA TakenIndices ==
  ASSUME NEW S, NEW q \in Seq(S), q # <<>>
  PROVE  /\ Tail(q) \in Seq(S) /\ Len(q) \in Nat \ {0} /\ Len(Tail(q)) = Len(q) - 1
         /\ DOMAIN q = 1 .. Len(q) /\ DOMAIN Tail(q) = 1 .. Len(q) - 1
         /\ Head(q) = q[1] /\ Head(q) \in S
         /\ \A i \in 1 .. Len(q) - 1 : Tail(q)[i] = q[i + 1]
BY HeadTailProperties, LenProperties

\* A queue with one element more.
LEMMA AddedIndices ==
  ASSUME NEW S, NEW q \in Seq(S), NEW a \in S
  PROVE  /\ Append(q, a) \in Seq(S) /\ Len(q) \in Nat
         /\ DOMAIN q = 1 .. Len(q) /\ DOMAIN Append(q, a) = 1 .. Len(q) + 1
         /\ \A i \in 1 .. Len(q) : Append(q, a)[i] = q[i]
         /\ Append(q, a)[Len(q) + 1] = a
BY AppendProperties, LenProperties

LEMMA Taken ==
  ASSUME NEW S, NEW q \in Seq(S), q # <<>>, NEW p
  PROVE  /\ In(Tail(q), p) => In(q, p)
         /\ In(q, p) /\ p # Head(q) => In(Tail(q), p)
         /\ In(q, Head(q))
         /\ Once(q, p) => Once(Tail(q), p)
         /\ Once(q, Head(q)) => ~ In(Tail(q), Head(q))
         /\ \A r : Before(q, p, r) => Before(Tail(q), p, r)
         /\ Before(q, p, Head(q)) => ~ In(q, p)
         /\ \A R : First(q, p, R) /\ p # Head(q) => First(Tail(q), p, R) /\ Head(q) \notin R
<1> DEFINE t == Tail(q)  n == Len(q)
<1>1. /\ t \in Seq(S) /\ n \in Nat \ {0} /\ DOMAIN q = 1 .. n /\ DOMAIN t = 1 .. n - 1
      /\ Head(q) = q[1] /\ \A i \in 1 .. n - 1 : t[i] = q[i + 1]
  BY TakenIndices
<1> HIDE DEF t, n
<1>2. /\ \A i \in 1 .. n : i # 1 => i - 1 \in 1 .. n - 1 /\ t[i - 1] = q[i]
      /\ \A i \in 1 .. n - 1 : i + 1 \in 1 .. n /\ t[i] = q[i + 1]
  BY <1>1
<1>3. In(t, p) => In(q, p)
  BY <1>1 DEF In
<1>4. In(q, p) /\ p # Head(q) => In(t, p)
  BY <1>1, <1>2 DEF In
<1>5. In(q, Head(q))
  BY <1>1 DEF In
<1>6. Once(q, p) => Once(t, p)
  <2> SUFFICES ASSUME Once(q, p), NEW i \in 1 .. n - 1, NEW j \in 1 .. n - 1,
                      t[i] = p, t[j] = p
               PROVE  i = j
    BY <1>1 DEF Once
  <2>1. i + 1 \in DOMAIN q /\ q[i + 1] = p /\ j + 1 \in DOMAIN q /\ q[j + 1] = p
    BY <1>1, <1>2
  <2>2. i + 1 = j + 1
    BY <2>1 DEF Once
  <2> QED  BY <1>1, <2>2
<1>7. Once(q, Head(q)) => ~ In(t, Head(q))
  BY <1>1 DEF Once, In
<1>8. \A r : Before(q, p, r) => Before(t, p, r)
  <2> SUFFICES ASSUME NEW r, Before(q, p, r), NEW i \in 1 .. n - 1, NEW j \in 1 .. n - 1,
                      t[i] = p, t[j] = r
               PROVE  i < j
    BY <1>1 DEF Before
  <2>1. i + 1 \in DOMAIN q /\ q[i + 1] = p /\ j + 1 \in DOMAIN q /\ q[j + 1] = r
    BY <1>1, <1>2
  <2>2. i + 1 < j + 1
    BY <2>1 DEF Before
  <2> QED  BY <1>1, <2>2
<1>9. Before(q, p, Head(q)) => ~ In(q, p)
  BY <1>1 DEF Before, In
<1>10. \A R : First(q, p, R) /\ p # Head(q) => First(t, p, R) /\ Head(q) \notin R
  <2> SUFFICES ASSUME NEW R, First(q, p, R), p # Head(q)
               PROVE  First(t, p, R) /\ Head(q) \notin R
    OBVIOUS
  <2>1. PICK i \in 1 .. n : q[i] = p /\ \A j \in 1 .. n : j < i => q[j] \notin R
    BY <1>1 DEF First
  <2>2. i # 1 /\ i - 1 \in 1 .. n - 1 /\ t[i - 1] = p
    BY <1>1, <1>2, <2>1
  <2>3. \A j \in 1 .. n - 1 : j < i - 1 => t[j] \notin R
    BY <1>1, <2>1
  <2>4. First(t, p, R)
    BY <1>1, <2>2, <2>3 DEF First
  <2> QED  BY <1>1, <2>1, <2>2, <2>4
<1> QED  BY <1>3, <1>4, <1>5, <1>6, <1>7, <1>8, <1>9, <1>10 DEF t

LEMMA Added ==
  ASSUME NEW S, NEW q \in Seq(S), NEW a \in S, NEW p
  PROVE  /\ In(Append(q, a), p) <=> In(q, p) \/ p = a
         /\ Once(q, p) /\ (p = a => ~ In(q, p)) => Once(Append(q, a), p)
         /\ \A r : Before(q, p, r) /\ (p = a => ~ In(q, r) /\ r # a)
                     => Before(Append(q, a), p, r)
         /\ \A R : First(q, p, R) => First(Append(q, a), p, R)
         /\ \A R : p = a /\ (\A r \in R : ~ In(q, r)) => First(Append(q, a), p, R)
<1> DEFINE t == Append(q, a)  n == Len(q)
<1>1. /\ t \in Seq(S) /\ n \in Nat /\ DOMAIN q = 1 .. n /\ DOMAIN t = 1 .. n + 1
      /\ t[n + 1] = a /\ \A i \in 1 .. n : t[i] = q[i]
  BY AddedIndices
<1> HIDE DEF t, n
<1>2. \A i \in 1 .. n + 1 : i # n + 1 => i \in 1 .. n
  BY <1>1
<1>3. In(t, p) <=> In(q, p) \/ p = a
  BY <1>1, <1>2 DEF In
<1>4. Once(q, p) /\ (p = a => ~ In(q, p)) => Once(t, p)
  BY <1>1, <1>2 DEF Once, In
<1>5. \A r : Before(q, p, r) /\ (p = a => ~ In(q, r) /\ r # a) => Before(t, p, r)
  BY <1>1, <1>2 DEF Before, In
<1>6. \A R : First(q, p, R) => First(t, p, R)
  BY <1>1, <1>2 DEF First
<1>7. \A R : p = a /\ (\A r \in R : ~ In(q, r)) => First(t, p, R)
  BY <1>1, <1>2 DEF First, In
<1> QED  BY <1>3, <1>4, <1>5, <1>6, <1>7 DEF t

LEMMA Received ==
  ASSUME NEW S, NEW q \in Seq(S), q # <<>>, NEW K
  PROVE  /\ Has(Tail(q), K) => Has(q, K)
         /\ Has(q, K) /\ Head(q).kind \notin K => Has(Tail(q), K)
         /\ Head(q).kind \in K => Has(q, K)
         /\ Single(q, K) => Single(Tail(q), K)
         /\ Single(q, K) /\ Head(q).kind \in K => ~ Has(Tail(q), K)
<1> DEFINE t == Tail(q)  n == Len(q)
<1>1. /\ t \in Seq(S) /\ n \in Nat \ {0} /\ DOMAIN q = 1 .. n /\ DOMAIN t = 1 .. n - 1
      /\ Head(q) = q[1] /\ \A i \in 1 .. n - 1 : t[i] = q[i + 1]
  BY TakenIndices
<1> HIDE DEF t, n
<1>2. /\ \A i \in 1 .. n : i # 1 => i - 1 \in 1 .. n - 1 /\ t[i - 1] = q[i]
      /\ \A i \in 1 .. n - 1 : i + 1 \in 1 .. n /\ t[i] = q[i + 1]
  BY <1>1
<1>3. Has(t, K) => Has(q, K)
  <2> SUFFICES ASSUME NEW i \in 1 .. n - 1, t[i].kind \in K PROVE Has(q, K)
    BY <1>1 DEF Has
  <2>1. i + 1 \in DOMAIN q /\ q[i + 1].kind \in K
    BY <1>1, <1>2
  <2> QED  BY <2>1 DEF Has
<1>4. Has(q, K) /\ Head(q).kind \notin K => Has(t, K)
  BY <1>1, <1>2 DEF Has
<1>5. Head(q).kind \in K => Has(q, K)
  BY <1>1 DEF Has
<1>6. Single(q, K) => Single(t, K)
  <2> SUFFICES ASSUME Single(q, K), NEW i \in 1 .. n - 1, NEW j \in 1 .. n - 1,
                      t[i].kind \in K, t[j].kind \in K
               PROVE  i = j
    BY <1>1 DEF Single
  <2>1. /\ i + 1 \in DOMAIN q /\ q[i + 1].kind \in K
        /\ j + 1 \in DOMAIN q /\ q[j + 1].kind \in K
    BY <1>1, <1>2
  <2>2. i + 1 = j + 1
    BY <2>1 DEF Single
  <2> QED  BY <1>1, <2>2
<1>7. Single(q, K) /\ Head(q).kind \in K => ~ Has(t, K)
  <2> SUFFICES ASSUME Single(q, K), q[1].kind \in K,
                      NEW i \in 1 .. n - 1, t[i].kind \in K
               PROVE  FALSE
    BY <1>1 DEF Has
  <2>1. i + 1 \in DOMAIN q /\ q[i + 1].kind \in K /\ 1 \in DOMAIN q
    BY <1>1, <1>2
  <2>2. i + 1 = 1
    BY <2>1 DEF Single
  <2> QED  BY <1>1, <2>2
<1> QED  BY <1>3, <1>4, <1>5, <1>6, <1>7 DEF t

LEMMA Posted ==
  ASSUME NEW S, NEW q \in Seq(S), NEW m \in S, NEW K
  PROVE  /\ Has(Append(q, m), K) <=> Has(q, K) \/ m.kind \in K
         /\ Single(q, K) /\ (m.kind \in K => ~ Has(q, K)) => Single(Append(q, m), K)
<1> DEFINE t == Append(q, m)  n == Len(q)
<1>1. /\ t \in Seq(S) /\ n \in Nat /\ DOMAIN q = 1 .. n /\ DOMAIN t = 1 .. n + 1
      /\ t[n + 1] = m /\ \A i \in 1 .. n : t[i] = q[i]
  BY AddedIndices
<1> HIDE DEF t, n
<1>2. \A i \in 1 .. n + 1 : i # n + 1 => i \in 1 .. n
  BY <1>1
<1>3. Has(t, K) <=> Has(q, K) \/ m.kind \in K
  BY <1>1, <1>2 DEF Has
<1>4. Single(q, K) /\ (m.kind \in K => ~ Has(q, K)) => Single(t, K)
  BY <1>1, <1>2 DEF Single, Has
<1> QED  BY <1>3, <1>4 DEF t

\* A set of numbers has a least element.
LEMMA MinOfNats ==
  ASSUME NEW S \in SUBSET Nat, S # {}
  PROVE  /\ Min(S) \in S
         /\ \A x \in S : Min(S) <= x
<1> DEFINE Less == {ss \in Nat \X Nat : ss[1] < ss[2]}
<1>1. IsWellFoundedOn(Less, Nat)
  BY NatLessThanWellFounded DEF OpToRel
<1>2. PICK u \in S : \A n \in S : <<n, u>> \notin Less
  <2> HIDE DEF Less
  <2> QED  BY <1>1, WFMin
<1>3. \A n \in S : u <= n
  <2> SUFFICES ASSUME NEW n \in S, n < u PROVE FALSE
    OBVIOUS
  <2>1. <<n, u>> \in Nat \X Nat /\ <<n, u>>[1] < <<n, u>>[2]
    OBVIOUS
  <2>2. <<n, u>> \in Less
    BY <2>1
  <2> QED  BY <1>2, <2>2
<1>4. \E x \in S : \A y \in S : x =< y
  BY <1>3
<1> QED  BY <1>4 DEF Min

-----------------------------------------------------------------------------
(***************************************************************************)
(* Types.                                                                  *)
(***************************************************************************)

LEMMA NewConnTypes ==
  NoConn \in SoundConns /\ \A st \in States : [NoConn EXCEPT !.st = st] \in SoundConns
<1>1. <<>> \in Seq(SegKinds) /\ Len(<<>>) = 0
  OBVIOUS
<1>2. NoConn \in Conns
  BY <1>1 DEF NoConn, Conns, States
<1>3. NoConn.got = 0 /\ NoConn.sent = 0 /\ NoConn.rd = 0 /\ Len(NoConn.resp) = 0
  BY <1>1 DEF NoConn
<1> HIDE DEF NoConn
<1>4. NoConn \in SoundConns
  BY <1>2, <1>3 DEF SoundConns
<1> QED  BY <1>4 DEF SoundConns, Conns

LEMMA TypesInit == Init => Types
<1> SUFFICES ASSUME Init PROVE Types
  OBVIOUS
<1>1. 1 \in Pages /\ NumPages \in Nat
  BY PagesAssumption DEF Pages
<1>2. helperq \in Seq(Procs)
  BY DEF Init, Procs
<1>3. InetTypes
  <2>1. recvq \in Seq(Chunks) /\ connect_state \in -1 .. 3 /\ sock \in Socks \cup {NoSock}
    BY DEF Init
  <2>2. sendq \in [req : Pages \cup {0}, left : Nat \ {0}] \cup {NULL}
    BY DEF Init
  <2>3. receive_mode \in BOOLEAN /\ send_tmr \in BOOLEAN
    BY DEF Init
  <2>4. URL \in Pages \cup {NULL} /\ FNCACHE \in Pages \cup {NULL}
    BY DEF Init
  <2>5. DNR_ID \in Nat /\ DNR_TRIES \in Int
    BY DEF Init
  <2> QED  BY <2>1, <2>2, <2>3, <2>4, <2>5 DEF InetTypes
<1>4. ViewTypes
  BY <1>1 DEF Init, ViewTypes
<1>5. HelperTypes /\ PageTypes
  <2>1. seg \in Seq(Chunks) /\ <<>> \in Seq(Chunks)
    BY DEF Init
  <2> QED  BY <1>2, <2>1 DEF Init, HelperTypes, HelperSteps, PageTypes
<1>6. OsTypes
  <2>1. mmiq \in Seq(Messages)
    BY DEF Init
  <2>2. conns \in [Socks -> SoundConns]
    BY NewConnTypes DEF Init
  <2>3. dnr \in [last : Nat, open : SUBSET Nat, known : BOOLEAN]
    BY DEF Init
  <2> QED  BY <2>1, <2>2, <2>3 DEF OsTypes
<1> QED  BY <1>3, <1>4, <1>5, <1>6 DEF Init, Types

\* The queues keep to their types whatever is taken and added.
LEMMA QueueTypes ==
  ASSUME Types
  PROVE  /\ \A p : Starts(p) => Tail(helperq) \in Seq(Procs)
         /\ \A p \in Procs : Append(helperq, p) \in Seq(Procs)
         /\ \A k : Handles(k) => Tail(mmiq) \in Seq(Messages) /\ Head(mmiq) \in Messages
         /\ \A m \in Messages, q \in Seq(Messages) : Append(q, m) \in Seq(Messages)
         /\ \A s \in Socks, k \in SocketEvents : Msg(k, s) \in Messages
         /\ \A k \in {"DATA_END"} \cup Opening : Msg(k, NULL) \in Messages
         /\ \A n \in Nat : Msg("DNR", n) \in Messages
         /\ \A c \in Seq(Chunks) : Msg("DATA_ARRIVED", c) \in Messages
<1>1. helperq \in Seq(Procs) /\ mmiq \in Seq(Messages)
  BY DEF Types, HelperTypes, OsTypes
<1>2. \A p : Starts(p) => Tail(helperq) \in Seq(Procs)
  BY <1>1, TakenIndices DEF Starts
<1>3. \A k : Handles(k) => Tail(mmiq) \in Seq(Messages) /\ Head(mmiq) \in Messages
  BY <1>1, TakenIndices DEF Handles
<1>4. /\ \A p \in Procs : Append(helperq, p) \in Seq(Procs)
      /\ \A m \in Messages, q \in Seq(Messages) : Append(q, m) \in Seq(Messages)
  BY <1>1, AddedIndices
<1>5. /\ \A s \in Socks, k \in SocketEvents : Msg(k, s) \in Messages
      /\ \A k \in {"DATA_END"} \cup Opening : Msg(k, NULL) \in Messages
      /\ \A n \in Nat : Msg("DNR", n) \in Messages
      /\ \A c \in Seq(Chunks) : Msg("DATA_ARRIVED", c) \in Messages
  BY DEF Msg, Messages
<1> QED  BY <1>2, <1>3, <1>4, <1>5

\* The connections keep to their types when one changes its state.
LEMMA ConnTypes ==
  ASSUME conns \in [Socks -> SoundConns]
  PROVE  /\ \A s \in Socks, st \in States : [conns EXCEPT ![s].st = st] \in [Socks -> SoundConns]
         /\ Closed(sock) \in [Socks -> SoundConns]
<1>1. ASSUME NEW s \in Socks, NEW st \in States
      PROVE  [conns EXCEPT ![s].st = st] \in [Socks -> SoundConns]
  <2>1. [conns[s] EXCEPT !.st = st] \in SoundConns
    BY DEF SoundConns, Conns
  <2>2. [conns EXCEPT ![s].st = st] = [conns EXCEPT ![s] = [conns[s] EXCEPT !.st = st]]
    OBVIOUS
  <2> QED  BY <2>1, <2>2
<1>2. Closed(sock) \in [Socks -> SoundConns]
  BY <1>1 DEF Closed, Alive, States
<1> QED  BY <1>1, <1>2

\* The first piece that ends a header is a piece, and the rest are pieces.
LEMMA HeaderEnd ==
  ASSUME NEW q \in Seq(Chunks), SelectInSeq(q, HeaderEnds) # 0
  PROVE  /\ SelectInSeq(q, HeaderEnds) \in 1 .. Len(q)
         /\ AfterHeader(q) \in Seq(Chunks)
<1> DEFINE I == {i \in 1 .. Len(q) : HeaderEnds(q[i])}
<1>1. Len(q) \in Nat /\ I \subseteq 1 .. Len(q)
  OBVIOUS
<1>2. SelectInSeq(q, HeaderEnds) = (IF I # {} THEN Min(I) ELSE 0)
  BY DEF SelectInSeq
<1> HIDE DEF I
<1>3. I # {}
  BY <1>2
<1>4. Min(I) \in I
  BY <1>1, <1>3, MinOfNats
<1>5. SelectInSeq(q, HeaderEnds) \in 1 .. Len(q)
  BY <1>1, <1>2, <1>3, <1>4
<1> DEFINE e == SelectInSeq(q, HeaderEnds)
<1>6. AfterHeader(q) = SubSeq(q, IF q[e].kind = "hdrBody" THEN e ELSE e + 1, Len(q))
  BY DEF AfterHeader
<1>7. e \in 1 .. Len(q)
  BY <1>5
<1> HIDE DEF e
<1>8. \A m \in 1 .. Len(q) + 1 : SubSeq(q, m, Len(q)) \in Seq(Chunks)
  BY <1>1, SubSeqProperties
<1>9. AfterHeader(q) \in Seq(Chunks)
  <2>1. e \in 1 .. Len(q) + 1 /\ e + 1 \in 1 .. Len(q) + 1
    BY <1>1, <1>7
  <2> QED  BY <1>6, <1>8, <2>1
<1> QED  BY <1>5, <1>9

LEMMA FreeSocketTypes == InetTypes /\ FreeSocket => InetTypes'
<1> SUFFICES ASSUME InetTypes, FreeSocket PROVE InetTypes'
  OBVIOUS
<1>1. sock' \in Socks \cup {NoSock} /\ connect_state' \in -1 .. 3
  BY DEF FreeSocket
<1>2. sendq' \in [req : Pages \cup {0}, left : Nat \ {0}] \cup {NULL}
  BY DEF FreeSocket
<1>3. URL' \in Pages \cup {NULL} /\ FNCACHE' \in Pages \cup {NULL}
  BY DEF FreeSocket, FreeUrl
<1>4. recvq' \in Seq(Chunks)
  BY DEF FreeSocket
<1>5. send_tmr' \in BOOLEAN
  BY DEF FreeSocket
<1>6. receive_mode' \in BOOLEAN /\ DNR_ID' \in Nat /\ DNR_TRIES' \in Int
  BY DEF FreeSocket, InetTypes
<1> QED  BY <1>1, <1>2, <1>3, <1>4, <1>5, <1>6 DEF InetTypes

LEMMA TypesStep == Types /\ OneOpening /\ [Next]_<<vars, world>> => Types'
<1> SUFFICES ASSUME Types, OneOpening, [Next]_<<vars, world>> PROVE Types'
  OBVIOUS
<1>1. CASE UNCHANGED <<vars, world>>
  <2>1. UNCHANGED <<vars, world>>
    BY <1>1
  <2>2. InetTypes' <=> InetTypes
    BY <2>1 DEF vars, inetVars, InetTypes
  <2>3. ViewTypes' <=> ViewTypes
    BY <2>1 DEF vars, viewVars, ViewTypes
  <2>4. HelperTypes' <=> HelperTypes
    BY <2>1 DEF vars, inetVars, helperVars, HelperTypes
  <2>5. PageTypes' <=> PageTypes
    BY <2>1 DEF vars, pageVars, PageTypes
  <2>6. OsTypes' <=> OsTypes
    BY <2>1 DEF vars, osVars, OsTypes
  <2> QED  BY <2>1, <2>2, <2>3, <2>4, <2>5, <2>6 DEF Types
<1> SUFFICES ASSUME Next PROVE Types'
  BY <1>1
<1>0. /\ InetTypes /\ ViewTypes /\ HelperTypes /\ PageTypes /\ OsTypes
      /\ world \in Worlds /\ world' = world
  BY DEF Types, Next
<1>2. CASE StartINET
  <2>1. helperq' \in Seq(Procs) /\ mmiq' \in Seq(Messages)
    <3>1. helperq' = Tail(helperq) /\ UNCHANGED mmiq
      BY <1>2 DEF StartINET, Dequeue, osVars
    <3>2. Starts("StartGetFile")
      BY <1>2 DEF StartINET
    <3>3. Tail(helperq) \in Seq(Procs)
      BY <3>2, QueueTypes
    <3>4. mmiq \in Seq(Messages)
      BY <1>0 DEF OsTypes
    <3> QED  BY <3>1, <3>3, <3>4
  <2>2. InetTypes'
    <3>1. URL' \in Pages \cup {NULL} /\ FNCACHE' \in Pages \cup {NULL}
      BY <1>0, <1>2 DEF StartINET, InetTypes, ViewTypes
    <3> QED  BY <1>0, <1>2, <3>1 DEF StartINET, InetTypes
  <2>3. ViewTypes'
    BY <1>0, <1>2, <2>1 DEF StartINET, ViewTypes, viewVars, FreeSocket
  <2>4. HelperTypes'
    BY <1>0, <1>2, <2>1 DEF StartINET, HelperTypes, helperVars, inetVars, HelperSteps, WaitDNR, FreeSocket
  <2>5. PageTypes'
    <3>1. CASE UNCHANGED cache
      BY <1>0, <3>1, <1>2 DEF StartINET, PageTypes
    <3>2. CASE view_url # NULL /\ cache' = [cache EXCEPT ![view_url] = <<>>]
      <4>1. view_url \in Pages /\ <<>> \in Seq(Chunks)
        BY <1>0, <3>2 DEF ViewTypes
      <4> QED  BY <1>0, <1>2, <3>2, <4>1 DEF StartINET, PageTypes
    <3> QED  BY <1>2, <3>1, <3>2 DEF StartINET
  <2>6. OsTypes'
    BY <1>0, <1>2, <2>1 DEF StartINET, OsTypes, osVars, FreeSocket, AskDNR
  <2> QED  BY <1>0, <2>2, <2>3, <2>4, <2>5, <2>6 DEF Types
<1>3. CASE StartINETQueues
  <2>1. helperq' \in Seq(Procs) /\ mmiq' \in Seq(Messages)
    BY <1>0, <1>3, QueueTypes DEF StartINETQueues, HelperTypes, OsTypes, helperVars, osVars, Dequeue, SUBPROC, Post, Consume, Procs, FreeSocket, Opening
  <2>2. InetTypes'
    BY <1>0, <1>3, <2>1 DEF StartINETQueues, InetTypes, inetVars, FreeSocket, FreeUrl, AwaitHeader, AskDNR
  <2>3. ViewTypes'
    BY <1>0, <1>3, <2>1 DEF StartINETQueues, ViewTypes, viewVars, FreeSocket
  <2>4. HelperTypes'
    BY <1>0, <1>3, <2>1 DEF StartINETQueues, HelperTypes, helperVars, inetVars, HelperSteps, WaitDNR, FreeSocket
  <2>5. PageTypes'
    BY <1>0, <1>3, <2>1 DEF StartINETQueues, PageTypes, pageVars, FreeSocket, writecache
  <2>6. OsTypes'
    BY <1>0, <1>3, <2>1 DEF StartINETQueues, OsTypes, osVars, FreeSocket, AskDNR
  <2> QED  BY <1>0, <2>2, <2>3, <2>4, <2>5, <2>6 DEF Types
<1>4. CASE create_connect
  <2>1. helperq' \in Seq(Procs) /\ mmiq' \in Seq(Messages)
    BY <1>0, <1>4, QueueTypes DEF create_connect, HelperTypes, OsTypes, helperVars, osVars, Dequeue, SUBPROC, Post, Consume, Procs, FreeSocket, Opening
  <2>2. InetTypes'
    <3>1. dnr.last \in Nat /\ DNR_TRIES \in Int /\ DNR_TRIES - 1 \in Int
      BY <1>0 DEF OsTypes, InetTypes
    <3>2. DNR_ID' \in Nat /\ DNR_TRIES' \in Int
      <4>1. \/ DNR_ID' = 0 \/ UNCHANGED DNR_ID
            \/ AskDNR
        BY <1>4, Zenon DEF create_connect
      <4>2. DNR_TRIES' \in {0, DNR_TRIES, DNR_TRIES - 1}
        BY <1>4 DEF create_connect
      <4> QED  BY <1>0, <3>1, <4>1, <4>2 DEF InetTypes, AskDNR
    <3>3. receive_mode' \in BOOLEAN
      BY <1>4 DEF create_connect, AwaitHeader
    <3>4. connect_state' \in -1 .. 3
      BY <1>4 DEF create_connect
    <3> QED  BY <1>0, <1>4, <3>2, <3>3, <3>4 DEF create_connect, InetTypes
  <2>3. ViewTypes'
    BY <1>0, <1>4, <2>1 DEF create_connect, ViewTypes, viewVars, FreeSocket
  <2>4. HelperTypes'
    BY <1>0, <1>4, <2>1 DEF create_connect, HelperTypes, helperVars, inetVars, HelperSteps, WaitDNR, FreeSocket
  <2>5. PageTypes'
    BY <1>0, <1>4, <2>1 DEF create_connect, PageTypes, pageVars, FreeSocket, writecache
  <2>6. OsTypes'
    <3>1. dnr' \in [last : Nat, open : SUBSET Nat, known : BOOLEAN]
      <4>1. \/ UNCHANGED dnr \/ AskDNR
            \/ \E known \in BOOLEAN : dnr' = [dnr EXCEPT !.known = known]
        BY <1>4, Zenon DEF create_connect
      <4>2. CASE AskDNR
        <5>1. dnr.last + 1 \in Nat /\ dnr.open \cup {dnr.last + 1} \in SUBSET Nat
          BY <1>0 DEF OsTypes
        <5> QED  BY <1>0, <4>2, <5>1 DEF OsTypes, AskDNR
      <4>3. CASE \E known \in BOOLEAN : dnr' = [dnr EXCEPT !.known = known]
        BY <1>0, <4>3 DEF OsTypes
      <4> QED  BY <1>0, <4>1, <4>2, <4>3 DEF OsTypes
    <3> QED  BY <1>0, <1>4, <2>1, <3>1 DEF create_connect, OsTypes
  <2> QED  BY <1>0, <2>2, <2>3, <2>4, <2>5, <2>6 DEF Types
<1>5. CASE OpenSocket
  <2>1. helperq' \in Seq(Procs) /\ mmiq' \in Seq(Messages)
    BY <1>0, <1>5, QueueTypes DEF OpenSocket, HelperTypes, OsTypes, helperVars, osVars, Dequeue, SUBPROC, Post, Consume, Procs, FreeSocket, Opening
  <2>2. InetTypes'
    BY <1>0, <1>5, <2>1 DEF OpenSocket, InetTypes, inetVars, FreeSocket, FreeUrl, AwaitHeader, AskDNR
  <2>3. ViewTypes'
    BY <1>0, <1>5, <2>1 DEF OpenSocket, ViewTypes, viewVars, FreeSocket
  <2>4. HelperTypes'
    BY <1>0, <1>5, <2>1 DEF OpenSocket, HelperTypes, helperVars, inetVars, HelperSteps, WaitDNR, FreeSocket
  <2>5. PageTypes'
    BY <1>0, <1>5, <2>1 DEF OpenSocket, PageTypes, pageVars, FreeSocket, writecache
  <2>6. OsTypes'
    BY <1>0, <1>5, <2>1, NewConnTypes DEF OpenSocket, OsTypes, States
  <2> QED  BY <1>0, <2>2, <2>3, <2>4, <2>5, <2>6 DEF Types
<1>6. CASE Connect
  <2>1. helperq' \in Seq(Procs) /\ mmiq' \in Seq(Messages)
    BY <1>0, <1>6, QueueTypes DEF Connect, HelperTypes, OsTypes, helperVars, osVars, Dequeue, SUBPROC, Post, Consume, Procs, FreeSocket, Opening
  <2>2. InetTypes'
    BY <1>0, <1>6, <2>1 DEF Connect, InetTypes, inetVars, FreeSocket, FreeUrl, AwaitHeader, AskDNR
  <2>3. ViewTypes'
    BY <1>0, <1>6, <2>1 DEF Connect, ViewTypes, viewVars, FreeSocket
  <2>4. HelperTypes'
    BY <1>0, <1>6, <2>1 DEF Connect, HelperTypes, helperVars, inetVars, HelperSteps, WaitDNR, FreeSocket
  <2>5. PageTypes'
    BY <1>0, <1>6, <2>1 DEF Connect, PageTypes, pageVars, FreeSocket, writecache
  <2>6. OsTypes'
    <3>1. sock \in Socks /\ conns \in [Socks -> SoundConns]
      BY <1>0, <1>6 DEF Connect, HelperTypes, OsTypes
    <3>2. conns' \in [Socks -> SoundConns]
      BY <1>6, <3>1, ConnTypes DEF Connect, States
    <3> QED  BY <1>0, <1>6, <2>1, <3>2 DEF Connect, OsTypes
  <2> QED  BY <1>0, <2>2, <2>3, <2>4, <2>5, <2>6 DEF Types
<1>7. CASE ConnectReturns
  <2>1. helperq' \in Seq(Procs) /\ mmiq' \in Seq(Messages)
    BY <1>0, <1>7, QueueTypes DEF ConnectReturns, HelperTypes, OsTypes, helperVars, osVars, Dequeue, SUBPROC, Post, Consume, Procs, FreeSocket, Opening
  <2>2. InetTypes'
    BY <1>0, <1>7, <2>1 DEF ConnectReturns, InetTypes, inetVars, FreeSocket, FreeUrl, AwaitHeader, AskDNR
  <2>3. ViewTypes'
    BY <1>0, <1>7, <2>1 DEF ConnectReturns, ViewTypes, viewVars, FreeSocket
  <2>4. HelperTypes'
    BY <1>0, <1>7, <2>1 DEF ConnectReturns, HelperTypes, helperVars, inetVars, HelperSteps, WaitDNR, FreeSocket
  <2>5. PageTypes'
    BY <1>0, <1>7, <2>1 DEF ConnectReturns, PageTypes, pageVars, FreeSocket, writecache
  <2>6. OsTypes'
    BY <1>0, <1>7, <2>1 DEF ConnectReturns, OsTypes, osVars, FreeSocket, AskDNR
  <2> QED  BY <1>0, <2>2, <2>3, <2>4, <2>5, <2>6 DEF Types
<1>8. CASE SendPost
  <2>1. helperq' \in Seq(Procs) /\ mmiq' \in Seq(Messages)
    BY <1>0, <1>8, QueueTypes DEF SendPost, HelperTypes, OsTypes, helperVars, osVars, Dequeue, SUBPROC, Post, Consume, Procs, FreeSocket, Opening
  <2>2. InetTypes'
    <3>1. ReqLen \in Nat \ {0}
      BY <1>0, WorldsAssumption DEF ReqLen
    <3>2. sendq' \in [req : Pages \cup {0}, left : Nat \ {0}] \cup {NULL}
      <4>1. CASE sendq' = sendq
        BY <1>0, <4>1 DEF InetTypes
      <4>2. CASE sendq # NULL /\ sendq' = [sendq EXCEPT !.left = @ + ReqLen]
        BY <1>0, <3>1, <4>2 DEF InetTypes
      <4>3. CASE sendq' = [req |-> IF URL = NULL THEN 0 ELSE URL, left |-> ReqLen]
        BY <1>0, <3>1, <4>3 DEF InetTypes
      <4> QED  BY <1>8, <4>1, <4>2, <4>3 DEF SendPost
    <3>3. URL' \in Pages \cup {NULL}
      BY <1>8 DEF SendPost
    <3> QED  BY <1>0, <1>8, <3>2, <3>3 DEF SendPost, InetTypes
  <2>3. ViewTypes'
    BY <1>0, <1>8, <2>1 DEF SendPost, ViewTypes, viewVars, FreeSocket
  <2>4. HelperTypes'
    <3>1. CASE hp' = "idle"
      BY <1>0, <1>8, <2>1, <3>1 DEF SendPost, HelperTypes, HelperSteps
    <3>2. CASE /\ hp' = "bsend"
               /\ sendq' = [req |-> IF URL = NULL THEN 0 ELSE URL, left |-> ReqLen]
      <4>1. ReqLen \in Nat \ {0} /\ (IF URL = NULL THEN 0 ELSE URL) \in Pages \cup {0}
        BY <1>0, WorldsAssumption DEF ReqLen, InetTypes
      <4>2. sendq' \in [req : Pages \cup {0}, left : Nat \ {0}]
        BY <3>2, <4>1
      <4>3. sendq' # NULL
        BY <4>2, NullAssumption
      <4> QED  BY <1>0, <1>8, <2>1, <3>2, <4>3 DEF SendPost, HelperTypes, HelperSteps
    <3> QED  BY <1>8, <3>1, <3>2 DEF SendPost
  <2>5. PageTypes'
    BY <1>0, <1>8, <2>1 DEF SendPost, PageTypes, pageVars, FreeSocket, writecache
  <2>6. OsTypes'
    BY <1>0, <1>8, <2>1 DEF SendPost, OsTypes, osVars, FreeSocket, AskDNR
  <2> QED  BY <1>0, <2>2, <2>3, <2>4, <2>5, <2>6 DEF Types
<1>9. CASE ResumeSend
  <2>1. helperq' \in Seq(Procs) /\ mmiq' \in Seq(Messages)
    BY <1>0, <1>9, QueueTypes DEF ResumeSend, HelperTypes, OsTypes, helperVars, osVars, Dequeue, SUBPROC, Post, Consume, Procs, FreeSocket, Opening
  <2>2. InetTypes'
    BY <1>0, <1>9, <2>1 DEF ResumeSend, InetTypes, inetVars, FreeSocket, FreeUrl, AwaitHeader, AskDNR
  <2>3. ViewTypes'
    BY <1>0, <1>9, <2>1 DEF ResumeSend, ViewTypes, viewVars, FreeSocket
  <2>4. HelperTypes'
    BY <1>0, <1>9, <2>1 DEF ResumeSend, HelperTypes, helperVars, inetVars, HelperSteps, WaitDNR, FreeSocket
  <2>5. PageTypes'
    BY <1>0, <1>9, <2>1 DEF ResumeSend, PageTypes, pageVars, FreeSocket, writecache
  <2>6. OsTypes'
    BY <1>0, <1>9, <2>1 DEF ResumeSend, OsTypes, osVars, FreeSocket, AskDNR
  <2> QED  BY <1>0, <2>2, <2>3, <2>4, <2>5, <2>6 DEF Types
<1>10. CASE bsend
  <2>1. helperq' \in Seq(Procs) /\ mmiq' \in Seq(Messages)
    BY <1>0, <1>10, QueueTypes DEF bsend, HelperTypes, OsTypes, helperVars, osVars, Dequeue, SUBPROC, Post, Consume, Procs, FreeSocket, Opening
  <2>2. InetTypes'
    <3>1. sendq' \in [req : Pages \cup {0}, left : Nat \ {0}] \cup {NULL}
      <4>1. CASE sendq' = sendq \/ sendq' = NULL
        BY <1>0, <4>1 DEF InetTypes
      <4>2. CASE sendq.left # 1 /\ sendq' = [sendq EXCEPT !.left = @ - 1]
        <5>1. sendq \in [req : Pages \cup {0}, left : Nat \ {0}]
          BY <1>0, <1>10 DEF bsend, InetTypes, HelperTypes
        <5>2. sendq.left - 1 \in Nat \ {0}
          BY <4>2, <5>1
        <5> QED  BY <4>2, <5>1, <5>2
      <4> QED  BY <1>10, <4>1, <4>2 DEF bsend
    <3>2. send_tmr' \in BOOLEAN
      BY <1>0, <1>10, SendTimerAssumption DEF bsend, InetTypes
    <3> QED  BY <1>0, <1>10, <3>1, <3>2 DEF bsend, InetTypes
  <2>3. ViewTypes'
    BY <1>0, <1>10, <2>1 DEF bsend, ViewTypes, viewVars, FreeSocket
  <2>4. HelperTypes'
    <3>1. CASE hp' = "idle"
      BY <1>0, <1>10, <2>1, <3>1 DEF bsend, HelperTypes, HelperSteps
    <3>2. CASE /\ hp' = "bsend" /\ sendq.left # 1
               /\ sendq' = [sendq EXCEPT !.left = @ - 1]
      <4>1. sendq \in [req : Pages \cup {0}, left : Nat \ {0}]
        BY <1>0, <1>10 DEF bsend, InetTypes, HelperTypes
      <4>2. sendq' \in [req : Pages \cup {0}, left : Nat \ {0}]
        BY <3>2, <4>1
      <4>3. sendq' # NULL
        BY <4>2, NullAssumption
      <4> QED  BY <1>0, <1>10, <2>1, <3>2, <4>3 DEF bsend, HelperTypes, HelperSteps
    <3> QED  BY <1>10, <3>1, <3>2 DEF bsend
  <2>5. PageTypes'
    BY <1>0, <1>10, <2>1 DEF bsend, PageTypes, pageVars, FreeSocket, writecache
  <2>6. OsTypes'
    <3>1. CASE UNCHANGED conns
      BY <1>0, <1>10, <2>1, <3>1 DEF bsend, OsTypes
    <3>2. ASSUME Alive(sock), NEW full \in BOOLEAN,
                 conns' = [conns EXCEPT ![sock].req = sendq.req, ![sock].got = @ + 1,
                                        ![sock].full = full]
          PROVE  OsTypes'
      <4>1. sock \in Socks /\ sendq.req \in Pages \cup {0}
        BY <1>0, <1>10, <3>2 DEF bsend, Alive, InetTypes, HelperTypes
      <4>2. conns[sock] \in SoundConns
        BY <1>0, <4>1 DEF OsTypes
      <4> DEFINE c == [conns[sock] EXCEPT !.req = sendq.req, !.got = @ + 1, !.full = full]
      <4>3. c \in SoundConns
        <5>1. c \in Conns
          <6>1. conns[sock] \in Conns /\ conns[sock].got + 1 \in Nat
            BY <4>2 DEF SoundConns, Conns
          <6> HIDE DEF SoundConns
          <6> QED  BY <3>2, <4>1, <6>1 DEF Conns
        <5>2. /\ c.req = sendq.req /\ c.got = conns[sock].got + 1
              /\ c.sent = conns[sock].sent /\ c.rd = conns[sock].rd
              /\ c.resp = conns[sock].resp
          BY <4>2 DEF SoundConns, Conns
        <5> HIDE DEF c
        <5> QED  BY <4>1, <4>2, <5>1, <5>2 DEF SoundConns, Conns
      <4>4. conns' = [conns EXCEPT ![sock] = c]
        BY <1>0, <3>2, <4>1 DEF OsTypes
      <4> HIDE DEF c
      <4> QED  BY <1>0, <1>10, <2>1, <4>1, <4>3, <4>4 DEF bsend, OsTypes
    <3> QED  BY <1>10, <3>1, <3>2 DEF bsend
  <2> QED  BY <1>0, <2>2, <2>3, <2>4, <2>5, <2>6 DEF Types
<1>11. CASE get_answer
  <2>1. helperq' \in Seq(Procs) /\ mmiq' \in Seq(Messages)
    BY <1>0, <1>11, QueueTypes DEF get_answer, HelperTypes, OsTypes, helperVars, osVars, Dequeue, SUBPROC, Post, Consume, Procs, FreeSocket, Opening
  <2>2. ViewTypes'
    BY <1>0, <1>11 DEF get_answer, ViewTypes, viewVars
  <2>3. CASE UNCHANGED <<conns, receive_mode, seg, hp, cache, recvq>>
    BY <1>0, <1>11, <2>1, <2>2, <2>3
       DEF get_answer, Types, InetTypes, HelperTypes, PageTypes, OsTypes
  <2>4. CASE Alive(sock) /\ conns[sock].rd < conns[sock].sent
    <3> DEFINE c == Chunk(sock)
               q == Append(recvq, c)
               inHeader == ~receive_mode /\ SelectInSeq(q, HeaderEnds) = 0
               body == IF receive_mode THEN <<c>>
                       ELSE IF inHeader THEN <<>> ELSE AfterHeader(q)
    <3>1. /\ conns' = [conns EXCEPT ![sock].rd = @ + 1]
          /\ receive_mode' = ~inHeader
          /\ recvq' = IF receive_mode THEN recvq ELSE q
          /\ IF body = <<>>
             THEN UNCHANGED <<seg, hp, cache>>
             ELSE /\ seg' = body
                  /\ writecache(body)
                  /\ hp' = IF receive_mode THEN "post" ELSE "postFirst"
      BY <1>11, <2>4 DEF get_answer
    <3>2. sock \in Socks /\ conns[sock] \in SoundConns
      BY <1>0, <2>4 DEF Alive, OsTypes
    <3>3. c \in Chunks
      <4>1. /\ conns[sock].rd + 1 \in Nat \ {0}
            /\ conns[sock].req \in Pages \cup {0}
            /\ conns[sock].rd + 1 \in 1 .. Len(conns[sock].resp)
            /\ conns[sock].resp \in Seq(SegKinds)
        BY <2>4, <3>2 DEF SoundConns, Conns
      <4>2. conns[sock].resp[conns[sock].rd + 1] \in SegKinds
        BY <4>1
      <4> QED  BY <4>1, <4>2 DEF Chunk, Chunks
    <3> HIDE DEF c
    <3>4. recvq \in Seq(Chunks) /\ q \in Seq(Chunks) /\ <<c>> \in Seq(Chunks)
      BY <1>0, <3>3 DEF InetTypes
    <3>5. body \in Seq(Chunks)
      <4>1. CASE receive_mode \/ inHeader
        <5>1. <<>> \in Seq(Chunks)
          OBVIOUS
        <5> QED  BY <3>4, <4>1, <5>1
      <4>2. CASE ~ receive_mode /\ ~ inHeader
        BY <3>4, <4>2, HeaderEnd
      <4> QED  BY <4>1, <4>2
    <3>6. receive_mode' \in BOOLEAN /\ recvq' \in Seq(Chunks)
      BY <3>1, <3>4
    <3> HIDE DEF q, inHeader, body
    <3>7. conns' \in [Socks -> SoundConns]
      <4>1. [conns[sock] EXCEPT !.rd = @ + 1] \in SoundConns
        BY <2>4, <3>2 DEF SoundConns, Conns
      <4>2. conns' = [conns EXCEPT ![sock] = [conns[sock] EXCEPT !.rd = @ + 1]]
        BY <3>1
      <4> QED  BY <1>0, <3>2, <4>1, <4>2 DEF OsTypes
    <3>8. seg' \in Seq(Chunks) /\ hp' \in {"idle", "post", "postFirst"}
      BY <1>0, <1>11, <3>1, <3>5 DEF get_answer, Starts, HelperTypes
    <3>9. cache' \in [Pages -> Seq(Chunks)]
      <4>1. CASE UNCHANGED cache
        BY <1>0, <4>1 DEF PageTypes
      <4>2. CASE FNCACHE # NULL /\ cache' = [cache EXCEPT ![FNCACHE] = @ \o body]
        <5>1. FNCACHE \in Pages /\ cache[FNCACHE] \o body \in Seq(Chunks)
          BY <1>0, <3>5, <4>2 DEF InetTypes, PageTypes
        <5> QED  BY <1>0, <4>2, <5>1 DEF PageTypes
      <4> QED  BY <3>1, <4>1, <4>2 DEF writecache
    <3>10. InetTypes'
      BY <1>0, <1>11, <3>6 DEF get_answer, InetTypes
    <3>11. HelperTypes'
      BY <1>0, <1>11, <2>1, <3>8 DEF get_answer, HelperTypes, HelperSteps
    <3>12. PageTypes' /\ OsTypes'
      BY <1>0, <1>11, <2>1, <3>7, <3>9 DEF get_answer, PageTypes, OsTypes
    <3> QED  BY <1>0, <2>2, <3>10, <3>11, <3>12 DEF Types
  <2> QED  BY <1>11, <2>3, <2>4 DEF get_answer
<1>12. CASE PostData
  <2>1. helperq' \in Seq(Procs) /\ mmiq' \in Seq(Messages)
    BY <1>0, <1>12, QueueTypes DEF PostData, HelperTypes, OsTypes, helperVars, osVars, Dequeue, SUBPROC, Post, Consume, Procs, FreeSocket, Opening
  <2>2. InetTypes'
    BY <1>0, <1>12, <2>1 DEF PostData, InetTypes, inetVars, FreeSocket, FreeUrl, AwaitHeader, AskDNR
  <2>3. ViewTypes'
    BY <1>0, <1>12, <2>1 DEF PostData, ViewTypes, viewVars, FreeSocket
  <2>4. HelperTypes'
    BY <1>0, <1>12, <2>1 DEF PostData, HelperTypes, helperVars, inetVars, HelperSteps, WaitDNR, FreeSocket
  <2>5. PageTypes'
    BY <1>0, <1>12, <2>1 DEF PostData, PageTypes, pageVars, FreeSocket, writecache
  <2>6. OsTypes'
    BY <1>0, <1>12, <2>1 DEF PostData, OsTypes, osVars, FreeSocket, AskDNR
  <2> QED  BY <1>0, <2>2, <2>3, <2>4, <2>5, <2>6 DEF Types
<1>13. CASE end_socket
  <2>1. helperq' \in Seq(Procs) /\ mmiq' \in Seq(Messages)
    BY <1>0, <1>13, QueueTypes DEF end_socket, HelperTypes, OsTypes, helperVars, osVars, Dequeue, SUBPROC, Post, Consume, Procs, FreeSocket, Opening
  <2>2. InetTypes'
    BY <1>0, <1>13, <2>1 DEF end_socket, InetTypes, inetVars, FreeSocket, FreeUrl, AwaitHeader, AskDNR
  <2>3. ViewTypes'
    BY <1>0, <1>13, <2>1 DEF end_socket, ViewTypes, viewVars, FreeSocket
  <2>4. HelperTypes'
    BY <1>0, <1>13, <2>1 DEF end_socket, HelperTypes, helperVars, inetVars, HelperSteps, WaitDNR, FreeSocket
  <2>5. PageTypes'
    BY <1>0, <1>13, <2>1 DEF end_socket, PageTypes, pageVars, FreeSocket, writecache
  <2>6. OsTypes'
    BY <1>0, <1>13, <2>1, ConnTypes DEF end_socket, OsTypes
  <2> QED  BY <1>0, <2>2, <2>3, <2>4, <2>5, <2>6 DEF Types
<1>14. CASE free_socket
  <2>1. helperq' \in Seq(Procs) /\ mmiq' \in Seq(Messages)
    BY <1>0, <1>14, QueueTypes DEF free_socket, HelperTypes, OsTypes, helperVars, osVars, Dequeue, SUBPROC, Post, Consume, Procs, FreeSocket, Opening
  <2>2. InetTypes'
    BY <1>0, <1>14, FreeSocketTypes DEF free_socket
  <2>3. ViewTypes'
    BY <1>0, <1>14, <2>1 DEF free_socket, ViewTypes, viewVars, FreeSocket
  <2>4. HelperTypes'
    BY <1>0, <1>14, <2>1 DEF free_socket, FreeSocket, HelperTypes, Starts
  <2>5. PageTypes'
    BY <1>0, <1>14, <2>1 DEF free_socket, PageTypes, pageVars, FreeSocket, writecache
  <2>6. OsTypes'
    BY <1>0, <1>14, <2>1 DEF free_socket, OsTypes, osVars, FreeSocket, AskDNR
  <2> QED  BY <1>0, <2>2, <2>3, <2>4, <2>5, <2>6 DEF Types
<1>15. CASE StopINET
  <2>1. helperq' \in Seq(Procs) /\ mmiq' \in Seq(Messages)
    BY <1>0, <1>15, QueueTypes DEF StopINET, HelperTypes, OsTypes, helperVars, osVars, Dequeue, SUBPROC, Post, Consume, Procs, FreeSocket, Opening
  <2>2. InetTypes'
    BY <1>0, <1>15, <2>1 DEF StopINET, InetTypes, inetVars, FreeSocket, FreeUrl, AwaitHeader, AskDNR
  <2>3. ViewTypes'
    BY <1>0, <1>15, <2>1 DEF StopINET, ViewTypes, viewVars, FreeSocket
  <2>4. HelperTypes'
    BY <1>0, <1>15, <2>1 DEF StopINET, HelperTypes, helperVars, inetVars, HelperSteps, WaitDNR, FreeSocket
  <2>5. PageTypes'
    BY <1>0, <1>15, <2>1 DEF StopINET, PageTypes, pageVars, FreeSocket, writecache
  <2>6. OsTypes'
    BY <1>0, <1>15, <2>1, ConnTypes DEF StopINET, OsTypes
  <2> QED  BY <1>0, <2>2, <2>3, <2>4, <2>5, <2>6 DEF Types
<1>16. CASE StopINETFrees
  <2>1. helperq' \in Seq(Procs) /\ mmiq' \in Seq(Messages)
    BY <1>0, <1>16, QueueTypes DEF StopINETFrees, HelperTypes, OsTypes, helperVars, osVars, Dequeue, SUBPROC, Post, Consume, Procs, FreeSocket, Opening
  <2>2. InetTypes'
    BY <1>0, <1>16, FreeSocketTypes DEF StopINETFrees
  <2>3. ViewTypes'
    BY <1>0, <1>16, <2>1 DEF StopINETFrees, ViewTypes, viewVars, FreeSocket
  <2>4. HelperTypes'
    BY <1>0, <1>16, <2>1 DEF StopINETFrees, HelperTypes, helperVars, inetVars, HelperSteps, WaitDNR, FreeSocket
  <2>5. PageTypes'
    BY <1>0, <1>16, <2>1 DEF StopINETFrees, PageTypes, pageVars, FreeSocket, writecache
  <2>6. OsTypes'
    BY <1>0, <1>16, <2>1 DEF StopINETFrees, OsTypes, osVars, FreeSocket, AskDNR
  <2> QED  BY <1>0, <2>2, <2>3, <2>4, <2>5, <2>6 DEF Types
<1>17. CASE GotoLink
  <2>1. helperq' \in Seq(Procs) /\ mmiq' \in Seq(Messages)
    BY <1>0, <1>17, QueueTypes DEF GotoLink, HelperTypes, OsTypes, helperVars, osVars, Dequeue, SUBPROC, Post, Consume, Procs, FreeSocket, Opening
  <2>2. InetTypes'
    BY <1>0, <1>17, <2>1 DEF GotoLink, InetTypes, inetVars, FreeSocket, FreeUrl, AwaitHeader, AskDNR
  <2>3. ViewTypes'
    BY <1>0, <1>17, <2>1 DEF GotoLink, ViewTypes, viewVars, FreeSocket
  <2>4. HelperTypes'
    BY <1>0, <1>17, <2>1 DEF GotoLink, HelperTypes, helperVars, inetVars, HelperSteps, WaitDNR, FreeSocket
  <2>5. PageTypes'
    BY <1>0, <1>17, <2>1 DEF GotoLink, PageTypes, pageVars, FreeSocket, writecache
  <2>6. OsTypes'
    BY <1>0, <1>17, <2>1 DEF GotoLink, OsTypes, osVars, FreeSocket, AskDNR
  <2> QED  BY <1>0, <2>2, <2>3, <2>4, <2>5, <2>6 DEF Types
<1>18. CASE OnDNR
  <2>1. helperq' \in Seq(Procs) /\ mmiq' \in Seq(Messages)
    BY <1>0, <1>18, QueueTypes DEF OnDNR, HelperTypes, OsTypes, helperVars, osVars, Dequeue, SUBPROC, Post, Consume, Procs, FreeSocket, Opening
  <2>2. InetTypes'
    BY <1>0, <1>18, <2>1 DEF OnDNR, InetTypes, inetVars, FreeSocket, FreeUrl, AwaitHeader, AskDNR
  <2>3. ViewTypes'
    BY <1>0, <1>18, <2>1 DEF OnDNR, ViewTypes, viewVars, FreeSocket
  <2>4. HelperTypes'
    BY <1>0, <1>18, <2>1 DEF OnDNR, HelperTypes, helperVars, inetVars, HelperSteps, WaitDNR, FreeSocket
  <2>5. PageTypes'
    BY <1>0, <1>18, <2>1 DEF OnDNR, PageTypes, pageVars, FreeSocket, writecache
  <2>6. OsTypes'
    BY <1>0, <1>18, <2>1 DEF OnDNR, OsTypes, osVars, FreeSocket, AskDNR
  <2> QED  BY <1>0, <2>2, <2>3, <2>4, <2>5, <2>6 DEF Types
<1>19. CASE OnConnected
  <2>1. helperq' \in Seq(Procs) /\ mmiq' \in Seq(Messages)
    BY <1>0, <1>19, QueueTypes DEF OnConnected, HelperTypes, OsTypes, helperVars, osVars, Dequeue, SUBPROC, Post, Consume, Procs, FreeSocket, Opening
  <2>2. InetTypes'
    BY <1>0, <1>19, <2>1 DEF OnConnected, InetTypes, inetVars, FreeSocket, FreeUrl, AwaitHeader, AskDNR
  <2>3. ViewTypes'
    BY <1>0, <1>19, <2>1 DEF OnConnected, ViewTypes, viewVars, FreeSocket
  <2>4. HelperTypes'
    BY <1>0, <1>19, <2>1 DEF OnConnected, HelperTypes, helperVars, inetVars, HelperSteps, WaitDNR, FreeSocket
  <2>5. PageTypes'
    BY <1>0, <1>19, <2>1 DEF OnConnected, PageTypes, pageVars, FreeSocket, writecache
  <2>6. OsTypes'
    BY <1>0, <1>19, <2>1 DEF OnConnected, OsTypes, osVars, FreeSocket, AskDNR
  <2> QED  BY <1>0, <2>2, <2>3, <2>4, <2>5, <2>6 DEF Types
<1>20. CASE OnDataRead
  <2>1. helperq' \in Seq(Procs) /\ mmiq' \in Seq(Messages)
    BY <1>0, <1>20, QueueTypes DEF OnDataRead, HelperTypes, OsTypes, helperVars, osVars, Dequeue, SUBPROC, Post, Consume, Procs, FreeSocket, Opening
  <2>2. InetTypes'
    BY <1>0, <1>20, <2>1 DEF OnDataRead, InetTypes, inetVars, FreeSocket, FreeUrl, AwaitHeader, AskDNR
  <2>3. ViewTypes'
    BY <1>0, <1>20, <2>1 DEF OnDataRead, ViewTypes, viewVars, FreeSocket
  <2>4. HelperTypes'
    BY <1>0, <1>20, <2>1 DEF OnDataRead, HelperTypes, helperVars, inetVars, HelperSteps, WaitDNR, FreeSocket
  <2>5. PageTypes'
    BY <1>0, <1>20, <2>1 DEF OnDataRead, PageTypes, pageVars, FreeSocket, writecache
  <2>6. OsTypes'
    BY <1>0, <1>20, <2>1 DEF OnDataRead, OsTypes, osVars, FreeSocket, AskDNR
  <2> QED  BY <1>0, <2>2, <2>3, <2>4, <2>5, <2>6 DEF Types
<1>21. CASE OnBufferFree
  <2>1. helperq' \in Seq(Procs) /\ mmiq' \in Seq(Messages)
    BY <1>0, <1>21, QueueTypes DEF OnBufferFree, HelperTypes, OsTypes, helperVars, osVars, Dequeue, SUBPROC, Post, Consume, Procs, FreeSocket, Opening
  <2>2. InetTypes'
    BY <1>0, <1>21, <2>1 DEF OnBufferFree, InetTypes, inetVars, FreeSocket, FreeUrl, AwaitHeader, AskDNR
  <2>3. ViewTypes'
    BY <1>0, <1>21, <2>1 DEF OnBufferFree, ViewTypes, viewVars, FreeSocket
  <2>4. HelperTypes'
    BY <1>0, <1>21, <2>1 DEF OnBufferFree, HelperTypes, helperVars, inetVars, HelperSteps, WaitDNR, FreeSocket
  <2>5. PageTypes'
    BY <1>0, <1>21, <2>1 DEF OnBufferFree, PageTypes, pageVars, FreeSocket, writecache
  <2>6. OsTypes'
    BY <1>0, <1>21, <2>1 DEF OnBufferFree, OsTypes, osVars, FreeSocket, AskDNR
  <2> QED  BY <1>0, <2>2, <2>3, <2>4, <2>5, <2>6 DEF Types
<1>22. CASE OnClosed
  <2>1. helperq' \in Seq(Procs) /\ mmiq' \in Seq(Messages)
    <3>1. Tail(mmiq) \in Seq(Messages) /\ Msg("DATA_END", NULL) \in Messages
      BY <1>22, QueueTypes DEF OnClosed
    <3>2. /\ mmiq' = Tail(mmiq) \/ mmiq' = Append(Tail(mmiq), Msg("DATA_END", NULL))
          /\ helperq' = helperq \/ \E p \in Procs : helperq' = Append(helperq, p)
      BY <1>22 DEF OnClosed, Consume, SUBPROC, Procs
    <3> QED  BY <1>0, <3>1, <3>2, QueueTypes DEF HelperTypes
  <2>2. InetTypes'
    BY <1>0, <1>22, <2>1 DEF OnClosed, InetTypes, inetVars, FreeSocket, FreeUrl, AwaitHeader, AskDNR
  <2>3. ViewTypes'
    BY <1>0, <1>22, <2>1 DEF OnClosed, ViewTypes, viewVars, FreeSocket
  <2>4. HelperTypes'
    BY <1>0, <1>22, <2>1 DEF OnClosed, HelperTypes, helperVars, inetVars, HelperSteps, WaitDNR, FreeSocket
  <2>5. PageTypes'
    BY <1>0, <1>22, <2>1 DEF OnClosed, PageTypes, pageVars, FreeSocket, writecache
  <2>6. OsTypes'
    BY <1>0, <1>22, <2>1 DEF OnClosed, OsTypes, osVars, FreeSocket, AskDNR
  <2> QED  BY <1>0, <2>2, <2>3, <2>4, <2>5, <2>6 DEF Types
<1>23. CASE OnDataArrived
  <2>1. helperq' \in Seq(Procs) /\ mmiq' \in Seq(Messages)
    BY <1>0, <1>23, QueueTypes DEF OnDataArrived, HelperTypes, OsTypes, helperVars, osVars, Dequeue, SUBPROC, Post, Consume, Procs, FreeSocket, Opening
  <2>2. InetTypes'
    BY <1>0, <1>23, <2>1 DEF OnDataArrived, InetTypes, inetVars, FreeSocket, FreeUrl, AwaitHeader, AskDNR
  <2>3. ViewTypes'
    BY <1>0, <1>23, <2>1 DEF OnDataArrived, ViewTypes, viewVars, FreeSocket
  <2>4. HelperTypes'
    BY <1>0, <1>23, <2>1 DEF OnDataArrived, HelperTypes, helperVars, inetVars, HelperSteps, WaitDNR, FreeSocket
  <2>5. PageTypes'
    <3>1. Head(mmiq).arg \in Seq(Chunks)
      <4>1. Head(mmiq) \in Messages /\ Head(mmiq).kind = "DATA_ARRIVED"
        BY <1>23, QueueTypes DEF OnDataArrived, Handles
      <4> QED  BY <4>1 DEF Messages, SocketEvents, Opening
    <3>2. CASE view = 0
      BY <1>0, <1>23, <3>2 DEF OnDataArrived, PageTypes
    <3>3. CASE view # 0
      <4>1. view \in Pages /\ shown[view] \o Head(mmiq).arg \in Seq(Chunks)
        BY <1>0, <3>1, <3>3 DEF ViewTypes, PageTypes
      <4> QED  BY <1>0, <1>23, <3>3, <4>1 DEF OnDataArrived, PageTypes
    <3> QED  BY <3>2, <3>3
  <2>6. OsTypes'
    BY <1>0, <1>23, <2>1 DEF OnDataArrived, OsTypes, osVars, FreeSocket, AskDNR
  <2> QED  BY <1>0, <2>2, <2>3, <2>4, <2>5, <2>6 DEF Types
<1>24. CASE OnDataEnd
  <2>1. helperq' \in Seq(Procs) /\ mmiq' \in Seq(Messages)
    BY <1>0, <1>24, QueueTypes DEF OnDataEnd, HelperTypes, OsTypes, helperVars, osVars, Dequeue, SUBPROC, Post, Consume, Procs, FreeSocket, Opening
  <2>2. InetTypes'
    BY <1>0, <1>24, <2>1 DEF OnDataEnd, InetTypes, inetVars, FreeSocket, FreeUrl, AwaitHeader, AskDNR
  <2>3. ViewTypes'
    BY <1>0, <1>24, <2>1 DEF OnDataEnd, ViewTypes, viewVars, FreeSocket
  <2>4. HelperTypes'
    BY <1>0, <1>24, <2>1 DEF OnDataEnd, HelperTypes, helperVars, inetVars, HelperSteps, WaitDNR, FreeSocket
  <2>5. PageTypes'
    BY <1>0, <1>24, <2>1 DEF OnDataEnd, PageTypes, pageVars, FreeSocket, writecache
  <2>6. OsTypes'
    BY <1>0, <1>24, <2>1 DEF OnDataEnd, OsTypes, osVars, FreeSocket, AskDNR
  <2> QED  BY <1>0, <2>2, <2>3, <2>4, <2>5, <2>6 DEF Types
<1>25. CASE OnGotoUrl
  <2>1. helperq' \in Seq(Procs) /\ mmiq' \in Seq(Messages)
    BY <1>0, <1>25, QueueTypes DEF OnGotoUrl, HelperTypes, OsTypes, helperVars, osVars, Dequeue, SUBPROC, Post, Consume, Procs, FreeSocket, Opening
  <2>2. InetTypes'
    BY <1>0, <1>25, <2>1 DEF OnGotoUrl, InetTypes, inetVars, FreeSocket, FreeUrl, AwaitHeader, AskDNR
  <2>3. ViewTypes'
    <3>1. Sent(Opening)
      BY <1>0, <1>25, Received DEF OnGotoUrl, Handles, OsTypes, Opening, Sent
    <3>2. opened + 1 \in Pages
      BY <1>0, <3>1 DEF OneOpening, ViewTypes
    <3> QED  BY <1>0, <1>25, <3>2 DEF OnGotoUrl, ViewTypes
  <2>4. HelperTypes'
    BY <1>0, <1>25, <2>1 DEF OnGotoUrl, HelperTypes, helperVars, inetVars, HelperSteps, WaitDNR, FreeSocket
  <2>5. PageTypes'
    BY <1>0, <1>25, <2>1 DEF OnGotoUrl, PageTypes, pageVars, FreeSocket, writecache
  <2>6. OsTypes'
    BY <1>0, <1>25, <2>1 DEF OnGotoUrl, OsTypes, osVars, FreeSocket, AskDNR
  <2> QED  BY <1>0, <2>2, <2>3, <2>4, <2>5, <2>6 DEF Types
<1>26. CASE OnGuiDestroyed
  <2>1. helperq' \in Seq(Procs) /\ mmiq' \in Seq(Messages)
    BY <1>0, <1>26, QueueTypes DEF OnGuiDestroyed, HelperTypes, OsTypes, helperVars, osVars, Dequeue, SUBPROC, Post, Consume, Procs, FreeSocket, Opening
  <2>2. InetTypes'
    BY <1>0, <1>26, <2>1 DEF OnGuiDestroyed, InetTypes, inetVars, FreeSocket, FreeUrl, AwaitHeader, AskDNR
  <2>3. ViewTypes'
    BY <1>0, <1>26, <2>1 DEF OnGuiDestroyed, ViewTypes, viewVars, FreeSocket
  <2>4. HelperTypes'
    BY <1>0, <1>26, <2>1 DEF OnGuiDestroyed, HelperTypes, helperVars, inetVars, HelperSteps, WaitDNR, FreeSocket
  <2>5. PageTypes'
    BY <1>0, <1>26, <2>1 DEF OnGuiDestroyed, PageTypes, pageVars, FreeSocket, writecache
  <2>6. OsTypes'
    BY <1>0, <1>26, <2>1 DEF OnGuiDestroyed, OsTypes, osVars, FreeSocket, AskDNR
  <2> QED  BY <1>0, <2>2, <2>3, <2>4, <2>5, <2>6 DEF Types
<1>27. CASE resend
  <2>1. helperq' \in Seq(Procs) /\ mmiq' \in Seq(Messages)
    BY <1>0, <1>27, QueueTypes DEF resend, HelperTypes, OsTypes, helperVars, osVars, Dequeue, SUBPROC, Post, Consume, Procs, FreeSocket, Opening
  <2>2. InetTypes'
    BY <1>0, <1>27, <2>1 DEF resend, InetTypes, inetVars, FreeSocket, FreeUrl, AwaitHeader, AskDNR
  <2>3. ViewTypes'
    BY <1>0, <1>27, <2>1 DEF resend, ViewTypes, viewVars, FreeSocket
  <2>4. HelperTypes'
    BY <1>0, <1>27, <2>1 DEF resend, HelperTypes, helperVars, inetVars, HelperSteps, WaitDNR, FreeSocket
  <2>5. PageTypes'
    BY <1>0, <1>27, <2>1 DEF resend, PageTypes, pageVars, FreeSocket, writecache
  <2>6. OsTypes'
    BY <1>0, <1>27, <2>1 DEF resend, OsTypes, osVars, FreeSocket, AskDNR
  <2> QED  BY <1>0, <2>2, <2>3, <2>4, <2>5, <2>6 DEF Types
<1>28. CASE Leave
  <2>1. helperq' \in Seq(Procs) /\ mmiq' \in Seq(Messages)
    BY <1>0, <1>28, QueueTypes DEF Leave, HelperTypes, OsTypes, helperVars, osVars, Dequeue, SUBPROC, Post, Consume, Procs, FreeSocket, Opening
  <2>2. InetTypes'
    BY <1>0, <1>28, <2>1 DEF Leave, InetTypes, inetVars, FreeSocket, FreeUrl, AwaitHeader, AskDNR
  <2>3. ViewTypes'
    BY <1>0, <1>28, <2>1 DEF Leave, ViewTypes, viewVars, FreeSocket
  <2>4. HelperTypes'
    BY <1>0, <1>28, <2>1 DEF Leave, HelperTypes, helperVars, inetVars, HelperSteps, WaitDNR, FreeSocket
  <2>5. PageTypes'
    BY <1>0, <1>28, <2>1 DEF Leave, PageTypes, pageVars, FreeSocket, writecache
  <2>6. OsTypes'
    BY <1>0, <1>28, <2>1 DEF Leave, OsTypes, osVars, FreeSocket, AskDNR
  <2> QED  BY <1>0, <2>2, <2>3, <2>4, <2>5, <2>6 DEF Types
<1>29. CASE PressStop
  <2>1. helperq' \in Seq(Procs) /\ mmiq' \in Seq(Messages)
    BY <1>0, <1>29, QueueTypes DEF PressStop, HelperTypes, OsTypes, helperVars, osVars, Dequeue, SUBPROC, Post, Consume, Procs, FreeSocket, Opening
  <2>2. InetTypes'
    BY <1>0, <1>29, <2>1 DEF PressStop, InetTypes, inetVars, FreeSocket, FreeUrl, AwaitHeader, AskDNR
  <2>3. ViewTypes'
    BY <1>0, <1>29, <2>1 DEF PressStop, ViewTypes, viewVars, FreeSocket
  <2>4. HelperTypes'
    BY <1>0, <1>29, <2>1 DEF PressStop, HelperTypes, helperVars, inetVars, HelperSteps, WaitDNR, FreeSocket
  <2>5. PageTypes'
    BY <1>0, <1>29, <2>1 DEF PressStop, PageTypes, pageVars, FreeSocket, writecache
  <2>6. OsTypes'
    BY <1>0, <1>29, <2>1 DEF PressStop, OsTypes, osVars, FreeSocket, AskDNR
  <2> QED  BY <1>0, <2>2, <2>3, <2>4, <2>5, <2>6 DEF Types
<1>30. ASSUME NEW s \in Socks, NetConnects(s) PROVE Types'
  <2>1. mmiq' \in Seq(Messages)
    BY <1>0, <1>30, QueueTypes DEF NetConnects, OsTypes, Post, SocketEvents
  <2>2. conns' \in [Socks -> SoundConns]
    BY <1>0, <1>30, ConnTypes DEF NetConnects, OsTypes, States
  <2>3. UNCHANGED <<inetVars, viewVars, helperVars, pageVars, stops, crashed, dnr>>
    BY <1>30 DEF NetConnects
  <2>4. InetTypes' /\ ViewTypes'
    BY <1>0, <2>3 DEF InetTypes, ViewTypes, inetVars, viewVars
  <2>5. HelperTypes' /\ PageTypes'
    BY <1>0, <2>3 DEF HelperTypes, PageTypes, inetVars, helperVars, pageVars
  <2> QED  BY <1>0, <2>1, <2>2, <2>3, <2>4, <2>5 DEF Types, OsTypes
<1>31. ASSUME NEW s \in Socks, NetBufferFree(s) PROVE Types'
  <2>1. mmiq' \in Seq(Messages)
    BY <1>0, <1>31, QueueTypes DEF NetBufferFree, OsTypes, Post, SocketEvents
  <2>2. conns' \in [Socks -> SoundConns]
    <3>1. conns[s] \in SoundConns
      BY <1>0, <1>31 DEF OsTypes
    <3>2. [conns[s] EXCEPT !.full = FALSE] \in SoundConns
      BY <3>1 DEF SoundConns, Conns
    <3>3. conns' = [conns EXCEPT ![s] = [conns[s] EXCEPT !.full = FALSE]]
      BY <1>31 DEF NetBufferFree
    <3> QED  BY <1>0, <3>2, <3>3 DEF OsTypes
  <2>3. UNCHANGED <<inetVars, viewVars, helperVars, pageVars, stops, crashed, dnr>>
    BY <1>31 DEF NetBufferFree
  <2>4. InetTypes' /\ ViewTypes'
    BY <1>0, <2>3 DEF InetTypes, ViewTypes, inetVars, viewVars
  <2>5. HelperTypes' /\ PageTypes'
    BY <1>0, <2>3 DEF HelperTypes, PageTypes, inetVars, helperVars, pageVars
  <2> QED  BY <1>0, <2>1, <2>2, <2>3, <2>4, <2>5 DEF Types, OsTypes
<1>32. ASSUME NEW s \in Socks, ServerAnswers(s) PROVE Types'
  <2>1. mmiq' \in Seq(Messages)
    BY <1>0, <1>32, QueueTypes DEF ServerAnswers, OsTypes, Post, SocketEvents
  <2>2. conns' \in [Socks -> SoundConns]
    <3>1. conns[s] \in SoundConns
      BY <1>0, <1>32 DEF OsTypes
    <3>2. PICK r \in Responses : /\ conns[s].sent < Len(r)
                                /\ conns[s].resp \in {<<>>, r}
                                /\ conns' = [conns EXCEPT ![s].resp = r, ![s].sent = @ + 1]
      BY <1>32 DEF ServerAnswers
    <3>3. r \in Seq(SegKinds) /\ ReqLen \in Nat \ {0}
      BY <1>0, WorldsAssumption DEF Responses, ReqLen
    <3>4. [conns[s] EXCEPT !.resp = r, !.sent = @ + 1] \in SoundConns
      <4>1. conns[s].got > 0
        BY <1>32, <3>1, <3>3 DEF ServerAnswers, SoundConns, Conns
      <4>2. Len(r) \in Nat
        BY <3>3
      <4> DEFINE c == [conns[s] EXCEPT !.resp = r, !.sent = @ + 1]
      <4>3. c \in Conns /\ conns[s] \in Conns
        <5>1. conns[s] \in Conns /\ conns[s].sent + 1 \in Nat
          BY <3>1 DEF SoundConns, Conns
        <5> QED  BY <3>3, <5>1 DEF Conns
      <4>4. /\ c.req = conns[s].req /\ c.got = conns[s].got /\ c.rd = conns[s].rd
            /\ c.resp = r /\ c.sent = conns[s].sent + 1
        BY <4>3 DEF Conns
      <4> HIDE DEF c
      <4>5. /\ c.req \in Pages \cup {0} /\ c.got > 0 /\ c.rd <= c.sent
            /\ c.sent <= Len(c.resp)
        BY <3>1, <3>2, <4>1, <4>2, <4>3, <4>4 DEF SoundConns, Conns
      <4>6. c \in SoundConns
        BY <4>3, <4>5 DEF SoundConns
      <4> QED  BY <4>6 DEF c
    <3>5. conns' = [conns EXCEPT ![s] = [conns[s] EXCEPT !.resp = r, !.sent = @ + 1]]
      BY <1>0, <3>2 DEF OsTypes
    <3> QED  BY <1>0, <3>4, <3>5 DEF OsTypes
  <2>3. UNCHANGED <<inetVars, viewVars, helperVars, pageVars, stops, crashed, dnr>>
    BY <1>32 DEF ServerAnswers
  <2>4. InetTypes' /\ ViewTypes'
    BY <1>0, <2>3 DEF InetTypes, ViewTypes, inetVars, viewVars
  <2>5. HelperTypes' /\ PageTypes'
    BY <1>0, <2>3 DEF HelperTypes, PageTypes, inetVars, helperVars, pageVars
  <2> QED  BY <1>0, <2>1, <2>2, <2>3, <2>4, <2>5 DEF Types, OsTypes
<1>33. ASSUME NEW s \in Socks, RemoteCloses(s) PROVE Types'
  <2>1. mmiq' \in Seq(Messages)
    BY <1>0, <1>33, QueueTypes DEF RemoteCloses, OsTypes, Post, SocketEvents
  <2>2. conns' \in [Socks -> SoundConns]
    BY <1>0, <1>33, ConnTypes DEF RemoteCloses, OsTypes, States
  <2>3. UNCHANGED <<inetVars, viewVars, helperVars, pageVars, stops, crashed, dnr>>
    BY <1>33 DEF RemoteCloses
  <2>4. InetTypes' /\ ViewTypes'
    BY <1>0, <2>3 DEF InetTypes, ViewTypes, inetVars, viewVars
  <2>5. HelperTypes' /\ PageTypes'
    BY <1>0, <2>3 DEF HelperTypes, PageTypes, inetVars, helperVars, pageVars
  <2> QED  BY <1>0, <2>1, <2>2, <2>3, <2>4, <2>5 DEF Types, OsTypes
<1>34. ASSUME NEW s \in Socks, LocalCloses(s) PROVE Types'
  <2>1. mmiq' \in Seq(Messages)
    BY <1>0, <1>34, QueueTypes DEF LocalCloses, OsTypes, Post, SocketEvents
  <2>2. conns' \in [Socks -> SoundConns]
    BY <1>0, <1>34, NewConnTypes DEF LocalCloses, OsTypes
  <2>3. UNCHANGED <<inetVars, viewVars, helperVars, pageVars, stops, crashed, dnr>>
    BY <1>34 DEF LocalCloses
  <2>4. InetTypes' /\ ViewTypes'
    BY <1>0, <2>3 DEF InetTypes, ViewTypes, inetVars, viewVars
  <2>5. HelperTypes' /\ PageTypes'
    BY <1>0, <2>3 DEF HelperTypes, PageTypes, inetVars, helperVars, pageVars
  <2> QED  BY <1>0, <2>1, <2>2, <2>3, <2>4, <2>5 DEF Types, OsTypes
<1>35. ASSUME NEW q \in dnr.open, DnsAnswers(q) PROVE Types'
  <2>1. q \in Nat
    BY <1>0 DEF OsTypes
  <2>2. mmiq' \in Seq(Messages)
    BY <1>0, <1>35, <2>1, QueueTypes DEF DnsAnswers, OsTypes, Post
  <2>3. dnr' \in [last : Nat, open : SUBSET Nat, known : BOOLEAN]
    BY <1>0, <1>35 DEF DnsAnswers, OsTypes
  <2>4. UNCHANGED <<inetVars, viewVars, helperVars, pageVars, stops, crashed, conns>>
    BY <1>35 DEF DnsAnswers
  <2>5. InetTypes' /\ ViewTypes'
    BY <1>0, <2>4 DEF InetTypes, ViewTypes, inetVars, viewVars
  <2>6. HelperTypes' /\ PageTypes'
    BY <1>0, <2>4 DEF HelperTypes, PageTypes, inetVars, helperVars, pageVars
  <2> QED  BY <1>0, <2>2, <2>3, <2>4, <2>5, <2>6 DEF Types, OsTypes
<1> QED
  BY <1>2, <1>3, <1>4, <1>5, <1>6, <1>7, <1>8, <1>9, <1>10, <1>11, <1>12, <1>13, <1>14, <1>15, <1>16, <1>17, <1>18, <1>19, <1>20, <1>21, <1>22, <1>23, <1>24, <1>25, <1>26, <1>27, <1>28, <1>29, <1>30, <1>31, <1>32, <1>33, <1>34, <1>35 DEF Next, Helper, Mmi, User, Network

-----------------------------------------------------------------------------
(***************************************************************************)
(* What a step does to the queues.                                         *)
(***************************************************************************)

\* The step leaves the procedures P as they are in their queue, and the messages
\* of the kinds K in theirs.
KeepsProcs(P) ==
  \A p \in P : /\ In(helperq', p) <=> In(helperq, p)
               /\ Once(helperq, p) => Once(helperq', p)
               /\ \A r : Before(helperq, p, r) => Before(helperq', p, r)
               /\ \A R : First(helperq, p, R) => First(helperq', p, R)
KeepsMsgs(K) ==
  /\ Has(mmiq', K) <=> Has(mmiq, K)
  /\ Single(mmiq, K) => Single(mmiq', K)

LEMMA QueueKept ==
  /\ UNCHANGED helperq => \A P : KeepsProcs(P)
  /\ UNCHANGED mmiq => \A K : KeepsMsgs(K)
BY DEF KeepsProcs, KeepsMsgs

\* HELPER takes the procedure r.
LEMMA DequeueStep ==
  ASSUME Types, NEW r, Starts(r), Dequeue
  PROVE  /\ In(helperq, r) /\ hp = "idle"
         /\ \A P : r \notin P => KeepsProcs(P)
         /\ Once(helperq, r) => ~ In(helperq', r)
         /\ In(helperq', r) => In(helperq, r)
         /\ Once(helperq, r) => Once(helperq', r)
         /\ \A q : Before(helperq, r, q) => Before(helperq', r, q)
         /\ \A p : Before(helperq, p, r) => ~ In(helperq, p)
         /\ \A p, R : First(helperq, p, R) /\ p # r => r \notin R
<1>1. /\ helperq \in Seq(Procs) /\ helperq # <<>> /\ helperq' = Tail(helperq)
      /\ r = Head(helperq) /\ hp = "idle"
  BY DEF Types, HelperTypes, Starts, Dequeue
<1>2. In(helperq, r)
  BY <1>1, Taken
<1>3. ASSUME NEW P, r \notin P PROVE KeepsProcs(P)
  <2> SUFFICES ASSUME NEW p \in P
               PROVE  /\ In(helperq', p) <=> In(helperq, p)
                      /\ Once(helperq, p) => Once(helperq', p)
                      /\ \A q : Before(helperq, p, q) => Before(helperq', p, q)
                      /\ \A R : First(helperq, p, R) => First(helperq', p, R)
    BY DEF KeepsProcs
  <2>1. p # r
    BY <1>3
  <2> QED  BY <1>1, <2>1, Taken
<1>4. /\ Once(helperq, r) => ~ In(helperq', r)
      /\ In(helperq', r) => In(helperq, r)
      /\ Once(helperq, r) => Once(helperq', r)
      /\ \A q : Before(helperq, r, q) => Before(helperq', r, q)
  BY <1>1, Taken
<1>5. \A p : Before(helperq, p, r) => ~ In(helperq, p)
  BY <1>1, Taken
<1>6. \A p, R : First(helperq, p, R) /\ p # r => r \notin R
  BY <1>1, Taken
<1> QED  BY <1>1, <1>2, <1>3, <1>4, <1>5, <1>6

\* A procedure is handed to HELPER.
LEMMA SubprocStep ==
  ASSUME Types, NEW a \in Procs, SUBPROC(a)
  PROVE  /\ In(helperq', a)
         /\ \A P : a \notin P => KeepsProcs(P)
         /\ ~ In(helperq, a) => Once(helperq', a)
         /\ \A q : Before(helperq, a, q) /\ ~ In(helperq, q) /\ q # a => Before(helperq', a, q)
         /\ \A R : First(helperq, a, R) => First(helperq', a, R)
         /\ \A R : (\A q \in R : ~ In(helperq, q)) => First(helperq', a, R)
<1>1. helperq \in Seq(Procs) /\ helperq' = Append(helperq, a)
  BY DEF Types, HelperTypes, SUBPROC
<1>2. /\ In(helperq', a)
      /\ \A q : Before(helperq, a, q) /\ ~ In(helperq, q) /\ q # a => Before(helperq', a, q)
      /\ \A R : First(helperq, a, R) => First(helperq', a, R)
      /\ \A R : (\A q \in R : ~ In(helperq, q)) => First(helperq', a, R)
  BY <1>1, Added
<1>3. ~ In(helperq, a) => Once(helperq', a)
  <2>1. ~ In(helperq, a) => Once(helperq, a)
    BY DEF In, Once
  <2> QED  BY <1>1, <2>1, Added
<1>4. ASSUME NEW P, a \notin P PROVE KeepsProcs(P)
  <2> SUFFICES ASSUME NEW p \in P
               PROVE  /\ In(helperq', p) <=> In(helperq, p)
                      /\ Once(helperq, p) => Once(helperq', p)
                      /\ \A q : Before(helperq, p, q) => Before(helperq', p, q)
                      /\ \A R : First(helperq, p, R) => First(helperq', p, R)
    BY DEF KeepsProcs
  <2>1. p # a
    BY <1>4
  <2> QED  BY <1>1, <2>1, Added
<1> QED  BY <1>2, <1>3, <1>4

\* The MMI thread takes a message of kind k, and may post that the page ends.
LEMMA ConsumeStep ==
  ASSUME Types, NEW k, Handles(k),
         Consume \/ mmiq' = Append(Tail(mmiq), Msg("DATA_END", NULL))
  PROVE  /\ \A K : k \in K => Has(mmiq, K)
         /\ \A K : k \notin K /\ "DATA_END" \notin K => KeepsMsgs(K)
         /\ \A K : Single(mmiq, K) /\ k \in K /\ "DATA_END" \notin K => ~ Has(mmiq', K)
         /\ \A K : Single(mmiq, K) /\ "DATA_END" \notin K => Single(mmiq', K)
         /\ \A K : Has(mmiq', K) /\ "DATA_END" \notin K => Has(mmiq, K)
<1>1. mmiq \in Seq(Messages) /\ mmiq # <<>> /\ k = Head(mmiq).kind
  BY DEF Types, OsTypes, Handles
<1>2. \A K : k \in K => Has(mmiq, K)
  BY <1>1, Received
<1> DEFINE e == Msg("DATA_END", NULL)
<1>3. Tail(mmiq) \in Seq(Messages) /\ e \in Messages /\ e.kind = "DATA_END"
  BY <1>1, QueueTypes DEF Msg
<1>4. mmiq' = Tail(mmiq) \/ mmiq' = Append(Tail(mmiq), e)
  BY DEF Consume
<1> HIDE DEF e
<1>5. ASSUME NEW K, "DATA_END" \notin K
      PROVE  /\ Has(mmiq', K) <=> Has(Tail(mmiq), K)
             /\ Single(Tail(mmiq), K) => Single(mmiq', K)
  <2>1. CASE mmiq' = Tail(mmiq)
    BY <2>1
  <2>2. CASE mmiq' = Append(Tail(mmiq), e)
    BY <1>3, <1>5, <2>2, Posted
  <2> QED  BY <1>4, <2>1, <2>2
<1>6. ASSUME NEW K, "DATA_END" \notin K
      PROVE  /\ k \notin K => KeepsMsgs(K)
             /\ Single(mmiq, K) /\ k \in K => ~ Has(mmiq', K)
             /\ Single(mmiq, K) => Single(mmiq', K)
             /\ Has(mmiq', K) => Has(mmiq, K)
  <2>1. /\ Has(Tail(mmiq), K) => Has(mmiq, K)
        /\ Has(mmiq, K) /\ k \notin K => Has(Tail(mmiq), K)
        /\ Single(mmiq, K) => Single(Tail(mmiq), K)
        /\ Single(mmiq, K) /\ k \in K => ~ Has(Tail(mmiq), K)
    BY <1>1, Received
  <2> QED  BY <1>5, <1>6, <2>1 DEF KeepsMsgs
<1> QED  BY <1>2, <1>6

\* The message m is posted to the MMI thread.
LEMMA PostStep ==
  ASSUME Types, NEW m \in Messages, Post(m)
  PROVE  /\ \A K : m.kind \in K => Has(mmiq', K)
         /\ \A K : m.kind \notin K => KeepsMsgs(K)
         /\ \A K : ~ Has(mmiq, K) => Single(mmiq', K)
<1>1. mmiq \in Seq(Messages) /\ mmiq' = Append(mmiq, m)
  BY DEF Types, OsTypes, Post
<1>2. \A K : m.kind \in K => Has(mmiq', K)
  BY <1>1, Posted
<1>3. \A K : m.kind \notin K => KeepsMsgs(K)
  BY <1>1, Posted DEF KeepsMsgs
<1>4. \A K : ~ Has(mmiq, K) => Single(mmiq', K)
  <2>1. \A K : ~ Has(mmiq, K) => Single(mmiq, K)
    BY DEF Has, Single
  <2> QED  BY <1>1, <2>1, Posted
<1> QED  BY <1>2, <1>3, <1>4

\* The procedures and the messages an action leaves as they are.
LEMMA ProcsKept ==
  ASSUME Types, NEW P
  PROVE  /\ OpenSocket \/ Connect \/ ConnectReturns \/ bsend \/ PostData \/ StopINETFrees
            \/ OnDataArrived \/ OnDataEnd \/ Network
            => KeepsProcs(P)
         /\ StartINET /\ "StartGetFile" \notin P => KeepsProcs(P)
         /\ StartINETQueues /\ "create_connect" \notin P => KeepsProcs(P)
         /\ create_connect /\ "create_connect" \notin P => KeepsProcs(P)
         /\ SendPost /\ "SendPost" \notin P => KeepsProcs(P)
         /\ ResumeSend /\ "bsend" \notin P => KeepsProcs(P)
         /\ get_answer /\ "get_answer" \notin P => KeepsProcs(P)
         /\ end_socket /\ "end_socket" \notin P => KeepsProcs(P)
         /\ free_socket /\ "free_socket" \notin P => KeepsProcs(P)
         /\ StopINET /\ "StopINET" \notin P => KeepsProcs(P)
         /\ GotoLink /\ "GotoLink" \notin P => KeepsProcs(P)
         /\ OnDNR /\ "create_connect" \notin P => KeepsProcs(P)
         /\ OnConnected /\ "SendPost" \notin P => KeepsProcs(P)
         /\ OnDataRead /\ "get_answer" \notin P => KeepsProcs(P)
         /\ OnBufferFree /\ "bsend" \notin P => KeepsProcs(P)
         /\ OnClosed /\ "end_socket" \notin P /\ "free_socket" \notin P => KeepsProcs(P)
         /\ OnGotoUrl /\ "StartGetFile" \notin P => KeepsProcs(P)
         /\ OnGuiDestroyed /\ "GotoLink" \notin P => KeepsProcs(P)
         /\ resend /\ "bsend" \notin P => KeepsProcs(P)
         /\ Leave /\ "StopINET" \notin P => KeepsProcs(P)
         /\ PressStop /\ "StopINET" \notin P => KeepsProcs(P)
<1>2. OpenSocket \/ Connect \/ ConnectReturns \/ bsend \/ PostData \/ StopINETFrees
      \/ OnDataArrived \/ OnDataEnd \/ Network
      => UNCHANGED helperq
  BY DEF OpenSocket, Connect, ConnectReturns, bsend, PostData, StopINETFrees, OnDataArrived,
         OnDataEnd, Network, NetConnects, NetBufferFree, ServerAnswers, RemoteCloses,
         LocalCloses, DnsAnswers, helperVars
<1>3. StartINET /\ "StartGetFile" \notin P => KeepsProcs(P)
  BY DequeueStep DEF StartINET
<1>4. StartINETQueues /\ "create_connect" \notin P => KeepsProcs(P)
  BY SubprocStep, QueueKept DEF StartINETQueues, Procs
<1>5. create_connect /\ "create_connect" \notin P => KeepsProcs(P)
  BY DequeueStep DEF create_connect
<1>6. SendPost /\ "SendPost" \notin P => KeepsProcs(P)
  BY DequeueStep DEF SendPost
<1>7. ResumeSend /\ "bsend" \notin P => KeepsProcs(P)
  BY DequeueStep DEF ResumeSend
<1>8. get_answer /\ "get_answer" \notin P => KeepsProcs(P)
  BY DequeueStep DEF get_answer
<1>9. end_socket /\ "end_socket" \notin P => KeepsProcs(P)
  BY DequeueStep DEF end_socket
<1>10. free_socket /\ "free_socket" \notin P => KeepsProcs(P)
  BY DequeueStep DEF free_socket
<1>11. StopINET /\ "StopINET" \notin P => KeepsProcs(P)
  BY DequeueStep DEF StopINET
<1>12. GotoLink /\ "GotoLink" \notin P => KeepsProcs(P)
  BY DequeueStep DEF GotoLink
<1>13. OnDNR /\ "create_connect" \notin P => KeepsProcs(P)
  BY SubprocStep, QueueKept DEF OnDNR, Procs
<1>14. OnConnected /\ "SendPost" \notin P => KeepsProcs(P)
  BY SubprocStep, QueueKept DEF OnConnected, Procs
<1>15. OnDataRead /\ "get_answer" \notin P => KeepsProcs(P)
  BY SubprocStep, QueueKept DEF OnDataRead, Procs
<1>16. OnBufferFree /\ "bsend" \notin P => KeepsProcs(P)
  BY SubprocStep, QueueKept DEF OnBufferFree, Procs
<1>17. OnClosed /\ "end_socket" \notin P /\ "free_socket" \notin P => KeepsProcs(P)
  BY SubprocStep, QueueKept DEF OnClosed, Procs
<1>18. OnGotoUrl /\ "StartGetFile" \notin P => KeepsProcs(P)
  BY SubprocStep, QueueKept DEF OnGotoUrl, Procs
<1>19. OnGuiDestroyed /\ "GotoLink" \notin P => KeepsProcs(P)
  BY SubprocStep, QueueKept DEF OnGuiDestroyed, Procs
<1>20. resend /\ "bsend" \notin P => KeepsProcs(P)
  BY SubprocStep, QueueKept DEF resend, Procs
<1>21. Leave /\ "StopINET" \notin P => KeepsProcs(P)
  BY SubprocStep, QueueKept DEF Leave, Procs
<1>22. PressStop /\ "StopINET" \notin P => KeepsProcs(P)
  BY SubprocStep, QueueKept DEF PressStop, Procs
<1> QED  BY QueueKept, <1>2, <1>3, <1>4, <1>5, <1>6, <1>7, <1>8, <1>9, <1>10, <1>11, <1>12, <1>13, <1>14, <1>15, <1>16, <1>17, <1>18, <1>19, <1>20, <1>21, <1>22

LEMMA MsgsKept ==
  ASSUME Types, NEW K
  PROVE  /\ StartINET \/ StartINETQueues \/ create_connect \/ OpenSocket \/ Connect
            \/ ConnectReturns \/ SendPost \/ ResumeSend \/ bsend \/ get_answer \/ end_socket
            \/ free_socket \/ StopINET \/ StopINETFrees \/ resend \/ PressStop
            => KeepsMsgs(K)
         /\ PostData /\ "DATA_ARRIVED" \notin K => KeepsMsgs(K)
         /\ GotoLink /\ "GOTO_URL" \notin K => KeepsMsgs(K)
         /\ Leave /\ "GUI_DESTROYED" \notin K => KeepsMsgs(K)
         /\ OnDNR /\ "DNR" \notin K /\ "DATA_END" \notin K => KeepsMsgs(K)
         /\ OnConnected /\ "CONNECTED" \notin K /\ "DATA_END" \notin K => KeepsMsgs(K)
         /\ OnDataRead /\ "DATA_READ" \notin K /\ "DATA_END" \notin K => KeepsMsgs(K)
         /\ OnBufferFree /\ "BUFFER_FREE" \notin K /\ "DATA_END" \notin K => KeepsMsgs(K)
         /\ OnDataArrived /\ "DATA_ARRIVED" \notin K /\ "DATA_END" \notin K => KeepsMsgs(K)
         /\ OnDataEnd /\ "DATA_END" \notin K => KeepsMsgs(K)
         /\ OnGotoUrl /\ "GOTO_URL" \notin K /\ "DATA_END" \notin K => KeepsMsgs(K)
         /\ OnGuiDestroyed /\ "GUI_DESTROYED" \notin K /\ "DATA_END" \notin K => KeepsMsgs(K)
         /\ OnClosed /\ Ends \cap K = {} /\ "DATA_END" \notin K => KeepsMsgs(K)
         /\ Network /\ SocketEvents \cap K = {} /\ "DNR" \notin K => KeepsMsgs(K)
<1>1. StartINET \/ StartINETQueues \/ create_connect \/ OpenSocket \/ Connect
      \/ ConnectReturns \/ SendPost \/ ResumeSend \/ bsend \/ get_answer \/ end_socket
      \/ free_socket \/ StopINET \/ StopINETFrees \/ resend \/ PressStop
      => UNCHANGED mmiq
  BY DEF StartINET, StartINETQueues, create_connect, OpenSocket, Connect, ConnectReturns,
         SendPost, ResumeSend, bsend, get_answer, end_socket, free_socket, StopINET,
         StopINETFrees, FreeSocket, resend, PressStop, osVars
<1>2. PostData /\ "DATA_ARRIVED" \notin K => KeepsMsgs(K)
  <2>1. seg \in Seq(Chunks)
    BY DEF Types, HelperTypes
  <2> QED  BY <2>1, QueueTypes, PostStep, QueueKept DEF PostData, Msg
<1>3. GotoLink /\ "GOTO_URL" \notin K => KeepsMsgs(K)
  BY QueueTypes, PostStep DEF GotoLink, Msg, Opening
<1>4. Leave /\ "GUI_DESTROYED" \notin K => KeepsMsgs(K)
  BY QueueTypes, PostStep DEF Leave, Msg, Opening
<1>5. OnDNR /\ "DNR" \notin K /\ "DATA_END" \notin K => KeepsMsgs(K)
  BY ConsumeStep DEF OnDNR
<1>6. OnConnected /\ "CONNECTED" \notin K /\ "DATA_END" \notin K => KeepsMsgs(K)
  BY ConsumeStep DEF OnConnected
<1>7. OnDataRead /\ "DATA_READ" \notin K /\ "DATA_END" \notin K => KeepsMsgs(K)
  BY ConsumeStep DEF OnDataRead
<1>8. OnBufferFree /\ "BUFFER_FREE" \notin K /\ "DATA_END" \notin K => KeepsMsgs(K)
  BY ConsumeStep DEF OnBufferFree
<1>9. OnDataArrived /\ "DATA_ARRIVED" \notin K /\ "DATA_END" \notin K => KeepsMsgs(K)
  BY ConsumeStep DEF OnDataArrived
<1>10. OnDataEnd /\ "DATA_END" \notin K => KeepsMsgs(K)
  BY ConsumeStep DEF OnDataEnd
<1>11. OnGotoUrl /\ "GOTO_URL" \notin K /\ "DATA_END" \notin K => KeepsMsgs(K)
  BY ConsumeStep DEF OnGotoUrl
<1>12. OnGuiDestroyed /\ "GUI_DESTROYED" \notin K /\ "DATA_END" \notin K => KeepsMsgs(K)
  BY ConsumeStep DEF OnGuiDestroyed
<1>13. OnClosed /\ Ends \cap K = {} /\ "DATA_END" \notin K => KeepsMsgs(K)
  BY ConsumeStep DEF OnClosed, Ends
<1>14. Network /\ SocketEvents \cap K = {} /\ "DNR" \notin K => KeepsMsgs(K)
  <2> SUFFICES ASSUME Network, SocketEvents \cap K = {}, "DNR" \notin K PROVE KeepsMsgs(K)
    OBVIOUS
  <2>1. \/ \E s \in Socks, k \in SocketEvents : Post(Msg(k, s))
        \/ \E q \in dnr.open : Post(Msg("DNR", q))
    BY DEF Network, NetConnects, NetBufferFree, ServerAnswers, RemoteCloses, LocalCloses,
           DnsAnswers, SocketEvents
  <2>2. \A q \in dnr.open : q \in Nat
    BY DEF Types, OsTypes
  <2> QED  BY <2>1, <2>2, QueueTypes, PostStep DEF Msg
<1> QED  BY QueueKept, <1>1, <1>2, <1>3, <1>4, <1>5, <1>6, <1>7, <1>8, <1>9, <1>10, <1>11, <1>12, <1>13, <1>14

-----------------------------------------------------------------------------
(***************************************************************************)
(* One page is opened and loaded at a time, and what a page allocates is    *)
(* freed before the next: in every world.                                  *)
(***************************************************************************)

LoadInv == OneOpening /\ OneLoading /\ UrlFreed
LoadProcs == {"GotoLink", "StartGetFile", "StopINET"}

LEMMA LoadInit == Init => LoadInv
<1> SUFFICES ASSUME Init PROVE LoadInv
  OBVIOUS
<1>1. helperq = <<"StartGetFile">> /\ mmiq = <<>> /\ view = 1 /\ hp = "idle"
  BY DEF Init
<1>2. \A p : Queued(p) => p = "StartGetFile"
  BY <1>1 DEF Queued, In
<1>3. \A K : ~ Sent(K) /\ Single(mmiq, K)
  BY <1>1 DEF Sent, Has, Single
<1>4. \A p, r : Once(helperq, p) /\ (p # r => Before(helperq, p, r))
  BY <1>1 DEF Once, Before
<1>5. OneOpening
  BY <1>1, <1>2, <1>3, <1>4 DEF OneOpening
<1>6. OneLoading
  BY <1>1, <1>3, <1>4 DEF OneLoading
<1>7. UrlFreed
  BY DEF Init, UrlFreed, Dirty
<1> QED  BY <1>5, <1>6, <1>7 DEF LoadInv

\* A step that neither opens, loads nor frees a page.
LEMMA LoadQuiet ==
  ASSUME LoadInv, KeepsProcs(LoadProcs), KeepsMsgs(Opening), KeepsMsgs({"GOTO_URL"}),
         UNCHANGED <<view, view_url, opened>>, Dirty' => Dirty,
         hp' = "StartINET" => hp = "StartINET", hp = "StopINET" => hp' = "StopINET"
  PROVE  LoadInv'
<1>1. \A p \in LoadProcs : /\ Queued(p)' <=> Queued(p)
                           /\ Once(helperq, p) => Once(helperq', p)
                           /\ \A r : Before(helperq, p, r) => Before(helperq', p, r)
                           /\ \A R : First(helperq, p, R) => First(helperq', p, R)
  BY DEF KeepsProcs, Queued
<1>2. /\ Sent(Opening)' <=> Sent(Opening)
      /\ Single(mmiq, Opening) => Single(mmiq', Opening)
      /\ Sent({"GOTO_URL"})' <=> Sent({"GOTO_URL"})
  BY DEF KeepsMsgs, Sent, Opening
<1>3. {"GotoLink", "StartGetFile", "StopINET"} = LoadProcs
  BY DEF LoadProcs
<1>4. OneOpening'
  BY <1>1, <1>2, <1>3 DEF OneOpening, LoadInv, Pages
<1>5. OneLoading'
  BY <1>1, <1>2, <1>3 DEF OneLoading, LoadInv
<1>6. UrlFreed'
  BY <1>1, <1>2, <1>3 DEF UrlFreed, LoadInv
<1> QED  BY <1>4, <1>5, <1>6 DEF LoadInv

LEMMA LoadStep == Types /\ LoadInv /\ Next => LoadInv'
<1> SUFFICES ASSUME Types, LoadInv, Next PROVE LoadInv'
  OBVIOUS
<1>0. OneOpening /\ OneLoading /\ UrlFreed
  BY DEF LoadInv

<1>1. CASE StartINET
  <2>1. /\ Queued("StartGetFile") /\ hp = "idle" /\ ~ In(helperq', "StartGetFile")
        /\ KeepsProcs({"GotoLink", "StopINET"})
    BY <1>1, <1>0, DequeueStep DEF StartINET, OneLoading, Queued
  <2>2. /\ Once(helperq', "StartGetFile") /\ Before(helperq', "StartGetFile", "GotoLink")
        /\ ~ First(helperq, "StopINET", {"GotoLink", "StartGetFile"})
    BY <1>1, <1>0, DequeueStep DEF StartINET, OneLoading
  <2>3. ~ Dirty
    BY <1>0, <2>1, <2>2 DEF UrlFreed
  <2>4. UNCHANGED <<mmiq, view, view_url, opened>> /\ hp' \in {"idle", "StartINET"}
    BY <1>1, <2>1 DEF StartINET, osVars
  <2>5. OneOpening'
    BY <1>0, <2>1, <2>4 DEF OneOpening, KeepsProcs, Queued, Sent, Pages
  <2>6. OneLoading'
    BY <1>0, <2>1, <2>2, <2>4 DEF OneLoading, Queued, Sent
  <2>7. Dirty' => view' # 0
    BY <1>1, <1>0, <2>3 DEF StartINET, OneOpening, Dirty
  <2>8. UrlFreed'
    BY <2>1, <2>7 DEF UrlFreed, Queued
  <2> QED  BY <2>5, <2>6, <2>8 DEF LoadInv
<1>2. CASE StartINETQueues
  <2>1. KeepsProcs(LoadProcs) /\ KeepsMsgs(Opening) /\ KeepsMsgs({"GOTO_URL"})
    BY <1>2, ProcsKept, MsgsKept DEF LoadProcs, Opening
  <2>2. /\ UNCHANGED <<view, view_url, opened>> /\ (Dirty' => Dirty)
        /\ hp' = "StartINET" => hp = "StartINET"
        /\ hp = "StopINET" => hp' = "StopINET"
    BY <1>2 DEF StartINETQueues, Dirty, viewVars, inetVars, helperVars
  <2> QED  BY <2>1, <2>2, LoadQuiet
<1>3. CASE create_connect
  <2>1. KeepsProcs(LoadProcs) /\ KeepsMsgs(Opening) /\ KeepsMsgs({"GOTO_URL"})
    BY <1>3, ProcsKept, MsgsKept DEF LoadProcs, Opening
  <2>2. /\ UNCHANGED <<view, view_url, opened>> /\ (Dirty' => Dirty)
        /\ hp' = "StartINET" => hp = "StartINET"
        /\ hp = "StopINET" => hp' = "StopINET"
    BY <1>3 DEF create_connect, Starts, WaitDNR, Dirty, viewVars, inetVars, helperVars
  <2> QED  BY <2>1, <2>2, LoadQuiet
<1>4. CASE OpenSocket
  <2>1. KeepsProcs(LoadProcs) /\ KeepsMsgs(Opening) /\ KeepsMsgs({"GOTO_URL"})
    BY <1>4, ProcsKept, MsgsKept DEF LoadProcs, Opening
  <2>2. /\ UNCHANGED <<view, view_url, opened>> /\ (Dirty' => Dirty)
        /\ hp' = "StartINET" => hp = "StartINET"
        /\ hp = "StopINET" => hp' = "StopINET"
    BY <1>4 DEF OpenSocket, Dirty, viewVars, inetVars, helperVars
  <2> QED  BY <2>1, <2>2, LoadQuiet
<1>5. CASE Connect
  <2>1. KeepsProcs(LoadProcs) /\ KeepsMsgs(Opening) /\ KeepsMsgs({"GOTO_URL"})
    BY <1>5, ProcsKept, MsgsKept DEF LoadProcs, Opening
  <2>2. /\ UNCHANGED <<view, view_url, opened>> /\ (Dirty' => Dirty)
        /\ hp' = "StartINET" => hp = "StartINET"
        /\ hp = "StopINET" => hp' = "StopINET"
    BY <1>5 DEF Connect, Dirty, viewVars, inetVars, helperVars
  <2> QED  BY <2>1, <2>2, LoadQuiet
<1>6. CASE ConnectReturns
  <2>1. KeepsProcs(LoadProcs) /\ KeepsMsgs(Opening) /\ KeepsMsgs({"GOTO_URL"})
    BY <1>6, ProcsKept, MsgsKept DEF LoadProcs, Opening
  <2>2. /\ UNCHANGED <<view, view_url, opened>> /\ (Dirty' => Dirty)
        /\ hp' = "StartINET" => hp = "StartINET"
        /\ hp = "StopINET" => hp' = "StopINET"
    BY <1>6 DEF ConnectReturns, Dirty, viewVars, inetVars, helperVars
  <2> QED  BY <2>1, <2>2, LoadQuiet
<1>7. CASE SendPost
  <2>1. KeepsProcs(LoadProcs) /\ KeepsMsgs(Opening) /\ KeepsMsgs({"GOTO_URL"})
    BY <1>7, ProcsKept, MsgsKept DEF LoadProcs, Opening
  <2>2. /\ UNCHANGED <<view, view_url, opened>> /\ (Dirty' => Dirty)
        /\ hp' = "StartINET" => hp = "StartINET"
        /\ hp = "StopINET" => hp' = "StopINET"
    BY <1>7 DEF SendPost, Starts, Dirty, viewVars, inetVars, helperVars
  <2> QED  BY <2>1, <2>2, LoadQuiet
<1>8. CASE ResumeSend
  <2>1. KeepsProcs(LoadProcs) /\ KeepsMsgs(Opening) /\ KeepsMsgs({"GOTO_URL"})
    BY <1>8, ProcsKept, MsgsKept DEF LoadProcs, Opening
  <2>2. /\ UNCHANGED <<view, view_url, opened>> /\ (Dirty' => Dirty)
        /\ hp' = "StartINET" => hp = "StartINET"
        /\ hp = "StopINET" => hp' = "StopINET"
    BY <1>8 DEF ResumeSend, Starts, Dirty, viewVars, inetVars, helperVars
  <2> QED  BY <2>1, <2>2, LoadQuiet
<1>9. CASE bsend
  <2>1. KeepsProcs(LoadProcs) /\ KeepsMsgs(Opening) /\ KeepsMsgs({"GOTO_URL"})
    BY <1>9, ProcsKept, MsgsKept DEF LoadProcs, Opening
  <2>2. /\ UNCHANGED <<view, view_url, opened>> /\ (Dirty' => Dirty)
        /\ hp' = "StartINET" => hp = "StartINET"
        /\ hp = "StopINET" => hp' = "StopINET"
    BY <1>9 DEF bsend, Dirty, viewVars, inetVars, helperVars
  <2> QED  BY <2>1, <2>2, LoadQuiet
<1>10. CASE get_answer
  <2>1. KeepsProcs(LoadProcs) /\ KeepsMsgs(Opening) /\ KeepsMsgs({"GOTO_URL"})
    BY <1>10, ProcsKept, MsgsKept DEF LoadProcs, Opening
  <2>2. /\ UNCHANGED <<view, view_url, opened>> /\ (Dirty' => Dirty)
        /\ hp' = "StartINET" => hp = "StartINET"
        /\ hp = "StopINET" => hp' = "StopINET"
    BY <1>10 DEF get_answer, Starts, Dirty, viewVars, inetVars, helperVars
  <2> QED  BY <2>1, <2>2, LoadQuiet
<1>11. CASE PostData
  <2>1. KeepsProcs(LoadProcs) /\ KeepsMsgs(Opening) /\ KeepsMsgs({"GOTO_URL"})
    BY <1>11, ProcsKept, MsgsKept DEF LoadProcs, Opening
  <2>2. /\ UNCHANGED <<view, view_url, opened>> /\ (Dirty' => Dirty)
        /\ hp' = "StartINET" => hp = "StartINET"
        /\ hp = "StopINET" => hp' = "StopINET"
    BY <1>11 DEF PostData, Dirty, viewVars, inetVars, helperVars
  <2> QED  BY <2>1, <2>2, LoadQuiet
<1>12. CASE end_socket
  <2>1. KeepsProcs(LoadProcs) /\ KeepsMsgs(Opening) /\ KeepsMsgs({"GOTO_URL"})
    BY <1>12, ProcsKept, MsgsKept DEF LoadProcs, Opening
  <2>2. /\ UNCHANGED <<view, view_url, opened>> /\ (Dirty' => Dirty)
        /\ hp' = "StartINET" => hp = "StartINET"
        /\ hp = "StopINET" => hp' = "StopINET"
    BY <1>12 DEF end_socket, Starts, Dirty, viewVars, inetVars, helperVars
  <2> QED  BY <2>1, <2>2, LoadQuiet
<1>13. CASE free_socket
  <2>1. KeepsProcs(LoadProcs) /\ KeepsMsgs(Opening) /\ KeepsMsgs({"GOTO_URL"})
    BY <1>13, ProcsKept, MsgsKept DEF LoadProcs, Opening
  <2>2. /\ UNCHANGED <<view, view_url, opened>> /\ (Dirty' => Dirty)
        /\ hp' = "StartINET" => hp = "StartINET"
        /\ hp = "StopINET" => hp' = "StopINET"
    BY <1>13 DEF free_socket, FreeSocket, FreeUrl, Starts, Dirty, viewVars, inetVars, helperVars
  <2> QED  BY <2>1, <2>2, LoadQuiet
<1>14. CASE StopINET
  <2>1. /\ KeepsProcs({"GotoLink", "StartGetFile"}) /\ hp' = "StopINET"
        /\ UNCHANGED <<mmiq, view, view_url, opened>>
    BY <1>14, ProcsKept DEF StopINET, viewVars
  <2>2. OneOpening'
    BY <1>0, <2>1 DEF OneOpening, KeepsProcs, Queued, Sent, Pages
  <2>3. OneLoading'
    BY <1>0, <2>1 DEF OneLoading, KeepsProcs, Queued, Sent
  <2> QED  BY <2>1, <2>2, <2>3 DEF LoadInv, UrlFreed
<1>15. CASE StopINETFrees
  <2>1. ~ Dirty'
    BY <1>15 DEF StopINETFrees, FreeSocket, FreeUrl, Dirty
  <2>2. KeepsProcs(LoadProcs) /\ UNCHANGED <<mmiq, view, view_url, opened>> /\ hp' = "idle"
    BY <1>15, ProcsKept DEF StopINETFrees, FreeSocket
  <2>3. OneOpening'
    BY <1>0, <2>2 DEF OneOpening, KeepsProcs, LoadProcs, Queued, Sent, Pages
  <2>4. OneLoading'
    BY <1>0, <2>2 DEF OneLoading, KeepsProcs, LoadProcs, Queued, Sent
  <2> QED  BY <2>1, <2>3, <2>4 DEF LoadInv, UrlFreed
<1>16. CASE GotoLink
  <2>1. /\ Queued("GotoLink") /\ hp = "idle" /\ ~ In(helperq', "GotoLink")
        /\ Once(helperq', "GotoLink") /\ ~ Queued("StartGetFile")
        /\ ~ First(helperq, "StopINET", {"GotoLink", "StartGetFile"})
    BY <1>16, <1>0, DequeueStep DEF GotoLink, OneOpening, OneLoading, Queued
  <2>2. KeepsProcs({"StartGetFile", "StopINET"})
    BY <1>16, ProcsKept
  <2>3. ~ In(helperq', "StartGetFile") /\ Once(helperq', "StartGetFile")
        /\ Before(helperq', "StartGetFile", "GotoLink")
    BY <1>0, <2>1, <2>2 DEF KeepsProcs, OneLoading, Queued
  <2>4. view = 0 /\ ~ Sent(Opening) /\ ~ Dirty
    BY <1>0, <2>1 DEF OneOpening, UrlFreed
  <2>5. Single(mmiq', Opening)
    BY <1>16, <2>4, QueueTypes, PostStep DEF GotoLink, Opening, Sent
  <2>6. UNCHANGED <<view, view_url, opened, hp, URL, FNCACHE>>
    BY <1>16 DEF GotoLink, viewVars, inetVars
  <2>7. OneOpening'
    BY <1>0, <2>1, <2>4, <2>5, <2>6 DEF OneOpening, Queued, Pages
  <2>8. OneLoading'
    BY <2>1, <2>3, <2>6 DEF OneLoading, Queued
  <2> QED  BY <2>4, <2>6, <2>7, <2>8 DEF LoadInv, UrlFreed, Dirty
<1>17. CASE OnDNR
  <2>1. KeepsProcs(LoadProcs) /\ KeepsMsgs(Opening) /\ KeepsMsgs({"GOTO_URL"})
    BY <1>17, ProcsKept, MsgsKept DEF LoadProcs, Opening
  <2>2. /\ UNCHANGED <<view, view_url, opened>> /\ (Dirty' => Dirty)
        /\ hp' = "StartINET" => hp = "StartINET"
        /\ hp = "StopINET" => hp' = "StopINET"
    BY <1>17 DEF OnDNR, Dirty, viewVars, inetVars, helperVars
  <2> QED  BY <2>1, <2>2, LoadQuiet
<1>18. CASE OnConnected
  <2>1. KeepsProcs(LoadProcs) /\ KeepsMsgs(Opening) /\ KeepsMsgs({"GOTO_URL"})
    BY <1>18, ProcsKept, MsgsKept DEF LoadProcs, Opening
  <2>2. /\ UNCHANGED <<view, view_url, opened>> /\ (Dirty' => Dirty)
        /\ hp' = "StartINET" => hp = "StartINET"
        /\ hp = "StopINET" => hp' = "StopINET"
    BY <1>18 DEF OnConnected, Dirty, viewVars, inetVars, helperVars
  <2> QED  BY <2>1, <2>2, LoadQuiet
<1>19. CASE OnDataRead
  <2>1. KeepsProcs(LoadProcs) /\ KeepsMsgs(Opening) /\ KeepsMsgs({"GOTO_URL"})
    BY <1>19, ProcsKept, MsgsKept DEF LoadProcs, Opening
  <2>2. /\ UNCHANGED <<view, view_url, opened>> /\ (Dirty' => Dirty)
        /\ hp' = "StartINET" => hp = "StartINET"
        /\ hp = "StopINET" => hp' = "StopINET"
    BY <1>19 DEF OnDataRead, Dirty, viewVars, inetVars, helperVars
  <2> QED  BY <2>1, <2>2, LoadQuiet
<1>20. CASE OnBufferFree
  <2>1. KeepsProcs(LoadProcs) /\ KeepsMsgs(Opening) /\ KeepsMsgs({"GOTO_URL"})
    BY <1>20, ProcsKept, MsgsKept DEF LoadProcs, Opening
  <2>2. /\ UNCHANGED <<view, view_url, opened>> /\ (Dirty' => Dirty)
        /\ hp' = "StartINET" => hp = "StartINET"
        /\ hp = "StopINET" => hp' = "StopINET"
    BY <1>20 DEF OnBufferFree, Dirty, viewVars, inetVars, helperVars
  <2> QED  BY <2>1, <2>2, LoadQuiet
<1>21. CASE OnClosed
  <2>1. KeepsProcs(LoadProcs) /\ KeepsMsgs(Opening) /\ KeepsMsgs({"GOTO_URL"})
    BY <1>21, ProcsKept, MsgsKept DEF LoadProcs, Opening, Ends
  <2>2. /\ UNCHANGED <<view, view_url, opened>> /\ (Dirty' => Dirty)
        /\ hp' = "StartINET" => hp = "StartINET"
        /\ hp = "StopINET" => hp' = "StopINET"
    BY <1>21 DEF OnClosed, Dirty, viewVars, inetVars, helperVars
  <2> QED  BY <2>1, <2>2, LoadQuiet
<1>22. CASE OnDataArrived
  <2>1. KeepsProcs(LoadProcs) /\ KeepsMsgs(Opening) /\ KeepsMsgs({"GOTO_URL"})
    BY <1>22, ProcsKept, MsgsKept DEF LoadProcs, Opening
  <2>2. /\ UNCHANGED <<view, view_url, opened>> /\ (Dirty' => Dirty)
        /\ hp' = "StartINET" => hp = "StartINET"
        /\ hp = "StopINET" => hp' = "StopINET"
    BY <1>22 DEF OnDataArrived, Dirty, viewVars, inetVars, helperVars
  <2> QED  BY <2>1, <2>2, LoadQuiet
<1>23. CASE OnDataEnd
  <2>1. KeepsProcs(LoadProcs) /\ KeepsMsgs(Opening) /\ KeepsMsgs({"GOTO_URL"})
    BY <1>23, ProcsKept, MsgsKept DEF LoadProcs, Opening
  <2>2. /\ UNCHANGED <<view, view_url, opened>> /\ (Dirty' => Dirty)
        /\ hp' = "StartINET" => hp = "StartINET"
        /\ hp = "StopINET" => hp' = "StopINET"
    BY <1>23 DEF OnDataEnd, Dirty, viewVars, inetVars, helperVars
  <2> QED  BY <2>1, <2>2, LoadQuiet
<1>24. CASE OnGotoUrl
  <2>1. Sent(Opening) /\ Sent({"GOTO_URL"}) /\ ~ Has(mmiq', Opening) /\ Single(mmiq', Opening)
    BY <1>24, <1>0, ConsumeStep DEF OnGotoUrl, OneOpening, Sent, Opening
  <2>2. view = 0 /\ ~ Queued("GotoLink") /\ ~ Queued("StartGetFile") /\ hp # "StartINET"
    BY <1>0, <2>1 DEF OneOpening, OneLoading
  <2>3. /\ Once(helperq', "StartGetFile") /\ Before(helperq', "StartGetFile", "GotoLink")
        /\ KeepsProcs({"GotoLink", "StopINET"})
    BY <1>24, <1>0, <2>2, SubprocStep DEF OnGotoUrl, OneLoading, Queued, Procs
  <2>4. ~ Has(mmiq', {"GOTO_URL"})
    BY <2>1 DEF Has, Opening
  <2>5. opened \in Nat /\ view' = opened + 1 /\ UNCHANGED <<hp, URL, FNCACHE>>
    BY <1>24 DEF OnGotoUrl, inetVars, Types, ViewTypes, Pages
  <2>6. OneOpening'
    BY <1>0, <2>1, <2>2, <2>3, <2>5 DEF OneOpening, KeepsProcs, Queued, Sent
  <2>7. OneLoading'
    BY <2>2, <2>3, <2>4, <2>5 DEF OneLoading, Sent
  <2>8. UrlFreed'
    BY <1>0, <2>2, <2>3, <2>5 DEF UrlFreed, Dirty, KeepsProcs
  <2> QED  BY <2>6, <2>7, <2>8 DEF LoadInv
<1>25. CASE OnGuiDestroyed
  <2>1. Sent(Opening) /\ ~ Has(mmiq', Opening) /\ Single(mmiq', Opening)
    BY <1>25, <1>0, ConsumeStep DEF OnGuiDestroyed, OneOpening, Sent, Opening
  <2>2. view = 0 /\ ~ Queued("GotoLink")
    BY <1>0, <2>1 DEF OneOpening
  <2>3. Once(helperq', "GotoLink") /\ KeepsProcs({"StartGetFile", "StopINET"})
    BY <1>25, <2>2, SubprocStep DEF OnGuiDestroyed, Queued, Procs
  <2>4. ~ Has(mmiq', {"GOTO_URL"})
    BY <2>1 DEF Has, Opening
  <2>5. UNCHANGED <<view, view_url, opened, hp, URL, FNCACHE>>
    BY <1>25 DEF OnGuiDestroyed, viewVars, inetVars
  <2>6. KeepsMsgs({"GOTO_URL"})
    BY <1>25, MsgsKept
  <2>7. OneOpening'
    BY <1>0, <2>1, <2>2, <2>3, <2>5 DEF OneOpening, Sent, Pages
  <2>8. OneLoading'
    BY <1>0, <2>3, <2>5, <2>6 DEF OneLoading, KeepsProcs, KeepsMsgs, Queued, Sent
  <2>9. UrlFreed'
    BY <1>0, <2>3, <2>5 DEF UrlFreed, Dirty, KeepsProcs, Queued
  <2> QED  BY <2>7, <2>8, <2>9 DEF LoadInv
<1>26. CASE resend
  <2>1. KeepsProcs(LoadProcs) /\ KeepsMsgs(Opening) /\ KeepsMsgs({"GOTO_URL"})
    BY <1>26, ProcsKept, MsgsKept DEF LoadProcs, Opening
  <2>2. /\ UNCHANGED <<view, view_url, opened>> /\ (Dirty' => Dirty)
        /\ hp' = "StartINET" => hp = "StartINET"
        /\ hp = "StopINET" => hp' = "StopINET"
    BY <1>26 DEF resend, Dirty, viewVars, inetVars, helperVars
  <2> QED  BY <2>1, <2>2, LoadQuiet
<1>27. CASE Leave
  <2>1. view # 0 /\ ~ Queued("GotoLink") /\ ~ Sent(Opening) /\ opened + 1 \in Pages
    BY <1>27, <1>0 DEF Leave, MayPress, OneOpening
  <2>2. KeepsProcs({"GotoLink", "StartGetFile"}) /\ KeepsMsgs({"GOTO_URL"})
    BY <1>27, ProcsKept, MsgsKept
  <2>3. Single(mmiq', Opening)
    BY <1>27, <2>1, QueueTypes, PostStep DEF Leave, Opening, Sent
  <2>4. /\ First(helperq, "StopINET", {"GotoLink", "StartGetFile"})
           => First(helperq', "StopINET", {"GotoLink", "StartGetFile"})
        /\ ~ Queued("StartGetFile")
           => First(helperq', "StopINET", {"GotoLink", "StartGetFile"})
    BY <1>27, <2>1, SubprocStep DEF Leave, Queued, Procs
  <2>5. view' = 0 /\ view_url' = NULL /\ UNCHANGED <<opened, hp, URL, FNCACHE>>
    BY <1>27 DEF Leave, inetVars
  <2>6. OneOpening'
    BY <1>0, <2>1, <2>2, <2>3, <2>5 DEF OneOpening, KeepsProcs, Queued, Pages
  <2>7. OneLoading'
    BY <1>0, <2>2, <2>5 DEF OneLoading, KeepsProcs, KeepsMsgs, Queued, Sent
  <2>8. UrlFreed'
    BY <1>0, <2>4, <2>5 DEF UrlFreed, Dirty
  <2> QED  BY <2>6, <2>7, <2>8 DEF LoadInv
<1>28. CASE PressStop
  <2>1. /\ KeepsProcs({"GotoLink", "StartGetFile"})
        /\ UNCHANGED <<mmiq, view, view_url, opened, hp, URL, FNCACHE>>
    BY <1>28, ProcsKept DEF PressStop, osVars, viewVars, inetVars
  <2>2. First(helperq, "StopINET", {"GotoLink", "StartGetFile"})
          => First(helperq', "StopINET", {"GotoLink", "StartGetFile"})
    BY <1>28, SubprocStep DEF PressStop, Procs
  <2>3. OneOpening'
    BY <1>0, <2>1 DEF OneOpening, KeepsProcs, Queued, Sent, Pages
  <2>4. OneLoading'
    BY <1>0, <2>1 DEF OneLoading, KeepsProcs, Queued, Sent
  <2>5. UrlFreed'
    BY <1>0, <2>1, <2>2 DEF UrlFreed, Dirty, KeepsProcs, Queued
  <2> QED  BY <2>3, <2>4, <2>5 DEF LoadInv
<1>29. CASE Network
  <2>1. KeepsProcs(LoadProcs)
    BY <1>29, ProcsKept
  <2>2. KeepsMsgs(Opening) /\ KeepsMsgs({"GOTO_URL"})
    <3>1. /\ SocketEvents \cap Opening = {} /\ "DNR" \notin Opening
          /\ SocketEvents \cap {"GOTO_URL"} = {} /\ "DNR" \notin {"GOTO_URL"}
      BY DEF SocketEvents, Opening
    <3> QED  BY <1>29, <3>1, MsgsKept
  <2>3. UNCHANGED <<view, view_url, opened, hp, URL, FNCACHE>>
    BY <1>29 DEF Network, NetConnects, NetBufferFree, ServerAnswers, RemoteCloses, LocalCloses,
                DnsAnswers, viewVars, inetVars, helperVars
  <2> QED  BY <2>1, <2>2, <2>3, LoadQuiet DEF Dirty
<1> QED
  BY <1>1, <1>2, <1>3, <1>4, <1>5, <1>6, <1>7, <1>8, <1>9, <1>10, <1>11, <1>12, <1>13, <1>14, <1>15, <1>16, <1>17, <1>18, <1>19, <1>20, <1>21, <1>22, <1>23, <1>24, <1>25, <1>26, <1>27, <1>28, <1>29
     DEF Next, Helper, Mmi, User

-----------------------------------------------------------------------------
(***************************************************************************)
(* The states of the connections, and the messages about their ends.       *)
(***************************************************************************)

StatesKept == \A s \in Socks : conns'[s].st = conns[s].st
\* The connection t comes to the state x, the others stay as they are.
Becomes(t, x) == \A s \in Socks : conns'[s].st = IF s = t THEN x ELSE conns[s].st

LEMMA ClosedStates ==
  ASSUME Types, conns' = Closed(sock)
  PROVE  IF Alive(sock) THEN sock \in Socks /\ Becomes(sock, "closing") ELSE StatesKept
<1>1. conns \in [Socks -> SoundConns] /\ \A s \in Socks : conns[s] \in Conns
  BY DEF Types, OsTypes, SoundConns
<1>2. CASE Alive(sock)
  <2>1. sock \in Socks /\ conns' = [conns EXCEPT ![sock] = [conns[sock] EXCEPT !.st = "closing"]]
    BY <1>1, <1>2 DEF Closed, Alive
  <2> QED  BY <1>1, <1>2, <2>1 DEF Becomes, Conns
<1>3. CASE ~ Alive(sock)
  BY <1>3 DEF Closed, StatesKept
<1> QED  BY <1>2, <1>3

\* What a step does to the states.
LEMMA StatesStep ==
  ASSUME Types
  PROVE  /\ StartINET \/ StartINETQueues \/ create_connect \/ ConnectReturns \/ SendPost
            \/ ResumeSend \/ bsend \/ get_answer \/ PostData \/ free_socket \/ StopINETFrees
            \/ GotoLink \/ Mmi \/ User => StatesKept
         /\ OpenSocket => \/ sock' = NoSock /\ hp' = "idle" /\ StatesKept
                          \/ /\ sock' \in Socks /\ hp' = "connect" /\ Becomes(sock', "new")
                             /\ conns[sock'].st = "free" /\ ~ Undelivered(sock')
         /\ Connect => \/ sock' = NoSock /\ hp' = "idle" /\ conns' = Closed(sock)
                       \/ sock' = sock /\ hp' = "connecting" /\ Becomes(sock, "connecting")
         /\ \A s \in Socks :
              /\ NetConnects(s) => conns[s].st = "connecting" /\ Becomes(s, "open")
              /\ RemoteCloses(s) => /\ conns[s].st \in {"connecting", "open"}
                                    /\ Becomes(s, "remoteClosed")
              /\ LocalCloses(s) => conns[s].st = "closing" /\ Becomes(s, "free")
              /\ NetBufferFree(s) \/ ServerAnswers(s) => StatesKept
         /\ \A q : DnsAnswers(q) => StatesKept
<1>1. conns \in [Socks -> SoundConns] /\ \A s \in Socks : conns[s] \in Conns
  BY DEF Types, OsTypes, SoundConns
<1>2. ASSUME NEW s \in Socks, NEW c \in Conns, conns' = [conns EXCEPT ![s] = c]
      PROVE  Becomes(s, c.st)
  BY <1>1, <1>2 DEF Becomes
<1>3. ASSUME NEW s \in Socks, NEW x \in States, conns' = [conns EXCEPT ![s].st = x]
      PROVE  Becomes(s, x)
  <2>1. conns' = [conns EXCEPT ![s] = [conns[s] EXCEPT !.st = x]]
    BY <1>1, <1>3
  <2>2. [conns[s] EXCEPT !.st = x] \in Conns /\ [conns[s] EXCEPT !.st = x].st = x
    BY <1>1 DEF Conns
  <2> QED  BY <1>2, <2>1, <2>2
<1>4. \A s \in Socks : Becomes(s, conns[s].st) => StatesKept
  BY DEF Becomes, StatesKept
<1>5. UNCHANGED conns => StatesKept
  BY DEF StatesKept
<1>6. StartINET \/ StartINETQueues \/ create_connect \/ ConnectReturns \/ SendPost
      \/ ResumeSend \/ PostData \/ free_socket \/ StopINETFrees \/ GotoLink \/ Mmi \/ User
      => UNCHANGED conns
  BY DEF StartINET, StartINETQueues, create_connect, ConnectReturns, SendPost, ResumeSend,
         PostData, free_socket, StopINETFrees, GotoLink, Mmi, User, OnDNR, OnConnected,
         OnDataRead, OnBufferFree, OnClosed, OnDataArrived, OnDataEnd, OnGotoUrl,
         OnGuiDestroyed, resend, Leave, PressStop, osVars
<1>7. bsend => StatesKept
  <2> SUFFICES ASSUME bsend, ~ UNCHANGED conns PROVE StatesKept
    BY <1>5
  <2>1. PICK full \in BOOLEAN :
          conns' = [conns EXCEPT ![sock].req = sendq.req, ![sock].got = @ + 1,
                                 ![sock].full = full]
    BY DEF bsend
  <2>2. sock \in Socks /\ sendq.req \in Pages \cup {0}
    BY DEF bsend, Alive, Types, InetTypes, HelperTypes
  <2> DEFINE c == [conns[sock] EXCEPT !.req = sendq.req, !.got = @ + 1, !.full = full]
  <2>3. conns' = [conns EXCEPT ![sock] = c]
    BY <1>1, <2>1, <2>2
  <2>4. c \in Conns /\ c.st = conns[sock].st
    <3>1. conns[sock].got + 1 \in Nat
      BY <1>1, <2>2 DEF Conns
    <3> QED  BY <1>1, <2>2, <3>1 DEF Conns
  <2> HIDE DEF c
  <2> QED  BY <1>2, <1>4, <2>2, <2>3, <2>4
<1>8. get_answer => StatesKept
  <2> SUFFICES ASSUME get_answer, ~ UNCHANGED conns PROVE StatesKept
    BY <1>5
  <2>1. conns' = [conns EXCEPT ![sock].rd = @ + 1] /\ sock \in Socks
    BY DEF get_answer, Alive
  <2> DEFINE c == [conns[sock] EXCEPT !.rd = @ + 1]
  <2>2. conns' = [conns EXCEPT ![sock] = c]
    BY <1>1, <2>1
  <2>3. c \in Conns /\ c.st = conns[sock].st
    <3>1. conns[sock] \in Conns /\ conns[sock].rd + 1 \in Nat
      BY <1>1, <2>1 DEF Conns
    <3> QED  BY <3>1 DEF Conns
  <2> HIDE DEF c
  <2> QED  BY <1>2, <1>4, <2>1, <2>2, <2>3
<1>9. OpenSocket => \/ sock' = NoSock /\ hp' = "idle" /\ StatesKept
                    \/ /\ sock' \in Socks /\ hp' = "connect" /\ Becomes(sock', "new")
                       /\ conns[sock'].st = "free" /\ ~ Undelivered(sock')
  <2>1. [NoConn EXCEPT !.st = "new"] \in Conns /\ [NoConn EXCEPT !.st = "new"].st = "new"
    BY NewConnTypes DEF SoundConns, States, NoConn
  <2> QED  BY <1>2, <1>5, <2>1 DEF OpenSocket
<1>10. Connect => \/ sock' = NoSock /\ hp' = "idle" /\ conns' = Closed(sock)
                  \/ sock' = sock /\ hp' = "connecting" /\ Becomes(sock, "connecting")
  <2>1. Connect => sock \in Socks
    BY DEF Connect, Types, HelperTypes
  <2> QED  BY <1>3, <2>1 DEF Connect, States
<1>11. ASSUME NEW s \in Socks
       PROVE  /\ NetConnects(s) => conns[s].st = "connecting" /\ Becomes(s, "open")
              /\ RemoteCloses(s) => /\ conns[s].st \in {"connecting", "open"}
                                    /\ Becomes(s, "remoteClosed")
  BY <1>3 DEF NetConnects, RemoteCloses, States
<1>12. ASSUME NEW s \in Socks PROVE LocalCloses(s) => conns[s].st = "closing" /\ Becomes(s, "free")
  <2>1. NoConn \in Conns /\ NoConn.st = "free"
    BY NewConnTypes DEF SoundConns, NoConn
  <2> QED  BY <1>2, <2>1 DEF LocalCloses
<1>13. ASSUME NEW s \in Socks, NetBufferFree(s) PROVE StatesKept
  <2> DEFINE c == [conns[s] EXCEPT !.full = FALSE]
  <2>1. conns' = [conns EXCEPT ![s] = c]
    BY <1>1, <1>13 DEF NetBufferFree
  <2>2. c \in Conns /\ c.st = conns[s].st
    BY <1>1 DEF Conns
  <2> HIDE DEF c
  <2> QED  BY <1>2, <1>4, <2>1, <2>2
<1>14. ASSUME NEW s \in Socks, ServerAnswers(s) PROVE StatesKept
  <2>1. PICK r \in Responses : conns' = [conns EXCEPT ![s].resp = r, ![s].sent = @ + 1]
    BY <1>14 DEF ServerAnswers
  <2>2. r \in Seq(SegKinds)
    BY WorldsAssumption DEF Responses, Types
  <2> DEFINE c == [conns[s] EXCEPT !.resp = r, !.sent = @ + 1]
  <2>3. conns' = [conns EXCEPT ![s] = c]
    BY <1>1, <2>1
  <2>4. c \in Conns /\ c.st = conns[s].st
    <3>1. conns[s].sent + 1 \in Nat
      BY <1>1 DEF Conns
    <3> QED  BY <1>1, <2>2, <3>1 DEF Conns
  <2> HIDE DEF c
  <2> QED  BY <1>2, <1>4, <2>3, <2>4
<1>15. \A q : DnsAnswers(q) => StatesKept
  BY <1>5 DEF DnsAnswers
<1> QED  BY <1>5, <1>6, <1>7, <1>8, <1>9, <1>10, <1>11, <1>12, <1>13, <1>14, <1>15

\* The messages about ends when one is taken, one is posted, or a connection
\* comes to another state.
LEMMA EndsTaken ==
  ASSUME NEW S, NEW q \in Seq(S), q # <<>>, NEW c, ClosesIn(q, c)
  PROVE  /\ ClosesIn(Tail(q), c)
         /\ \A s : RemoteEnd(Tail(q), s) => RemoteEnd(q, s)
         /\ Head(q).kind \in Ends => ~ RemoteEnd(Tail(q), Head(q).arg)
         /\ Head(q).kind = "REMOTE_CLOSED" => /\ c[Head(q).arg].st \in Ended
                                              /\ RemoteEnd(q, Head(q).arg)
         /\ Head(q).kind = "CLOSED" => c[Head(q).arg].st = "free"
<1> DEFINE t == Tail(q)  n == Len(q)
<1>1. /\ n \in Nat \ {0} /\ DOMAIN q = 1 .. n /\ DOMAIN t = 1 .. n - 1
      /\ Head(q) = q[1] /\ \A i \in 1 .. n - 1 : t[i] = q[i + 1]
  BY TakenIndices
<1> HIDE DEF t, n
<1>2. \A i \in 1 .. n - 1 : i + 1 \in 1 .. n /\ t[i] = q[i + 1]
  BY <1>1
<1>3. /\ \A i \in 1 .. n : q[i].kind = "REMOTE_CLOSED" => c[q[i].arg].st \in Ended
      /\ \A i \in 1 .. n : q[i].kind = "CLOSED" => c[q[i].arg].st = "free"
      /\ \A i, j \in 1 .. n :
           i < j /\ q[i].kind \in Ends /\ q[j].kind = "REMOTE_CLOSED" => q[i].arg # q[j].arg
  BY <1>1 DEF ClosesIn
<1>4. ClosesIn(t, c)
  <2>1. \A i \in 1 .. n - 1 : t[i].kind = "REMOTE_CLOSED" => c[t[i].arg].st \in Ended
    BY <1>2, <1>3
  <2>2. \A i \in 1 .. n - 1 : t[i].kind = "CLOSED" => c[t[i].arg].st = "free"
    BY <1>2, <1>3
  <2>3. ASSUME NEW i \in 1 .. n - 1, NEW j \in 1 .. n - 1, i < j, t[i].kind \in Ends,
               t[j].kind = "REMOTE_CLOSED"
        PROVE  t[i].arg # t[j].arg
    <3>1. /\ i + 1 \in 1 .. n /\ j + 1 \in 1 .. n /\ i + 1 < j + 1
          /\ t[i] = q[i + 1] /\ t[j] = q[j + 1]
      BY <1>1, <1>2, <2>3
    <3> QED  BY <1>3, <2>3, <3>1
  <2> QED  BY <1>1, <2>1, <2>2, <2>3 DEF ClosesIn
<1>5. \A s : RemoteEnd(t, s) => RemoteEnd(q, s)
  <2> SUFFICES ASSUME NEW s, NEW i \in 1 .. n - 1, t[i].kind = "REMOTE_CLOSED", t[i].arg = s
               PROVE  RemoteEnd(q, s)
    BY <1>1 DEF RemoteEnd
  <2>1. i + 1 \in DOMAIN q /\ q[i + 1] = t[i]
    BY <1>1, <1>2
  <2> QED  BY <2>1 DEF RemoteEnd
<1>6. Head(q).kind \in Ends => ~ RemoteEnd(t, Head(q).arg)
  <2> SUFFICES ASSUME q[1].kind \in Ends, NEW i \in 1 .. n - 1,
                      t[i].kind = "REMOTE_CLOSED", t[i].arg = q[1].arg
               PROVE  FALSE
    BY <1>1 DEF RemoteEnd
  <2>1. 1 \in 1 .. n /\ i + 1 \in 1 .. n /\ 1 < i + 1 /\ q[i + 1] = t[i]
    BY <1>1, <1>2
  <2> QED  BY <1>3, <2>1
<1>7. /\ Head(q).kind = "REMOTE_CLOSED" => /\ c[Head(q).arg].st \in Ended
                                           /\ RemoteEnd(q, Head(q).arg)
      /\ Head(q).kind = "CLOSED" => c[Head(q).arg].st = "free"
  BY <1>1, <1>3 DEF RemoteEnd
<1> QED  BY <1>4, <1>5, <1>6, <1>7 DEF t

LEMMA EndsAdded ==
  ASSUME NEW S, NEW q \in Seq(S), NEW m \in S, NEW c, ClosesIn(q, c),
         m.kind = "REMOTE_CLOSED" =>
           /\ c[m.arg].st \in Ended
           /\ \A i \in DOMAIN q : q[i].kind \in Ends => q[i].arg # m.arg,
         m.kind = "CLOSED" => c[m.arg].st = "free"
  PROVE  /\ ClosesIn(Append(q, m), c)
         /\ \A s : RemoteEnd(Append(q, m), s) =>
                     RemoteEnd(q, s) \/ (m.kind = "REMOTE_CLOSED" /\ m.arg = s)
<1> DEFINE t == Append(q, m)  n == Len(q)
<1>1. /\ n \in Nat /\ DOMAIN q = 1 .. n /\ DOMAIN t = 1 .. n + 1
      /\ t[n + 1] = m /\ \A i \in 1 .. n : t[i] = q[i]
  BY AddedIndices
<1> HIDE DEF t, n
<1>2. \A i \in 1 .. n + 1 : (i = n + 1 /\ t[i] = m) \/ (i \in 1 .. n /\ i < n + 1 /\ t[i] = q[i])
  BY <1>1
<1>3. /\ \A i \in 1 .. n : q[i].kind = "REMOTE_CLOSED" => c[q[i].arg].st \in Ended
      /\ \A i \in 1 .. n : q[i].kind = "CLOSED" => c[q[i].arg].st = "free"
      /\ \A i, j \in 1 .. n :
           i < j /\ q[i].kind \in Ends /\ q[j].kind = "REMOTE_CLOSED" => q[i].arg # q[j].arg
  BY <1>1 DEF ClosesIn
<1>4. \A i \in 1 .. n + 1 : t[i].kind = "REMOTE_CLOSED" => c[t[i].arg].st \in Ended
  BY <1>2, <1>3
<1>5. \A i \in 1 .. n + 1 : t[i].kind = "CLOSED" => c[t[i].arg].st = "free"
  BY <1>2, <1>3
<1>6. ASSUME NEW i \in 1 .. n + 1, NEW j \in 1 .. n + 1, i < j, t[i].kind \in Ends,
             t[j].kind = "REMOTE_CLOSED"
      PROVE  t[i].arg # t[j].arg
  <2>1. i \in 1 .. n /\ t[i] = q[i]
    BY <1>1, <1>2, <1>6
  <2>2. CASE j = n + 1
    BY <1>1, <1>6, <2>1, <2>2
  <2>3. CASE j # n + 1
    BY <1>2, <1>3, <1>6, <2>1, <2>3
  <2> QED  BY <2>2, <2>3
<1>7. ClosesIn(t, c)
  BY <1>1, <1>4, <1>5, <1>6 DEF ClosesIn
<1>8. \A s : RemoteEnd(t, s) => RemoteEnd(q, s) \/ (m.kind = "REMOTE_CLOSED" /\ m.arg = s)
  BY <1>1, <1>2 DEF RemoteEnd
<1> QED  BY <1>7, <1>8 DEF t

LEMMA EndsStates ==
  ASSUME NEW q, NEW c, NEW d, ClosesIn(q, c),
         \A i \in DOMAIN q : q[i].kind \in Ends =>
           /\ c[q[i].arg].st \in Ended => d[q[i].arg].st \in Ended
           /\ c[q[i].arg].st = "free" => d[q[i].arg].st = "free"
  PROVE  ClosesIn(q, d)
BY DEF ClosesIn, Ends

\* A message about an end is about a connection.
LEMMA EndsTyped ==
  ASSUME Types
  PROVE  /\ \A i \in DOMAIN mmiq : mmiq[i].kind \in SocketEvents => mmiq[i].arg \in Socks
         /\ \A k \in SocketEvents : Handles(k) => Head(mmiq).arg \in Socks
         /\ Ends \subseteq SocketEvents
<1>1. mmiq \in Seq(Messages) /\ \A i \in DOMAIN mmiq : mmiq[i] \in Messages
  BY DEF Types, OsTypes
<1>2. \A m \in Messages : m.kind \in SocketEvents => m.arg \in Socks
  BY DEF Messages, SocketEvents, Opening
<1>3. \A k \in SocketEvents : Handles(k) => Head(mmiq) \in Messages /\ Head(mmiq).kind = k
  BY QueueTypes DEF Handles
<1> QED  BY <1>1, <1>2, <1>3 DEF Ends, SocketEvents

\* What an action does to the queue of messages when it posts none about an end.
QuietMsgs ==
  \/ UNCHANGED mmiq
  \/ mmiq # <<>> /\ Consume
  \/ \E m \in Messages : /\ m.kind \notin Ends
                         /\ Post(m) \/ (mmiq # <<>> /\ mmiq' = Append(Tail(mmiq), m))

LEMMA QuietEnds ==
  ASSUME Types, QuietMsgs, NEW c, ClosesIn(mmiq, c)
  PROVE  ClosesIn(mmiq', c) /\ \A s : RemoteEnd(mmiq', s) => RemoteEnd(mmiq, s)
<1>1. mmiq \in Seq(Messages)
  BY DEF Types, OsTypes
<1>2. CASE UNCHANGED mmiq
  BY <1>2
<1>3. ASSUME mmiq # <<>>
      PROVE  /\ Tail(mmiq) \in Seq(Messages) /\ ClosesIn(Tail(mmiq), c)
             /\ \A s : RemoteEnd(Tail(mmiq), s) => RemoteEnd(mmiq, s)
  BY <1>1, <1>3, EndsTaken, TakenIndices
<1>4. ASSUME NEW m \in Messages, m.kind \notin Ends, Post(m)
      PROVE  ClosesIn(mmiq', c) /\ \A s : RemoteEnd(mmiq', s) => RemoteEnd(mmiq, s)
  <2>1. m.kind # "REMOTE_CLOSED" /\ m.kind # "CLOSED" /\ mmiq' = Append(mmiq, m)
    BY <1>4 DEF Ends, Post
  <2>2. ClosesIn(Append(mmiq, m), c)
    BY <1>1, <2>1, EndsAdded
  <2>3. \A s : RemoteEnd(Append(mmiq, m), s) => RemoteEnd(mmiq, s)
    BY <1>1, <2>1, EndsAdded
  <2> QED  BY <2>1, <2>2, <2>3
<1>5. ASSUME NEW m \in Messages, m.kind \notin Ends, mmiq # <<>>,
             mmiq' = Append(Tail(mmiq), m)
      PROVE  ClosesIn(mmiq', c) /\ \A s : RemoteEnd(mmiq', s) => RemoteEnd(mmiq, s)
  <2> DEFINE t == Tail(mmiq)
  <2>1. m.kind # "REMOTE_CLOSED" /\ m.kind # "CLOSED" /\ mmiq' = Append(t, m)
    BY <1>5 DEF Ends
  <2>2. /\ t \in Seq(Messages) /\ ClosesIn(t, c)
        /\ \A s : RemoteEnd(t, s) => RemoteEnd(mmiq, s)
    BY <1>3, <1>5
  <2> HIDE DEF t
  <2>3. ClosesIn(Append(t, m), c)
    BY <2>1, <2>2, EndsAdded
  <2>4. \A s : RemoteEnd(Append(t, m), s) => RemoteEnd(t, s)
    BY <2>1, <2>2, EndsAdded
  <2> QED  BY <2>1, <2>2, <2>3, <2>4
<1> QED  BY <1>2, <1>3, <1>4, <1>5 DEF QuietMsgs, Consume

LEMMA QuietSteps ==
  ASSUME Types
  PROVE  /\ Helper \/ Mmi \/ User => QuietMsgs
         /\ \A s \in Socks : NetConnects(s) \/ NetBufferFree(s) \/ ServerAnswers(s) => QuietMsgs
         /\ \A q \in dnr.open : DnsAnswers(q) => QuietMsgs
<1>1. StartINET \/ StartINETQueues \/ create_connect \/ OpenSocket \/ Connect
      \/ ConnectReturns \/ SendPost \/ ResumeSend \/ bsend \/ get_answer \/ end_socket
      \/ free_socket \/ StopINET \/ StopINETFrees \/ resend \/ PressStop
      => QuietMsgs
  BY DEF StartINET, StartINETQueues, create_connect, OpenSocket, Connect, ConnectReturns,
         SendPost, ResumeSend, bsend, get_answer, end_socket, free_socket, StopINET,
         StopINETFrees, FreeSocket, resend, PressStop, osVars, QuietMsgs
<1>2. PostData => QuietMsgs
  <2>1. seg \in Seq(Chunks)
    BY DEF Types, HelperTypes
  <2>2. /\ Msg("DATA_ARRIVED", seg) \in Messages
        /\ Msg("DATA_ARRIVED", seg).kind = "DATA_ARRIVED"
    BY <2>1, QueueTypes DEF Msg
  <2> QED  BY <2>2 DEF PostData, QuietMsgs, Ends
<1>3. GotoLink \/ Leave => QuietMsgs
  <2>1. \A k \in Opening : Msg(k, NULL) \in Messages /\ Msg(k, NULL).kind = k
    BY QueueTypes DEF Msg
  <2> QED  BY <2>1 DEF GotoLink, Leave, QuietMsgs, Ends, Opening
<1>4. OnDNR \/ OnConnected \/ OnDataRead \/ OnBufferFree \/ OnDataArrived \/ OnDataEnd
      \/ OnGotoUrl \/ OnGuiDestroyed => QuietMsgs
  BY DEF OnDNR, OnConnected, OnDataRead, OnBufferFree, OnDataArrived, OnDataEnd, OnGotoUrl,
         OnGuiDestroyed, Handles, QuietMsgs
<1>5. OnClosed => QuietMsgs
  <2>1. Msg("DATA_END", NULL) \in Messages /\ Msg("DATA_END", NULL).kind = "DATA_END"
    BY QueueTypes DEF Msg
  <2> QED  BY <2>1 DEF OnClosed, Handles, QuietMsgs, Ends
<1>6. ASSUME NEW s \in Socks, NetConnects(s) \/ NetBufferFree(s) \/ ServerAnswers(s)
      PROVE  QuietMsgs
  <2>1. \A k \in SocketEvents : Msg(k, s) \in Messages /\ Msg(k, s).kind = k
    BY QueueTypes DEF Msg
  <2> QED  BY <1>6, <2>1 DEF NetConnects, NetBufferFree, ServerAnswers, QuietMsgs, Ends,
                            SocketEvents
<1>7. ASSUME NEW q \in dnr.open, DnsAnswers(q) PROVE QuietMsgs
  <2>1. Msg("DNR", q) \in Messages /\ Msg("DNR", q).kind = "DNR"
    BY QueueTypes DEF Msg, Types, OsTypes
  <2> QED  BY <1>7, <2>1 DEF DnsAnswers, QuietMsgs, Ends
<1> QED  BY <1>1, <1>2, <1>3, <1>4, <1>5, <1>6, <1>7 DEF Helper, Mmi, User

LEMMA ClosesInit == Init => ClosesOnce
BY DEF Init, ClosesOnce, ClosesIn

LEMMA ClosesStep == Types /\ ClosesOnce /\ Next => ClosesOnce'
<1> SUFFICES ASSUME Types, ClosesOnce, Next PROVE ClosesOnce'
  OBVIOUS
<1>0. ClosesIn(mmiq, conns) /\ (hp = "connect" => sock \in Socks /\ conns[sock].st = "new")
  BY DEF ClosesOnce, Types, HelperTypes
<1>1. \A i \in DOMAIN mmiq : mmiq[i].kind \in Ends => mmiq[i].arg \in Socks
  BY EndsTyped
<1>2. ASSUME QuietMsgs, hp' = "connect" => conns'[sock'].st = "new",
             \A i \in DOMAIN mmiq : mmiq[i].kind \in Ends =>
               /\ conns[mmiq[i].arg].st \in Ended => conns'[mmiq[i].arg].st \in Ended
               /\ conns[mmiq[i].arg].st = "free" => conns'[mmiq[i].arg].st = "free"
      PROVE  ClosesOnce'
  <2>1. ClosesIn(mmiq, conns')
    BY <1>0, <1>2, EndsStates
  <2>2. ClosesIn(mmiq', conns')
    BY <1>2, <2>1, QuietEnds
  <2> QED  BY <1>2, <2>2 DEF ClosesOnce
<1>3. ASSUME QuietMsgs, StatesKept, hp' # "connect" \/ UNCHANGED <<hp, sock>>
      PROVE  ClosesOnce'
  BY <1>0, <1>1, <1>2, <1>3 DEF StatesKept
<1>4. ASSUME NEW t \in Socks, NEW x, QuietMsgs, Becomes(t, x),
             hp' = "connect" => conns'[sock'].st = "new",
             conns[t].st \in Ended => conns[t].st # "free" /\ x \in Ended
      PROVE  ClosesOnce'
  BY <1>1, <1>2, <1>4 DEF Becomes, Ended
<1>5. CASE StartINET \/ StartINETQueues \/ create_connect \/ ConnectReturns \/ SendPost
           \/ ResumeSend \/ bsend \/ get_answer \/ PostData \/ free_socket \/ StopINETFrees
           \/ GotoLink \/ Mmi \/ User
  <2>1. hp' # "connect" \/ UNCHANGED <<hp, sock>>
    BY <1>5 DEF StartINET, StartINETQueues, create_connect, ConnectReturns, SendPost, ResumeSend,
         bsend, get_answer, PostData, free_socket, StopINETFrees, FreeSocket, GotoLink, Mmi,
         User, OnDNR, OnConnected, OnDataRead, OnBufferFree, OnClosed, OnDataArrived, OnDataEnd,
         OnGotoUrl, OnGuiDestroyed, resend, Leave, PressStop, Starts, WaitDNR, helperVars,
         inetVars
  <2>2. QuietMsgs /\ StatesKept
    BY <1>5, QuietSteps, StatesStep DEF Helper
  <2> QED  BY <1>3, <2>1, <2>2
<1>6. CASE OpenSocket
  <2>1. QuietMsgs
    BY <1>6, QuietSteps DEF Helper
  <2>2. CASE hp' = "idle" /\ StatesKept
    BY <1>3, <2>1, <2>2
  <2>3. CASE /\ sock' \in Socks /\ Becomes(sock', "new")
             /\ conns[sock'].st = "free" /\ ~ Undelivered(sock')
    <3>1. \A i \in DOMAIN mmiq : mmiq[i].kind \in Ends => mmiq[i].arg # sock'
      BY <2>3, EndsTyped DEF Undelivered
    <3> QED  BY <1>1, <1>2, <2>1, <2>3, <3>1 DEF Becomes
  <2> QED  BY <1>6, <2>2, <2>3, StatesStep
<1>7. CASE Connect
  <2>1. QuietMsgs /\ conns[sock].st = "new" /\ sock \in Socks /\ hp' # "connect"
    BY <1>0, <1>7, QuietSteps, StatesStep DEF Helper, Connect
  <2>2. "new" \notin Ended
    BY DEF Ended
  <2>3. CASE conns' = Closed(sock)
    BY <1>3, <1>4, <2>1, <2>2, <2>3, ClosedStates
  <2>4. CASE Becomes(sock, "connecting")
    BY <1>4, <2>1, <2>2, <2>4
  <2> QED  BY <1>7, <2>3, <2>4, StatesStep
<1>8. CASE StopINET \/ end_socket
  <2>1. QuietMsgs /\ hp' # "connect" /\ conns' = Closed(sock)
    BY <1>8, QuietSteps DEF Helper, StopINET, end_socket, Starts
  <2>2. CASE Alive(sock)
    <3>1. sock \in Socks /\ Becomes(sock, "closing")
      BY <2>1, <2>2, ClosedStates
    <3>2. conns[sock].st # "free" /\ "closing" \in Ended
      BY <2>2 DEF Alive, Ended
    <3> QED  BY <1>4, <2>1, <3>1, <3>2
  <2>3. CASE ~ Alive(sock)
    BY <1>3, <2>1, <2>3, ClosedStates
  <2> QED  BY <2>2, <2>3
<1>9. ASSUME NEW s \in Socks, NetConnects(s) PROVE ClosesOnce'
  <2>1. QuietMsgs /\ conns[s].st = "connecting" /\ Becomes(s, "open")
    BY <1>9, QuietSteps, StatesStep
  <2>2. UNCHANGED <<hp, sock>>
    BY <1>9 DEF NetConnects, helperVars, inetVars
  <2>3. hp' = "connect" => conns'[sock'].st = "new"
    BY <1>0, <2>1, <2>2 DEF Becomes
  <2> QED  BY <1>4, <2>1, <2>3 DEF Ended
<1>10. ASSUME NEW s \in Socks, NetBufferFree(s) \/ ServerAnswers(s) PROVE ClosesOnce'
  <2>1. QuietMsgs /\ StatesKept
    BY <1>10, QuietSteps, StatesStep
  <2>2. UNCHANGED <<hp, sock>>
    BY <1>10 DEF NetBufferFree, ServerAnswers, helperVars, inetVars
  <2> QED  BY <1>3, <2>1, <2>2
<1>11. ASSUME NEW q \in dnr.open, DnsAnswers(q) PROVE ClosesOnce'
  <2>1. QuietMsgs /\ StatesKept
    BY <1>11, QuietSteps, StatesStep
  <2>2. UNCHANGED <<hp, sock>>
    BY <1>11 DEF DnsAnswers, helperVars, inetVars
  <2> QED  BY <1>3, <2>1, <2>2
\* The peer and our end report their close.
<1>12. ASSUME NEW s \in Socks, RemoteCloses(s) \/ LocalCloses(s) PROVE ClosesOnce'
  <2>1. UNCHANGED <<hp, sock>> /\ mmiq \in Seq(Messages)
    BY <1>12 DEF RemoteCloses, LocalCloses, helperVars, inetVars, Types, OsTypes
  <2>2. /\ RemoteCloses(s) => /\ conns[s].st \in {"connecting", "open"}
                              /\ Becomes(s, "remoteClosed")
        /\ LocalCloses(s) => conns[s].st = "closing" /\ Becomes(s, "free")
    BY StatesStep
  <2>3. /\ "remoteClosed" \in Ended /\ "free" \in Ended /\ "closing" \in Ended
        /\ "connecting" \notin Ended /\ "open" \notin Ended
    BY DEF Ended
  <2>4. hp' = "connect" => conns'[sock'].st = "new"
    BY <1>0, <1>12, <2>1, <2>2 DEF Becomes
  <2>5. \A i \in DOMAIN mmiq : mmiq[i].kind \in Ends =>
          /\ conns[mmiq[i].arg].st \in Ended => conns'[mmiq[i].arg].st \in Ended
          /\ conns[mmiq[i].arg].st = "free" => conns'[mmiq[i].arg].st = "free"
    BY <1>1, <1>12, <2>2, <2>3 DEF Becomes
  <2>6. ClosesIn(mmiq, conns')
    BY <1>0, <2>5, EndsStates
  <2> DEFINE m == Msg(IF RemoteCloses(s) THEN "REMOTE_CLOSED" ELSE "CLOSED", s)
  <2>7. m \in Messages /\ m.arg = s /\ m.kind = (IF RemoteCloses(s) THEN "REMOTE_CLOSED" ELSE "CLOSED")
    BY QueueTypes DEF Msg, SocketEvents
  <2>8. mmiq' = Append(mmiq, m)
    BY <1>12, <2>2 DEF RemoteCloses, LocalCloses, Post
  <2> HIDE DEF m
  <2>9. m.kind = "REMOTE_CLOSED" => \A i \in DOMAIN mmiq : mmiq[i].kind \in Ends => mmiq[i].arg # m.arg
    BY <1>0, <2>2, <2>3, <2>7 DEF ClosesIn, Ends
  <2>10. /\ m.kind = "REMOTE_CLOSED" => conns'[m.arg].st \in Ended
         /\ m.kind = "CLOSED" => conns'[m.arg].st = "free"
    BY <1>12, <2>2, <2>3, <2>7 DEF Becomes
  <2>11. ClosesIn(Append(mmiq, m), conns')
    BY <2>1, <2>6, <2>7, <2>9, <2>10, EndsAdded
  <2> QED  BY <2>4, <2>8, <2>11 DEF ClosesOnce
<1> QED
  BY <1>5, <1>6, <1>7, <1>8, <1>9, <1>10, <1>11, <1>12 DEF Next, Helper, Network

-----------------------------------------------------------------------------
(***************************************************************************)
(* One connection is made at a time, unless the user overtakes a lookup.    *)
(***************************************************************************)

LEMMA ConnectingInit == Init => OneConnecting
<1> SUFFICES ASSUME Init PROVE OneConnecting
  OBVIOUS
<1>1. helperq = <<"StartGetFile">> /\ mmiq = <<>> /\ hp = "idle" /\ dnr.open = {}
  BY DEF Init
<1>2. ~ Connecting /\ ~ LookingUp /\ Single(mmiq, {"DNR"}) /\ ~ Sent({"DNR"})
  BY <1>1 DEF Connecting, LookingUp, Sent, Has, Single
<1>3. /\ ~ Queued("create_connect") /\ Once(helperq, "create_connect")
      /\ Before(helperq, "create_connect", "StartGetFile")
  BY <1>1 DEF Queued, In, Once, Before
<1> QED  BY <1>1, <1>2, <1>3 DEF OneConnecting

\* A step that has nothing to do with connecting.
LEMMA ConnectingQuiet ==
  ASSUME OneConnecting, world' = world, KeepsProcs({"create_connect"}), KeepsMsgs({"DNR"}),
         UNCHANGED dnr, Queued("StartGetFile")' => Queued("StartGetFile"),
         Connecting' => Connecting, connect_state = 0 => connect_state' = 0
  PROVE  OneConnecting'
<1>1. /\ Queued("create_connect")' <=> Queued("create_connect")
      /\ Once(helperq, "create_connect")'
      /\ Before(helperq, "create_connect", "StartGetFile")'
  BY DEF KeepsProcs, Queued, OneConnecting
<1>2. (Sent({"DNR"})' <=> Sent({"DNR"})) /\ Single(mmiq, {"DNR"})'
  BY DEF KeepsMsgs, Sent, OneConnecting
<1>3. LookingUp' <=> LookingUp
  BY <1>2 DEF LookingUp
<1>4. HostIsNumeric' <=> HostIsNumeric
  BY DEF HostIsNumeric
<1> QED  BY <1>1, <1>2, <1>3, <1>4 DEF OneConnecting

LEMMA ConnectingStep ==
  ASSUME Types, LoadInv, OneConnecting, HostIsNumeric \/ UrlKept, Next
  PROVE  OneConnecting'
<1>0. /\ world' = world /\ OneOpening /\ OneLoading
      /\ connect_state \in -1 .. 3
  BY DEF LoadInv, Next, Types, InetTypes
<1>1. CASE StartINET
  <2>1. /\ hp = "idle" /\ Queued("StartGetFile") /\ ~ Queued("create_connect")
        /\ ~ In(helperq', "StartGetFile")
    BY <1>1, <1>0, DequeueStep DEF StartINET, Queued, OneConnecting, OneLoading
  <2>2. KeepsProcs({"create_connect"}) /\ KeepsMsgs({"DNR"})
    BY <1>1, ProcsKept, MsgsKept
  <2>3. /\ ~ LookingUp /\ UNCHANGED <<mmiq, dnr, connect_state>>
        /\ hp' = "StartINET" => connect_state = 0
        /\ hp' \in {"idle", "StartINET"}
    BY <1>1, <2>1 DEF StartINET, OneConnecting, InetBusy, osVars
  <2>4. /\ ~ LookingUp' /\ ~ Queued("create_connect")' /\ ~ Queued("StartGetFile")'
    BY <2>1, <2>2, <2>3 DEF LookingUp, Sent, KeepsProcs, Queued
  <2> QED  BY <1>0, <2>2, <2>3, <2>4
           DEF OneConnecting, Connecting, KeepsProcs, KeepsMsgs, LookingUp, Sent
<1>2. CASE StartINETQueues
  <2>1. /\ hp = "StartINET" /\ Connecting /\ hp' = "idle"
        /\ UNCHANGED <<mmiq, dnr, connect_state>>
    BY <1>2 DEF StartINETQueues, Connecting, osVars, inetVars
  <2>2. /\ ~ Queued("create_connect") /\ ~ Queued("StartGetFile") /\ ~ LookingUp
        /\ connect_state = 0
    BY <1>0, <2>1 DEF OneConnecting, OneLoading
  <2>3. /\ Once(helperq', "create_connect")
        /\ Before(helperq', "create_connect", "StartGetFile")
    BY <1>2, <2>2, SubprocStep DEF StartINETQueues, Queued, Procs, OneConnecting
  <2>4. ~ LookingUp' /\ ~ Connecting'
    BY <2>1, <2>2 DEF LookingUp, Sent, Connecting
  <2> QED  BY <1>0, <2>1, <2>2, <2>3, <2>4 DEF OneConnecting, LookingUp, Sent
<1>3. CASE create_connect
  <2>1. /\ hp = "idle" /\ Queued("create_connect") /\ ~ In(helperq', "create_connect")
        /\ Once(helperq', "create_connect")
        /\ Before(helperq', "create_connect", "StartGetFile")
        /\ ~ LookingUp /\ KeepsProcs({"StartGetFile"})
    BY <1>3, DequeueStep DEF create_connect, Queued, OneConnecting
  <2>2. /\ connect_state' = 0 /\ UNCHANGED mmiq /\ hp' \in {"idle", "socket"}
    BY <1>3, <2>1 DEF create_connect, WaitDNR
  <2>3. ~ Sent({"DNR"})' /\ Single(mmiq, {"DNR"})'
    BY <2>1, <2>2 DEF LookingUp, Sent, OneConnecting
  <2>4. CASE dnr'.open = dnr.open
    <3>1. ~ LookingUp' /\ dnr'.open = {}
      BY <2>1, <2>3, <2>4 DEF LookingUp
    <3> QED  BY <2>1, <2>2, <2>3, <3>1 DEF OneConnecting, Queued
  <2>5. CASE AskDNR /\ hp' = "idle" /\ ~ HostIsNumeric
    <3>1. dnr.open = {} /\ dnr' = [dnr EXCEPT !.last = @ + 1, !.open = @ \cup {dnr.last + 1}]
      BY <2>1, <2>5 DEF LookingUp, AskDNR
    <3>2. dnr'.open = {dnr.last + 1}
      BY <3>1 DEF Types, OsTypes
    <3>3. ~ Queued("StartGetFile")
      BY <2>1, <2>5 DEF UrlKept, UrlAwaits, Building
    <3>4. ~ Queued("StartGetFile")' /\ ~ Connecting' /\ ~ HostIsNumeric'
      BY <1>0, <2>1, <2>5, <3>3 DEF KeepsProcs, Queued, Connecting, HostIsNumeric
    <3> QED  BY <2>1, <2>2, <2>3, <3>2, <3>4 DEF OneConnecting, Queued
  <2>6. dnr'.open = dnr.open \/ (AskDNR /\ hp' = "idle" /\ ~ HostIsNumeric)
    <3>1. \/ UNCHANGED dnr \/ \E known \in BOOLEAN : dnr' = [dnr EXCEPT !.known = known]
          \/ AskDNR /\ hp' = "idle" /\ ~ HostIsNumeric
      BY <1>3, Zenon DEF create_connect, WaitDNR
    <3> QED  BY <3>1 DEF Types, OsTypes
  <2> QED  BY <2>4, <2>5, <2>6
<1>4. CASE OpenSocket
  <2>1. KeepsProcs({"create_connect", "StartGetFile"}) /\ KeepsMsgs({"DNR"})
    BY <1>4, ProcsKept, MsgsKept
  <2>2. UNCHANGED dnr /\ (Connecting' => Connecting) /\ (connect_state = 0 => connect_state' = 0)
    BY <1>0, <1>4 DEF OpenSocket, Connecting, inetVars, helperVars, osVars
  <2> QED  BY <1>0, <2>1, <2>2, ConnectingQuiet DEF KeepsProcs, Queued
<1>5. CASE Connect
  <2>1. KeepsProcs({"create_connect", "StartGetFile"}) /\ KeepsMsgs({"DNR"})
    BY <1>5, ProcsKept, MsgsKept
  <2>2. UNCHANGED dnr /\ (Connecting' => Connecting) /\ (connect_state = 0 => connect_state' = 0)
    BY <1>0, <1>5 DEF Connect, Connecting, inetVars, helperVars, osVars
  <2> QED  BY <1>0, <2>1, <2>2, ConnectingQuiet DEF KeepsProcs, Queued
<1>6. CASE ConnectReturns
  <2>1. hp = "connecting" /\ Connecting /\ hp' = "idle" /\ UNCHANGED <<mmiq, dnr>>
    BY <1>6 DEF ConnectReturns, Connecting, osVars
  <2>2. ~ LookingUp /\ ~ Queued("create_connect") /\ KeepsProcs({"create_connect"})
    BY <1>6, <2>1, ProcsKept DEF OneConnecting
  <2>3. ~ LookingUp' /\ ~ Connecting' /\ ~ Queued("create_connect")'
    BY <2>1, <2>2 DEF LookingUp, Connecting, Sent, KeepsProcs, Queued
  <2> QED  BY <2>1, <2>2, <2>3 DEF OneConnecting, KeepsProcs, Sent, LookingUp
<1>7. CASE SendPost
  <2>1. KeepsProcs({"create_connect", "StartGetFile"}) /\ KeepsMsgs({"DNR"})
    BY <1>7, ProcsKept, MsgsKept
  <2>2. UNCHANGED dnr /\ (Connecting' => Connecting) /\ (connect_state = 0 => connect_state' = 0)
    BY <1>0, <1>7 DEF SendPost, Starts, Connecting, inetVars, helperVars, osVars
  <2> QED  BY <1>0, <2>1, <2>2, ConnectingQuiet DEF KeepsProcs, Queued
<1>8. CASE ResumeSend
  <2>1. KeepsProcs({"create_connect", "StartGetFile"}) /\ KeepsMsgs({"DNR"})
    BY <1>8, ProcsKept, MsgsKept
  <2>2. UNCHANGED dnr /\ (Connecting' => Connecting) /\ (connect_state = 0 => connect_state' = 0)
    BY <1>0, <1>8 DEF ResumeSend, Starts, Connecting, inetVars, helperVars, osVars
  <2> QED  BY <1>0, <2>1, <2>2, ConnectingQuiet DEF KeepsProcs, Queued
<1>9. CASE bsend
  <2>1. KeepsProcs({"create_connect", "StartGetFile"}) /\ KeepsMsgs({"DNR"})
    BY <1>9, ProcsKept, MsgsKept
  <2>2. UNCHANGED dnr /\ (Connecting' => Connecting) /\ (connect_state = 0 => connect_state' = 0)
    BY <1>0, <1>9 DEF bsend, Connecting, inetVars, helperVars, osVars
  <2> QED  BY <1>0, <2>1, <2>2, ConnectingQuiet DEF KeepsProcs, Queued
<1>10. CASE get_answer
  <2>1. KeepsProcs({"create_connect", "StartGetFile"}) /\ KeepsMsgs({"DNR"})
    BY <1>10, ProcsKept, MsgsKept
  <2>2. UNCHANGED dnr /\ (Connecting' => Connecting) /\ (connect_state = 0 => connect_state' = 0)
    BY <1>0, <1>10 DEF get_answer, Starts, Connecting, inetVars, helperVars, osVars
  <2> QED  BY <1>0, <2>1, <2>2, ConnectingQuiet DEF KeepsProcs, Queued
<1>11. CASE PostData
  <2>1. KeepsProcs({"create_connect", "StartGetFile"}) /\ KeepsMsgs({"DNR"})
    BY <1>11, ProcsKept, MsgsKept
  <2>2. UNCHANGED dnr /\ (Connecting' => Connecting) /\ (connect_state = 0 => connect_state' = 0)
    BY <1>0, <1>11 DEF PostData, Connecting, inetVars, helperVars, osVars
  <2> QED  BY <1>0, <2>1, <2>2, ConnectingQuiet DEF KeepsProcs, Queued
<1>12. CASE end_socket
  <2>1. KeepsProcs({"create_connect", "StartGetFile"}) /\ KeepsMsgs({"DNR"})
    BY <1>12, ProcsKept, MsgsKept
  <2>2. UNCHANGED dnr /\ (Connecting' => Connecting) /\ (connect_state = 0 => connect_state' = 0)
    BY <1>0, <1>12 DEF end_socket, Starts, Connecting, inetVars, helperVars, osVars
  <2> QED  BY <1>0, <2>1, <2>2, ConnectingQuiet DEF KeepsProcs, Queued
<1>13. CASE free_socket
  <2>1. KeepsProcs({"create_connect", "StartGetFile"}) /\ KeepsMsgs({"DNR"})
    BY <1>13, ProcsKept, MsgsKept
  <2>2. UNCHANGED dnr /\ (Connecting' => Connecting) /\ (connect_state = 0 => connect_state' = 0)
    BY <1>0, <1>13 DEF free_socket, Starts, FreeSocket, Connecting, inetVars, helperVars, osVars
  <2> QED  BY <1>0, <2>1, <2>2, ConnectingQuiet DEF KeepsProcs, Queued
<1>14. CASE StopINET
  <2>1. KeepsProcs({"create_connect", "StartGetFile"}) /\ KeepsMsgs({"DNR"})
    BY <1>14, ProcsKept, MsgsKept
  <2>2. UNCHANGED dnr /\ (Connecting' => Connecting) /\ (connect_state = 0 => connect_state' = 0)
    BY <1>0, <1>14 DEF StopINET, Starts, Connecting, inetVars, helperVars, osVars
  <2> QED  BY <1>0, <2>1, <2>2, ConnectingQuiet DEF KeepsProcs, Queued
<1>15. CASE StopINETFrees
  <2>1. KeepsProcs({"create_connect", "StartGetFile"}) /\ KeepsMsgs({"DNR"})
    BY <1>15, ProcsKept, MsgsKept
  <2>2. UNCHANGED dnr /\ (Connecting' => Connecting) /\ (connect_state = 0 => connect_state' = 0)
    BY <1>0, <1>15 DEF StopINETFrees, FreeSocket, Connecting, inetVars, helperVars, osVars
  <2> QED  BY <1>0, <2>1, <2>2, ConnectingQuiet DEF KeepsProcs, Queued
<1>16. CASE GotoLink
  <2>1. KeepsProcs({"create_connect", "StartGetFile"}) /\ KeepsMsgs({"DNR"})
    BY <1>16, ProcsKept, MsgsKept
  <2>2. UNCHANGED dnr /\ (Connecting' => Connecting) /\ (connect_state = 0 => connect_state' = 0)
    BY <1>0, <1>16 DEF GotoLink, Starts, Connecting, inetVars, helperVars, osVars
  <2> QED  BY <1>0, <2>1, <2>2, ConnectingQuiet DEF KeepsProcs, Queued
<1>17. CASE OnDNR
  <2>1. /\ Sent({"DNR"}) /\ ~ Has(mmiq', {"DNR"}) /\ Single(mmiq', {"DNR"})
    BY <1>17, ConsumeStep DEF OnDNR, OneConnecting, Sent
  <2>2. /\ LookingUp /\ connect_state = 0 /\ ~ Connecting /\ ~ Queued("create_connect")
        /\ ~ Queued("StartGetFile") /\ dnr.open = {} /\ ~ HostIsNumeric
    BY <2>1 DEF LookingUp, OneConnecting
  <2>3. UNCHANGED <<hp, dnr, connect_state>>
    BY <1>17 DEF OnDNR, inetVars
  <2>4. ~ LookingUp' /\ ~ Connecting' /\ ~ Sent({"DNR"})' /\ connect_state' = 0
    BY <2>1, <2>2, <2>3 DEF LookingUp, Sent, Connecting
  <2>5. /\ Once(helperq', "create_connect")
        /\ Before(helperq', "create_connect", "StartGetFile")
    BY <1>17, <2>2, SubprocStep DEF OnDNR, OneConnecting, Queued, Procs
  <2> QED  BY <2>1, <2>2, <2>3, <2>4, <2>5 DEF OneConnecting
<1>18. CASE OnConnected
  <2>1. KeepsProcs({"create_connect", "StartGetFile"}) /\ KeepsMsgs({"DNR"})
    BY <1>18, ProcsKept, MsgsKept
  <2>2. UNCHANGED dnr /\ (Connecting' => Connecting) /\ (connect_state = 0 => connect_state' = 0)
    BY <1>0, <1>18 DEF OnConnected, Connecting, inetVars, helperVars, osVars
  <2> QED  BY <1>0, <2>1, <2>2, ConnectingQuiet DEF KeepsProcs, Queued
<1>19. CASE OnDataRead
  <2>1. KeepsProcs({"create_connect", "StartGetFile"}) /\ KeepsMsgs({"DNR"})
    BY <1>19, ProcsKept, MsgsKept
  <2>2. UNCHANGED dnr /\ (Connecting' => Connecting) /\ (connect_state = 0 => connect_state' = 0)
    BY <1>0, <1>19 DEF OnDataRead, Connecting, inetVars, helperVars, osVars
  <2> QED  BY <1>0, <2>1, <2>2, ConnectingQuiet DEF KeepsProcs, Queued
<1>20. CASE OnBufferFree
  <2>1. KeepsProcs({"create_connect", "StartGetFile"}) /\ KeepsMsgs({"DNR"})
    BY <1>20, ProcsKept, MsgsKept
  <2>2. UNCHANGED dnr /\ (Connecting' => Connecting) /\ (connect_state = 0 => connect_state' = 0)
    BY <1>0, <1>20 DEF OnBufferFree, Connecting, inetVars, helperVars, osVars
  <2> QED  BY <1>0, <2>1, <2>2, ConnectingQuiet DEF KeepsProcs, Queued
<1>21. CASE OnClosed
  <2>1. KeepsProcs({"create_connect", "StartGetFile"}) /\ KeepsMsgs({"DNR"})
    BY <1>21, ProcsKept, MsgsKept DEF Ends
  <2>2. UNCHANGED dnr /\ (Connecting' => Connecting) /\ (connect_state = 0 => connect_state' = 0)
    BY <1>0, <1>21 DEF OnClosed, Connecting, inetVars, helperVars, osVars
  <2> QED  BY <1>0, <2>1, <2>2, ConnectingQuiet DEF KeepsProcs, Queued
<1>22. CASE OnDataArrived
  <2>1. KeepsProcs({"create_connect", "StartGetFile"}) /\ KeepsMsgs({"DNR"})
    BY <1>22, ProcsKept, MsgsKept
  <2>2. UNCHANGED dnr /\ (Connecting' => Connecting) /\ (connect_state = 0 => connect_state' = 0)
    BY <1>0, <1>22 DEF OnDataArrived, Connecting, inetVars, helperVars, osVars
  <2> QED  BY <1>0, <2>1, <2>2, ConnectingQuiet DEF KeepsProcs, Queued
<1>23. CASE OnDataEnd
  <2>1. KeepsProcs({"create_connect", "StartGetFile"}) /\ KeepsMsgs({"DNR"})
    BY <1>23, ProcsKept, MsgsKept
  <2>2. UNCHANGED dnr /\ (Connecting' => Connecting) /\ (connect_state = 0 => connect_state' = 0)
    BY <1>0, <1>23 DEF OnDataEnd, Connecting, inetVars, helperVars, osVars
  <2> QED  BY <1>0, <2>1, <2>2, ConnectingQuiet DEF KeepsProcs, Queued
<1>24. CASE OnGotoUrl
  <2>1. view = 0
    BY <1>24, <1>0, ConsumeStep DEF OnGotoUrl, OneOpening, Sent, Opening
  <2>2. ~ LookingUp
    BY <2>1 DEF OneConnecting, UrlKept, UrlAwaits, Building
  <2>3. KeepsProcs({"create_connect"}) /\ KeepsMsgs({"DNR"})
    BY <1>24, ProcsKept, MsgsKept
  <2>4. UNCHANGED <<hp, dnr, connect_state>>
    BY <1>24 DEF OnGotoUrl, inetVars
  <2>5. ~ LookingUp' /\ (Connecting' <=> Connecting)
    BY <2>2, <2>3, <2>4 DEF LookingUp, Sent, Connecting, KeepsMsgs
  <2> QED  BY <1>0, <2>2, <2>3, <2>4, <2>5
           DEF OneConnecting, KeepsProcs, KeepsMsgs, Queued, Sent, LookingUp
<1>25. CASE OnGuiDestroyed
  <2>1. KeepsProcs({"create_connect", "StartGetFile"}) /\ KeepsMsgs({"DNR"})
    BY <1>25, ProcsKept, MsgsKept
  <2>2. UNCHANGED dnr /\ (Connecting' => Connecting) /\ (connect_state = 0 => connect_state' = 0)
    BY <1>0, <1>25 DEF OnGuiDestroyed, Connecting, inetVars, helperVars, osVars
  <2> QED  BY <1>0, <2>1, <2>2, ConnectingQuiet DEF KeepsProcs, Queued
<1>26. CASE resend
  <2>1. KeepsProcs({"create_connect", "StartGetFile"}) /\ KeepsMsgs({"DNR"})
    BY <1>26, ProcsKept, MsgsKept
  <2>2. UNCHANGED dnr /\ (Connecting' => Connecting) /\ (connect_state = 0 => connect_state' = 0)
    BY <1>0, <1>26 DEF resend, Connecting, inetVars, helperVars, osVars
  <2> QED  BY <1>0, <2>1, <2>2, ConnectingQuiet DEF KeepsProcs, Queued
<1>27. CASE Leave
  <2>1. KeepsProcs({"create_connect", "StartGetFile"}) /\ KeepsMsgs({"DNR"})
    BY <1>27, ProcsKept, MsgsKept
  <2>2. UNCHANGED dnr /\ (Connecting' => Connecting) /\ (connect_state = 0 => connect_state' = 0)
    BY <1>0, <1>27 DEF Leave, Connecting, inetVars, helperVars, osVars
  <2> QED  BY <1>0, <2>1, <2>2, ConnectingQuiet DEF KeepsProcs, Queued
<1>28. CASE PressStop
  <2>1. KeepsProcs({"create_connect", "StartGetFile"}) /\ KeepsMsgs({"DNR"})
    BY <1>28, ProcsKept, MsgsKept
  <2>2. UNCHANGED dnr /\ (Connecting' => Connecting) /\ (connect_state = 0 => connect_state' = 0)
    BY <1>0, <1>28 DEF PressStop, Connecting, inetVars, helperVars, osVars
  <2> QED  BY <1>0, <2>1, <2>2, ConnectingQuiet DEF KeepsProcs, Queued
<1>29. ASSUME NEW s \in Socks, \/ NetConnects(s) \/ NetBufferFree(s) \/ ServerAnswers(s)
                               \/ RemoteCloses(s) \/ LocalCloses(s)
      PROVE  OneConnecting'
  <2>1. KeepsProcs({"create_connect", "StartGetFile"})
    BY <1>29, ProcsKept DEF Network
  <2>2. KeepsMsgs({"DNR"})
    <3>1. PICK e \in SocketEvents : Post(Msg(e, s))
      BY <1>29 DEF NetConnects, NetBufferFree, ServerAnswers, RemoteCloses, LocalCloses,
                  SocketEvents
    <3>2. Msg(e, s) \in Messages /\ Msg(e, s).kind = e /\ e # "DNR"
      BY QueueTypes DEF Msg, SocketEvents
    <3> QED  BY <3>1, <3>2, PostStep
  <2>3. UNCHANGED <<hp, connect_state, dnr>>
    BY <1>29 DEF NetConnects, NetBufferFree, ServerAnswers, RemoteCloses, LocalCloses,
                inetVars, helperVars
  <2> QED  BY <1>0, <2>1, <2>2, <2>3, ConnectingQuiet DEF KeepsProcs, Queued, Connecting
<1>30. ASSUME NEW q \in dnr.open, DnsAnswers(q) PROVE OneConnecting'
  <2>1. /\ LookingUp /\ ~ Sent({"DNR"}) /\ dnr.open = {q} /\ ~ HostIsNumeric
        /\ ~ Connecting /\ ~ Queued("create_connect") /\ ~ Queued("StartGetFile")
        /\ connect_state = 0
    BY <1>30 DEF OneConnecting, LookingUp
  <2>2. UNCHANGED <<helperq, hp, connect_state>> /\ dnr'.open = {}
    BY <1>30, <2>1 DEF DnsAnswers, helperVars, inetVars, Types, OsTypes
  <2>3. Single(mmiq', {"DNR"})
    <3>1. Msg("DNR", q) \in Messages
      BY QueueTypes DEF Types, OsTypes
    <3> QED  BY <1>30, <2>1, <3>1, PostStep DEF DnsAnswers, Sent
  <2>4. ~ HostIsNumeric' /\ ~ Connecting' /\ ~ Queued("create_connect")' /\ ~ Queued("StartGetFile")'
    BY <1>0, <2>1, <2>2 DEF HostIsNumeric, Connecting, Queued
  <2> QED  BY <2>1, <2>2, <2>3, <2>4 DEF OneConnecting
<1> QED
  BY <1>1, <1>2, <1>3, <1>4, <1>5, <1>6, <1>7, <1>8, <1>9, <1>10, <1>11, <1>12, <1>13, <1>14, <1>15, <1>16, <1>17, <1>18, <1>19, <1>20, <1>21, <1>22, <1>23, <1>24, <1>25, <1>26, <1>27, <1>28, <1>29, <1>30
     DEF Next, Helper, Mmi, User, Network

-----------------------------------------------------------------------------
(***************************************************************************)
(* The socket alive is the one inet.c knows.                                *)
(***************************************************************************)

LEMMA AliveStep ==
  /\ StatesKept => \A s \in Socks : Alive(s)' <=> Alive(s)
  /\ \A t, s \in Socks, x \in {"closing", "free"} :
       Becomes(t, x) => (Alive(s)' <=> Alive(s) /\ s # t)
  /\ \A t, s \in Socks, x \in {"new", "connecting", "open", "remoteClosed"} :
       Becomes(t, x) => (Alive(s)' <=> Alive(s) \/ s = t)
BY DEF StatesKept, Becomes, Alive

\* A message about an end is only added by the end.
LEMMA RemoteEndStep ==
  ASSUME Types, ClosesOnce, Next
  PROVE  \A s \in Socks : RemoteEnd(mmiq', s) => RemoteEnd(mmiq, s) \/ RemoteCloses(s)
<1> SUFFICES ASSUME NEW s \in Socks, RemoteEnd(mmiq', s), ~ RemoteCloses(s)
             PROVE  RemoteEnd(mmiq, s)
  OBVIOUS
<1>1. CASE QuietMsgs
  BY <1>1, QuietEnds DEF ClosesOnce
<1>2. ASSUME NEW t \in Socks, RemoteCloses(t) \/ LocalCloses(t) PROVE RemoteEnd(mmiq, s)
  <2> DEFINE k == IF RemoteCloses(t) THEN "REMOTE_CLOSED" ELSE "CLOSED"
             m == Msg(k, t)
  <2>1. m \in Messages /\ m.arg = t /\ m.kind = k
    BY QueueTypes DEF Msg, SocketEvents
  <2>2. mmiq' = Append(mmiq, m) /\ (m.kind = "REMOTE_CLOSED" => t # s)
    <3>1. ~ (RemoteCloses(t) /\ LocalCloses(t))
      BY DEF RemoteCloses, LocalCloses
    <3> QED  BY <1>2, <2>1, <3>1 DEF RemoteCloses, LocalCloses, Post
  <2>3. mmiq \in Seq(Messages)
    BY DEF Types, OsTypes
  <2> HIDE DEF m
  <2> DEFINE t2 == Append(mmiq, m)  n == Len(mmiq)
  <2>4. /\ n \in Nat /\ DOMAIN mmiq = 1 .. n /\ DOMAIN t2 = 1 .. n + 1
        /\ t2[n + 1] = m /\ \A i \in 1 .. n : t2[i] = mmiq[i]
    BY <2>1, <2>3, AddedIndices
  <2>5. PICK i \in 1 .. n + 1 : t2[i].kind = "REMOTE_CLOSED" /\ t2[i].arg = s
    BY <2>2, <2>4 DEF RemoteEnd
  <2> HIDE DEF t2, n
  <2>6. i # n + 1
    BY <2>1, <2>2, <2>4, <2>5
  <2> QED  BY <2>4, <2>5, <2>6 DEF RemoteEnd
<1> QED  BY <1>1, <1>2, QuietSteps DEF Next, Network

Fresh == {"new", "connecting", "open"}

LEMMA HeldInit == Init => SockHeld
<1> SUFFICES ASSUME Init PROVE SockHeld
  OBVIOUS
<1>1. \A s \in Socks : ~ Alive(s)
  BY DEF Init, Alive, NoConn
<1>2. hp = "idle" /\ connect_state = 0 /\ helperq = <<"StartGetFile">>
  BY DEF Init
<1>3. ~ Queued("free_socket") /\ Before(helperq, "free_socket", "create_connect")
  BY <1>2 DEF Queued, In, Before
<1> QED  BY <1>1, <1>2, <1>3 DEF SockHeld, Alive

\* A step that opens no socket and frees none.
LEMMA HeldQuiet ==
  ASSUME SockHeld, KeepsProcs({"free_socket"}), UNCHANGED sock,
         \A s \in Socks : Alive(s)' => Alive(s),
         sock \in Socks => (conns'[sock].st \in Fresh => conns[sock].st \in Fresh),
         sock \in Socks => (RemoteEnd(mmiq', sock) => RemoteEnd(mmiq, sock)),
         connect_state' = 0 <=> connect_state = 0,
         connect_state' = -1 => connect_state = -1,
         hp \in {"connect", "connecting"} => hp' = hp,
         hp' \in {"StopINET", "socket", "connect", "connecting"} => hp = hp'
  PROVE  SockHeld'
<1>1. /\ Queued("free_socket")' <=> Queued("free_socket")
      /\ Before(helperq, "free_socket", "create_connect")'
  BY DEF KeepsProcs, Queued, SockHeld
<1>2. ASSUME NEW s \in Socks, Alive(s)'
      PROVE  s = sock' /\ (connect_state' # 0 \/ hp' \in {"connect", "connecting"})
  BY <1>2 DEF SockHeld
<1>3. (hp = "StopINET" => ~ Alive(sock))'
  BY DEF SockHeld, Alive
<1>4. (Queued("free_socket") => connect_state = 0 /\ hp \notin {"socket", "connect", "connecting"})'
  BY <1>1 DEF SockHeld
<1>5. ~ RemoteEnd(mmiq, sock) => (sock \in Socks => ~ RemoteEnd(mmiq', sock))
  OBVIOUS
<1>6. (connect_state = -1 =>
       /\ sock \in Socks => ~ RemoteEnd(mmiq, sock)
       /\ sock \in Socks => conns[sock].st \notin {"new", "connecting", "open"})'
  BY DEF SockHeld, Fresh
<1> QED  BY <1>1, <1>2, <1>3, <1>4, <1>6 DEF SockHeld

LEMMA HeldByQuiet ==
  ASSUME Types, ClosesOnce, SockHeld, KeepsProcs({"free_socket"}), StatesKept, QuietMsgs,
         UNCHANGED sock, connect_state' = 0 <=> connect_state = 0,
         connect_state' = -1 => connect_state = -1,
         hp \in {"connect", "connecting"} => hp' = hp,
         hp' \in {"StopINET", "socket", "connect", "connecting"} => hp = hp'
  PROVE  SockHeld'
<1>1. \A s \in Socks : Alive(s)' => Alive(s)
  BY AliveStep
<1>2. sock \in Socks => (conns'[sock].st \in Fresh => conns[sock].st \in Fresh)
  BY DEF StatesKept
<1>3. RemoteEnd(mmiq', sock) => RemoteEnd(mmiq, sock)
  BY QuietEnds DEF ClosesOnce
<1> QED  BY <1>1, <1>2, <1>3, HeldQuiet

LEMMA HeldStep ==
  ASSUME Types, ClosesOnce, OneConnecting, SockHeld, Next
  PROVE  SockHeld'
<1>0. /\ connect_state \in -1 .. 3 /\ sock \in Socks \cup {NoSock} /\ NoSock \notin Socks
      /\ hp \in HelperSteps
  BY SocksAssumption DEF Types, InetTypes, HelperTypes, NoSock
<1>1. /\ \A s \in Socks : Alive(s) => s = sock
      /\ \A s \in Socks : Alive(s) => connect_state # 0 \/ hp \in {"connect", "connecting"}
  BY DEF SockHeld
<1>2. CASE StartINET
  <2>1. KeepsProcs({"free_socket"}) /\ StatesKept /\ QuietMsgs
    BY <1>2, ProcsKept, StatesStep, QuietSteps DEF Helper, Mmi, User
  <2>2. /\ UNCHANGED sock /\ (connect_state' = 0 <=> connect_state = 0)
        /\ connect_state' = -1 => connect_state = -1
        /\ hp \in {"connect", "connecting"} => hp' = hp
        /\ hp' \in {"StopINET", "socket", "connect", "connecting"} => hp = hp'
    BY <1>0, <1>2 DEF StartINET, Starts, inetVars, helperVars
  <2> QED  BY <1>0, <2>1, <2>2, HeldByQuiet
<1>3. CASE StartINETQueues
  <2>1. KeepsProcs({"free_socket"}) /\ StatesKept /\ QuietMsgs
    BY <1>3, ProcsKept, StatesStep, QuietSteps DEF Helper, Mmi, User
  <2>2. /\ UNCHANGED sock /\ (connect_state' = 0 <=> connect_state = 0)
        /\ connect_state' = -1 => connect_state = -1
        /\ hp \in {"connect", "connecting"} => hp' = hp
        /\ hp' \in {"StopINET", "socket", "connect", "connecting"} => hp = hp'
    BY <1>0, <1>3 DEF StartINETQueues, inetVars, helperVars
  <2> QED  BY <1>0, <2>1, <2>2, HeldByQuiet
<1>4. CASE create_connect
  <2>1. /\ Queued("create_connect") /\ hp = "idle" /\ ~ Queued("free_socket")
        /\ Before(helperq', "free_socket", "create_connect") /\ KeepsProcs({"free_socket"})
    BY <1>4, DequeueStep DEF create_connect, SockHeld, Queued, KeepsProcs
  <2>2. \A s \in Socks : ~ Alive(s)
    BY <1>1, <2>1 DEF OneConnecting
  <2>3. ~ Queued("free_socket")'
    BY <2>1 DEF KeepsProcs, Queued
  <2>4. \A s \in Socks : ~ Alive(s)'
    BY <1>4, <2>2, StatesStep, AliveStep
  <2>5. hp' # "StopINET" /\ connect_state' = 0
    BY <1>4, <2>1 DEF create_connect, WaitDNR
  <2> QED  BY <2>1, <2>3, <2>4, <2>5 DEF SockHeld
<1>5. CASE OpenSocket
  <2>1. hp = "socket" /\ Connecting /\ connect_state = 0 /\ connect_state' = 0
    BY <1>5 DEF OpenSocket, Connecting, OneConnecting
  <2>2. \A s \in Socks : ~ Alive(s)
    BY <1>1, <2>1
  <2>3. ~ Queued("free_socket") /\ KeepsProcs({"free_socket"})
    BY <1>5, <2>1, ProcsKept DEF SockHeld
  <2>4. ~ Queued("free_socket")' /\ Before(helperq', "free_socket", "create_connect")
    BY <2>3 DEF KeepsProcs, Queued, SockHeld
  <2>5. CASE sock' = NoSock /\ hp' = "idle" /\ StatesKept
    <3>1. \A s \in Socks : ~ Alive(s)'
      BY <2>2, <2>5, AliveStep
    <3> QED  BY <2>1, <2>4, <2>5, <3>1 DEF SockHeld
  <2>6. CASE sock' \in Socks /\ hp' = "connect" /\ Becomes(sock', "new")
    <3>1. \A s \in Socks : Alive(s)' => s = sock'
      BY <2>2, <2>6, AliveStep
    <3> QED  BY <2>1, <2>4, <2>6, <3>1 DEF SockHeld
  <2> QED  BY <1>5, <2>5, <2>6, StatesStep
<1>6. CASE Connect
  <2>1. /\ hp = "connect" /\ Connecting /\ connect_state = 0 /\ connect_state' = 0
        /\ sock \in Socks
    BY <1>6 DEF Connect, Connecting, OneConnecting, Types, HelperTypes
  <2>2. ~ Queued("free_socket") /\ KeepsProcs({"free_socket"})
    BY <1>6, <2>1, ProcsKept DEF SockHeld
  <2>3. ~ Queued("free_socket")' /\ Before(helperq', "free_socket", "create_connect")
    BY <2>2 DEF KeepsProcs, Queued, SockHeld
  <2>4. CASE sock' = NoSock /\ hp' = "idle" /\ conns' = Closed(sock)
    <3>1. Becomes(sock, "closing") \/ (StatesKept /\ ~ Alive(sock))
      BY <2>4, ClosedStates
    <3>2. \A s \in Socks : ~ Alive(s)'
      BY <1>1, <2>1, <3>1, AliveStep
    <3> QED  BY <2>1, <2>3, <2>4, <3>2 DEF SockHeld
  <2>5. CASE sock' = sock /\ hp' = "connecting" /\ Becomes(sock, "connecting")
    <3>1. \A s \in Socks : Alive(s)' => s = sock'
      BY <1>1, <2>1, <2>5, AliveStep
    <3> QED  BY <2>1, <2>3, <2>5, <3>1 DEF SockHeld
  <2> QED  BY <1>6, <2>4, <2>5, StatesStep
<1>7. CASE ConnectReturns
  <2>1. hp = "connecting" /\ hp' = "idle" /\ connect_state' = 1 /\ UNCHANGED sock
    BY <1>7 DEF ConnectReturns
  <2>2. ~ Queued("free_socket") /\ KeepsProcs({"free_socket"})
    BY <1>7, <2>1, ProcsKept DEF SockHeld
  <2>3. ~ Queued("free_socket")' /\ Before(helperq', "free_socket", "create_connect")
    BY <2>2 DEF KeepsProcs, Queued, SockHeld
  <2>4. \A s \in Socks : Alive(s)' => s = sock'
    BY <1>1, <1>7, <2>1, StatesStep, AliveStep
  <2> QED  BY <2>1, <2>3, <2>4 DEF SockHeld
<1>8. CASE SendPost
  <2>1. KeepsProcs({"free_socket"}) /\ StatesKept /\ QuietMsgs
    BY <1>8, ProcsKept, StatesStep, QuietSteps DEF Helper, Mmi, User
  <2>2. /\ UNCHANGED sock /\ (connect_state' = 0 <=> connect_state = 0)
        /\ connect_state' = -1 => connect_state = -1
        /\ hp \in {"connect", "connecting"} => hp' = hp
        /\ hp' \in {"StopINET", "socket", "connect", "connecting"} => hp = hp'
    BY <1>0, <1>8 DEF SendPost, Starts, inetVars, helperVars
  <2> QED  BY <1>0, <2>1, <2>2, HeldByQuiet
<1>9. CASE ResumeSend
  <2>1. KeepsProcs({"free_socket"}) /\ StatesKept /\ QuietMsgs
    BY <1>9, ProcsKept, StatesStep, QuietSteps DEF Helper, Mmi, User
  <2>2. /\ UNCHANGED sock /\ (connect_state' = 0 <=> connect_state = 0)
        /\ connect_state' = -1 => connect_state = -1
        /\ hp \in {"connect", "connecting"} => hp' = hp
        /\ hp' \in {"StopINET", "socket", "connect", "connecting"} => hp = hp'
    BY <1>0, <1>9 DEF ResumeSend, Starts, inetVars, helperVars
  <2> QED  BY <1>0, <2>1, <2>2, HeldByQuiet
<1>10. CASE bsend
  <2>1. KeepsProcs({"free_socket"}) /\ StatesKept /\ QuietMsgs
    BY <1>10, ProcsKept, StatesStep, QuietSteps DEF Helper, Mmi, User
  <2>2. /\ UNCHANGED sock /\ (connect_state' = 0 <=> connect_state = 0)
        /\ connect_state' = -1 => connect_state = -1
        /\ hp \in {"connect", "connecting"} => hp' = hp
        /\ hp' \in {"StopINET", "socket", "connect", "connecting"} => hp = hp'
    BY <1>0, <1>10 DEF bsend, inetVars, helperVars
  <2> QED  BY <1>0, <2>1, <2>2, HeldByQuiet
<1>11. CASE get_answer
  <2>1. KeepsProcs({"free_socket"}) /\ StatesKept /\ QuietMsgs
    BY <1>11, ProcsKept, StatesStep, QuietSteps DEF Helper, Mmi, User
  <2>2. /\ UNCHANGED sock /\ (connect_state' = 0 <=> connect_state = 0)
        /\ connect_state' = -1 => connect_state = -1
        /\ hp \in {"connect", "connecting"} => hp' = hp
        /\ hp' \in {"StopINET", "socket", "connect", "connecting"} => hp = hp'
    BY <1>0, <1>11 DEF get_answer, Starts, inetVars, helperVars
  <2> QED  BY <1>0, <2>1, <2>2, HeldByQuiet
<1>12. CASE PostData
  <2>1. KeepsProcs({"free_socket"}) /\ StatesKept /\ QuietMsgs
    BY <1>12, ProcsKept, StatesStep, QuietSteps DEF Helper, Mmi, User
  <2>2. /\ UNCHANGED sock /\ (connect_state' = 0 <=> connect_state = 0)
        /\ connect_state' = -1 => connect_state = -1
        /\ hp \in {"connect", "connecting"} => hp' = hp
        /\ hp' \in {"StopINET", "socket", "connect", "connecting"} => hp = hp'
    BY <1>0, <1>12 DEF PostData, inetVars, helperVars
  <2> QED  BY <1>0, <2>1, <2>2, HeldByQuiet
<1>13. CASE end_socket
  <2>1. /\ hp = "idle" /\ hp' = "idle" /\ KeepsProcs({"free_socket"})
        /\ conns' = Closed(sock) /\ UNCHANGED <<sock, connect_state, mmiq>>
    BY <1>13, ProcsKept DEF end_socket, Starts
  <2>2. sock \in Socks => Becomes(sock, "closing") \/ StatesKept
    BY <2>1, ClosedStates
  <2>3. sock \notin Socks => StatesKept
    BY <2>1, ClosedStates DEF Alive
  <2>4. \A s \in Socks : Alive(s)' => Alive(s)
    BY <2>2, <2>3, AliveStep
  <2>5. sock \in Socks => (conns'[sock].st \in Fresh => conns[sock].st \in Fresh)
    BY <2>2 DEF Becomes, StatesKept, Fresh
  <2> QED  BY <2>1, <2>4, <2>5, HeldQuiet
<1>14. CASE free_socket
  <2>1. /\ Queued("free_socket") /\ hp = "idle" /\ UNCHANGED hp
        /\ Before(helperq', "free_socket", "create_connect")
    BY <1>14, DequeueStep DEF free_socket, Queued, SockHeld
  <2>2. connect_state' = 0 /\ sock' = NoSock
    BY <1>14 DEF free_socket, FreeSocket
  <2>3. \A s \in Socks : ~ Alive(s)
    BY <1>1, <2>1 DEF SockHeld
  <2>4. \A s \in Socks : ~ Alive(s)'
    BY <1>14, <2>3, StatesStep, AliveStep
  <2> QED  BY <2>1, <2>2, <2>4 DEF SockHeld
<1>15. CASE StopINET
  <2>1. /\ hp = "idle" /\ hp' = "StopINET" /\ KeepsProcs({"free_socket"})
        /\ conns' = Closed(sock) /\ UNCHANGED <<sock, connect_state, mmiq>>
    BY <1>15, ProcsKept DEF StopINET, Starts
  <2>2. Becomes(sock, "closing") \/ (StatesKept /\ ~ Alive(sock))
    BY <2>1, ClosedStates
  <2>3. \A s \in Socks : ~ Alive(s)'
    <3> SUFFICES ASSUME NEW s \in Socks PROVE ~ Alive(s)'
      OBVIOUS
    <3>1. CASE s = sock
      BY <2>2, <3>1, AliveStep
    <3>2. CASE s # sock
      BY <1>1, <2>1, <3>2, ClosedStates, AliveStep
    <3> QED  BY <3>1, <3>2
  <2>4. (Queued("free_socket")' => connect_state' = 0)
        /\ Before(helperq', "free_socket", "create_connect")
    BY <2>1 DEF KeepsProcs, Queued, SockHeld
  <2>5. connect_state' = -1 => (sock' \in Socks => ~ RemoteEnd(mmiq', sock'))
    BY <2>1 DEF SockHeld
  <2>6. connect_state' = -1 => (sock' \in Socks => conns'[sock'].st \notin Fresh)
    BY <2>1, <2>3 DEF Alive, Fresh
  <2> QED  BY <2>1, <2>3, <2>4, <2>5, <2>6 DEF SockHeld, Alive, Fresh
<1>16. CASE StopINETFrees
  <2>1. /\ hp = "StopINET" /\ hp' = "idle" /\ connect_state' = 0 /\ sock' = NoSock
        /\ UNCHANGED helperq
    BY <1>16 DEF StopINETFrees, FreeSocket
  <2>2. \A s \in Socks : ~ Alive(s)
    BY <1>1, <2>1 DEF SockHeld
  <2>3. \A s \in Socks : ~ Alive(s)'
    BY <1>16, <2>2, StatesStep, AliveStep
  <2>4. Before(helperq', "free_socket", "create_connect")
    BY <2>1 DEF SockHeld
  <2> QED  BY <2>1, <2>3, <2>4 DEF SockHeld
<1>17. CASE GotoLink
  <2>1. KeepsProcs({"free_socket"}) /\ StatesKept /\ QuietMsgs
    BY <1>17, ProcsKept, StatesStep, QuietSteps DEF Helper, Mmi, User
  <2>2. /\ UNCHANGED sock /\ (connect_state' = 0 <=> connect_state = 0)
        /\ connect_state' = -1 => connect_state = -1
        /\ hp \in {"connect", "connecting"} => hp' = hp
        /\ hp' \in {"StopINET", "socket", "connect", "connecting"} => hp = hp'
    BY <1>0, <1>17 DEF GotoLink, Starts, inetVars, helperVars
  <2> QED  BY <1>0, <2>1, <2>2, HeldByQuiet
<1>18. CASE OnDNR
  <2>1. KeepsProcs({"free_socket"}) /\ StatesKept /\ QuietMsgs
    BY <1>18, ProcsKept, StatesStep, QuietSteps DEF Helper, Mmi, User
  <2>2. /\ UNCHANGED sock /\ (connect_state' = 0 <=> connect_state = 0)
        /\ connect_state' = -1 => connect_state = -1
        /\ hp \in {"connect", "connecting"} => hp' = hp
        /\ hp' \in {"StopINET", "socket", "connect", "connecting"} => hp = hp'
    BY <1>0, <1>18 DEF OnDNR, inetVars, helperVars
  <2> QED  BY <1>0, <2>1, <2>2, HeldByQuiet
<1>19. CASE OnConnected
  <2>1. KeepsProcs({"free_socket"}) /\ StatesKept /\ QuietMsgs
    BY <1>19, ProcsKept, StatesStep, QuietSteps DEF Helper, Mmi, User
  <2>2. /\ UNCHANGED sock /\ (connect_state' = 0 <=> connect_state = 0)
        /\ connect_state' = -1 => connect_state = -1
        /\ hp \in {"connect", "connecting"} => hp' = hp
        /\ hp' \in {"StopINET", "socket", "connect", "connecting"} => hp = hp'
    BY <1>0, <1>19 DEF OnConnected, inetVars, helperVars
  <2> QED  BY <1>0, <2>1, <2>2, HeldByQuiet
<1>20. CASE OnDataRead
  <2>1. KeepsProcs({"free_socket"}) /\ StatesKept /\ QuietMsgs
    BY <1>20, ProcsKept, StatesStep, QuietSteps DEF Helper, Mmi, User
  <2>2. /\ UNCHANGED sock /\ (connect_state' = 0 <=> connect_state = 0)
        /\ connect_state' = -1 => connect_state = -1
        /\ hp \in {"connect", "connecting"} => hp' = hp
        /\ hp' \in {"StopINET", "socket", "connect", "connecting"} => hp = hp'
    BY <1>0, <1>20 DEF OnDataRead, inetVars, helperVars
  <2> QED  BY <1>0, <2>1, <2>2, HeldByQuiet
<1>21. CASE OnBufferFree
  <2>1. KeepsProcs({"free_socket"}) /\ StatesKept /\ QuietMsgs
    BY <1>21, ProcsKept, StatesStep, QuietSteps DEF Helper, Mmi, User
  <2>2. /\ UNCHANGED sock /\ (connect_state' = 0 <=> connect_state = 0)
        /\ connect_state' = -1 => connect_state = -1
        /\ hp \in {"connect", "connecting"} => hp' = hp
        /\ hp' \in {"StopINET", "socket", "connect", "connecting"} => hp = hp'
    BY <1>0, <1>21 DEF OnBufferFree, inetVars, helperVars
  <2> QED  BY <1>0, <2>1, <2>2, HeldByQuiet
<1>22. CASE OnClosed
  <2>1. /\ Head(mmiq).arg \in Socks /\ UNCHANGED <<hp, sock, conns>> /\ StatesKept
        /\ Handles("REMOTE_CLOSED") \/ Handles("CLOSED")
    BY <1>22, EndsTyped, StatesStep DEF OnClosed, SocketEvents, Mmi, inetVars
  <2>2. /\ mmiq # <<>> /\ mmiq \in Seq(Messages)
        /\ Head(mmiq).kind \in Ends
        /\ Head(mmiq).kind \in {"REMOTE_CLOSED", "CLOSED"}
    BY <2>1 DEF Handles, Types, OsTypes, Ends
  <2>3. /\ ~ RemoteEnd(Tail(mmiq), Head(mmiq).arg)
        /\ Head(mmiq).kind = "REMOTE_CLOSED" =>
             /\ conns[Head(mmiq).arg].st \in Ended
             /\ RemoteEnd(mmiq, Head(mmiq).arg)
        /\ Head(mmiq).kind = "CLOSED" => conns[Head(mmiq).arg].st = "free"
    BY <2>2, EndsTaken DEF ClosesOnce
  <2>4. \A s \in Socks : Alive(s)' <=> Alive(s)
    BY <2>1, AliveStep
  <2>5. CASE Ours /\ connect_state = -1
    <3>1. Head(mmiq).kind = "CLOSED" /\ sock \in Socks /\ ~ Alive(sock)
      BY <2>1, <2>2, <2>3, <2>5 DEF Ours, SockHeld, Alive
    <3>2. \A s \in Socks : ~ Alive(s)'
      BY <1>1, <2>4, <3>1
    <3>3. ~ Queued("create_connect") /\ hp \notin {"socket", "connect", "connecting"}
      BY <2>5 DEF OneConnecting, Connecting
    <3>4. Before(helperq', "free_socket", "create_connect") /\ connect_state' = 0
      BY <1>22, <2>5, <3>3, SubprocStep DEF OnClosed, Procs, SockHeld, Queued
    <3> QED  BY <2>1, <3>2, <3>3, <3>4 DEF SockHeld, Alive
  <2>6. CASE Ours /\ connect_state > 0
    <3>1. connect_state' = -1 /\ SUBPROC("end_socket") /\ mmiq' = Tail(mmiq)
      BY <1>22, <2>6 DEF OnClosed, Consume
    <3>2. ~ RemoteEnd(mmiq', sock') /\ conns'[sock'].st \notin Fresh
      BY <2>1, <2>2, <2>3, <2>6, <3>1 DEF Ours, Ended, Fresh
    <3>3. KeepsProcs({"free_socket"})
      BY <3>1, SubprocStep DEF Procs
    <3>4. ~ Queued("free_socket")' /\ Before(helperq', "free_socket", "create_connect")
      BY <2>6, <3>3 DEF KeepsProcs, Queued, SockHeld
    <3>5. (hp = "StopINET" => ~ Alive(sock))'
      BY <2>1, <2>4 DEF SockHeld, Alive
    <3> QED  BY <1>1, <2>1, <2>4, <3>1, <3>2, <3>4, <3>5 DEF SockHeld, Fresh
  <2>7. CASE ~ (Ours /\ connect_state = -1) /\ ~ (Ours /\ connect_state > 0)
    <3>1. Consume /\ UNCHANGED <<connect_state, helperq>>
      BY <1>22, <2>7 DEF OnClosed
    <3>2. \A s : RemoteEnd(mmiq', s) => RemoteEnd(mmiq, s)
      BY <2>2, <3>1, EndsTaken DEF Consume, ClosesOnce
    <3> QED  BY <2>1, <2>4, <3>1, <3>2, HeldQuiet, QueueKept
  <2> QED  BY <2>5, <2>6, <2>7
<1>23. CASE OnDataArrived
  <2>1. KeepsProcs({"free_socket"}) /\ StatesKept /\ QuietMsgs
    BY <1>23, ProcsKept, StatesStep, QuietSteps DEF Helper, Mmi, User
  <2>2. /\ UNCHANGED sock /\ (connect_state' = 0 <=> connect_state = 0)
        /\ connect_state' = -1 => connect_state = -1
        /\ hp \in {"connect", "connecting"} => hp' = hp
        /\ hp' \in {"StopINET", "socket", "connect", "connecting"} => hp = hp'
    BY <1>0, <1>23 DEF OnDataArrived, inetVars, helperVars
  <2> QED  BY <1>0, <2>1, <2>2, HeldByQuiet
<1>24. CASE OnDataEnd
  <2>1. KeepsProcs({"free_socket"}) /\ StatesKept /\ QuietMsgs
    BY <1>24, ProcsKept, StatesStep, QuietSteps DEF Helper, Mmi, User
  <2>2. /\ UNCHANGED sock /\ (connect_state' = 0 <=> connect_state = 0)
        /\ connect_state' = -1 => connect_state = -1
        /\ hp \in {"connect", "connecting"} => hp' = hp
        /\ hp' \in {"StopINET", "socket", "connect", "connecting"} => hp = hp'
    BY <1>0, <1>24 DEF OnDataEnd, inetVars, helperVars
  <2> QED  BY <1>0, <2>1, <2>2, HeldByQuiet
<1>25. CASE OnGotoUrl
  <2>1. KeepsProcs({"free_socket"}) /\ StatesKept /\ QuietMsgs
    BY <1>25, ProcsKept, StatesStep, QuietSteps DEF Helper, Mmi, User
  <2>2. /\ UNCHANGED sock /\ (connect_state' = 0 <=> connect_state = 0)
        /\ connect_state' = -1 => connect_state = -1
        /\ hp \in {"connect", "connecting"} => hp' = hp
        /\ hp' \in {"StopINET", "socket", "connect", "connecting"} => hp = hp'
    BY <1>0, <1>25 DEF OnGotoUrl, inetVars, helperVars
  <2> QED  BY <1>0, <2>1, <2>2, HeldByQuiet
<1>26. CASE OnGuiDestroyed
  <2>1. KeepsProcs({"free_socket"}) /\ StatesKept /\ QuietMsgs
    BY <1>26, ProcsKept, StatesStep, QuietSteps DEF Helper, Mmi, User
  <2>2. /\ UNCHANGED sock /\ (connect_state' = 0 <=> connect_state = 0)
        /\ connect_state' = -1 => connect_state = -1
        /\ hp \in {"connect", "connecting"} => hp' = hp
        /\ hp' \in {"StopINET", "socket", "connect", "connecting"} => hp = hp'
    BY <1>0, <1>26 DEF OnGuiDestroyed, inetVars, helperVars
  <2> QED  BY <1>0, <2>1, <2>2, HeldByQuiet
<1>27. CASE resend
  <2>1. KeepsProcs({"free_socket"}) /\ StatesKept /\ QuietMsgs
    BY <1>27, ProcsKept, StatesStep, QuietSteps DEF Helper, Mmi, User
  <2>2. /\ UNCHANGED sock /\ (connect_state' = 0 <=> connect_state = 0)
        /\ connect_state' = -1 => connect_state = -1
        /\ hp \in {"connect", "connecting"} => hp' = hp
        /\ hp' \in {"StopINET", "socket", "connect", "connecting"} => hp = hp'
    BY <1>0, <1>27 DEF resend, inetVars, helperVars
  <2> QED  BY <1>0, <2>1, <2>2, HeldByQuiet
<1>28. CASE Leave
  <2>1. KeepsProcs({"free_socket"}) /\ StatesKept /\ QuietMsgs
    BY <1>28, ProcsKept, StatesStep, QuietSteps DEF Helper, Mmi, User
  <2>2. /\ UNCHANGED sock /\ (connect_state' = 0 <=> connect_state = 0)
        /\ connect_state' = -1 => connect_state = -1
        /\ hp \in {"connect", "connecting"} => hp' = hp
        /\ hp' \in {"StopINET", "socket", "connect", "connecting"} => hp = hp'
    BY <1>0, <1>28 DEF Leave, inetVars, helperVars
  <2> QED  BY <1>0, <2>1, <2>2, HeldByQuiet
<1>29. CASE PressStop
  <2>1. KeepsProcs({"free_socket"}) /\ StatesKept /\ QuietMsgs
    BY <1>29, ProcsKept, StatesStep, QuietSteps DEF Helper, Mmi, User
  <2>2. /\ UNCHANGED sock /\ (connect_state' = 0 <=> connect_state = 0)
        /\ connect_state' = -1 => connect_state = -1
        /\ hp \in {"connect", "connecting"} => hp' = hp
        /\ hp' \in {"StopINET", "socket", "connect", "connecting"} => hp = hp'
    BY <1>0, <1>29 DEF PressStop, inetVars, helperVars
  <2> QED  BY <1>0, <2>1, <2>2, HeldByQuiet
<1>30. ASSUME NEW s \in Socks, \/ NetConnects(s) \/ NetBufferFree(s) \/ ServerAnswers(s)
                               \/ LocalCloses(s)
      PROVE  SockHeld'
  <2>1. KeepsProcs({"free_socket"}) /\ UNCHANGED <<hp, sock, connect_state>>
    BY <1>30, ProcsKept DEF Network, NetConnects, NetBufferFree, ServerAnswers, LocalCloses,
                        helperVars, inetVars
  <2>2. \/ StatesKept \/ Becomes(s, "free")
        \/ conns[s].st = "connecting" /\ Becomes(s, "open")
    BY <1>30, StatesStep
  <2>3. \A t \in Socks : (Alive(t)' => Alive(t))
                        /\ (conns'[t].st \in Fresh => conns[t].st \in Fresh)
    BY <2>2 DEF StatesKept, Becomes, Alive, Fresh
  <2>4. ~ RemoteCloses(sock)
    BY <1>30 DEF RemoteCloses, NetConnects, NetBufferFree, ServerAnswers, LocalCloses, Post, Msg
  <2> QED  BY <2>1, <2>3, <2>4, HeldQuiet, RemoteEndStep
<1>31. ASSUME NEW q \in dnr.open, DnsAnswers(q) PROVE SockHeld'
  <2>1. KeepsProcs({"free_socket"}) /\ StatesKept /\ QuietMsgs
    BY <1>31, ProcsKept, StatesStep, QuietSteps DEF Network
  <2>2. UNCHANGED <<hp, sock, connect_state>>
    BY <1>31 DEF DnsAnswers, helperVars, inetVars
  <2> QED  BY <2>1, <2>2, HeldByQuiet
<1>32. ASSUME NEW s \in Socks, RemoteCloses(s) PROVE SockHeld'
  <2>1. /\ KeepsProcs({"free_socket"}) /\ UNCHANGED <<hp, sock, connect_state>>
        /\ conns[s].st \in {"connecting", "open"} /\ Becomes(s, "remoteClosed")
    BY <1>32, ProcsKept, StatesStep DEF Network, RemoteCloses, helperVars, inetVars
  <2>2. s = sock /\ connect_state # -1
    BY <2>1 DEF SockHeld, Alive
  <2>3. \A t \in Socks : Alive(t)' => Alive(t)
    BY <2>1 DEF Becomes, Alive
  <2>4. (Queued("free_socket")' <=> Queued("free_socket"))
        /\ Before(helperq', "free_socket", "create_connect")
    BY <2>1 DEF KeepsProcs, Queued, SockHeld
  <2>5. (hp = "StopINET" => ~ Alive(sock))'
    BY <2>1, <2>2, <2>3 DEF SockHeld
  <2> QED  BY <2>1, <2>2, <2>3, <2>4, <2>5 DEF SockHeld
<1> QED
  BY <1>2, <1>3, <1>4, <1>5, <1>6, <1>7, <1>8, <1>9, <1>10, <1>11, <1>12, <1>13, <1>14, <1>15, <1>16, <1>17, <1>18, <1>19, <1>20, <1>21, <1>22, <1>23, <1>24, <1>25, <1>26, <1>27, <1>28, <1>29, <1>30, <1>31, <1>32
     DEF Next, Helper, Mmi, User, Network

-----------------------------------------------------------------------------
(***************************************************************************)
(* The URL of a page is there until its request is built, for a user who    *)
(* waits for that.                                                          *)
(***************************************************************************)

LEMMA KeptInit == Init => UrlKept
<1> SUFFICES ASSUME Init PROVE UrlKept
  OBVIOUS
<1>1. /\ helperq = <<"StartGetFile">> /\ mmiq = <<>> /\ hp = "idle" /\ dnr.open = {}
      /\ connect_state = 0 /\ sock = NoSock
  BY DEF Init
<1>2. \A p : Queued(p) => p = "StartGetFile"
  BY <1>1 DEF Queued, In
<1>3. \A K : ~ Sent(K)
  BY <1>1 DEF Sent, Has
<1>4. \A p, r : Once(helperq, p) /\ (p # r => Before(helperq, p, r))
  BY <1>1 DEF Once, Before
<1>5. ~ Building
  BY <1>1, <1>2, <1>3 DEF Building, Connecting, LookingUp, Awaited
<1> QED  BY <1>1, <1>2, <1>3, <1>4, <1>5 DEF UrlKept, UrlAwaits, SendAwaits, StopsFirst

\* Steps that are not about the building, the sending or the stopping of a page.
LEMMA BuildingQuiet ==
  ASSUME KeepsProcs({"create_connect", "SendPost"}), KeepsMsgs({"DNR"}),
         dnr'.open = dnr.open, Connecting' => Connecting,
         connect_state' = 1 => connect_state = 1
  PROVE  Building' => Building
BY DEF KeepsProcs, KeepsMsgs, Building, LookingUp, Awaited, Queued, Sent

LEMMA AwaitsQuiet ==
  ASSUME UrlAwaits, Building' => Building, UNCHANGED <<URL, view>>,
         KeepsProcs({"StartGetFile", "StopINET", "free_socket", "end_socket", "SendPost"}),
         hp' = "StopINET" => hp = "StopINET"
  PROVE  UrlAwaits'
<1>1. \A p \in {"StartGetFile", "StopINET", "free_socket", "end_socket", "SendPost"} :
        Queued(p)' <=> Queued(p)
  BY DEF KeepsProcs, Queued
<1> QED  BY <1>1 DEF UrlAwaits

LEMMA SendQuiet ==
  ASSUME SendAwaits, KeepsProcs({"SendPost"}), Alive(sock) => Alive(sock)',
         connect_state' = 1 => connect_state = 1,
         connect_state \notin {0, 1} => connect_state' \notin {0, 1},
         hp' = "connecting" => hp = "connecting"
  PROVE  SendAwaits'
<1>1. /\ Queued("SendPost")' <=> Queued("SendPost")
      /\ Once(helperq', "SendPost") /\ Before(helperq', "SendPost", "end_socket")
  BY DEF KeepsProcs, Queued, SendAwaits
<1> QED  BY <1>1 DEF SendAwaits

LEMMA StopsQuiet ==
  ASSUME StopsFirst, UNCHANGED sock, hp' = "StopINET" <=> hp = "StopINET",
         KeepsProcs({"StartGetFile", "StopINET", "free_socket", "end_socket", "GotoLink"}),
         KeepsMsgs({"GOTO_URL"}), KeepsMsgs({"GUI_DESTROYED"})
  PROVE  StopsFirst'
<1>1. /\ \A p \in {"StartGetFile", "StopINET", "GotoLink"} : Queued(p)' <=> Queued(p)
      /\ Before(helperq', "end_socket", "StartGetFile")
      /\ Before(helperq', "free_socket", "StartGetFile")
      /\ Before(helperq', "StopINET", "GotoLink")
      /\ First(helperq, "StopINET", {"GotoLink"}) => First(helperq', "StopINET", {"GotoLink"})
  BY DEF KeepsProcs, Queued, StopsFirst
<1>2. /\ Sent({"GOTO_URL"})' <=> Sent({"GOTO_URL"})
      /\ Sent({"GUI_DESTROYED"})' <=> Sent({"GUI_DESTROYED"})
  BY DEF KeepsMsgs, Sent
<1> QED  BY <1>1, <1>2 DEF StopsFirst

\* While a page is shown and loaded, none is about to be.
LEMMA StopsWhileShown ==
  ASSUME StopsFirst, OneOpening, view # 0, ~ Queued("StartGetFile"),
         KeepsProcs({"StartGetFile", "StopINET", "free_socket", "end_socket", "GotoLink"}),
         KeepsMsgs({"GOTO_URL"}), KeepsMsgs({"GUI_DESTROYED"})
  PROVE  StopsFirst'
<1>1. ~ Queued("GotoLink") /\ ~ Sent({"GOTO_URL"}) /\ ~ Sent({"GUI_DESTROYED"})
  BY DEF OneOpening, Sent, Has, Opening
<1>2. /\ \A p \in {"StartGetFile", "GotoLink"} : Queued(p)' <=> Queued(p)
      /\ Before(helperq', "end_socket", "StartGetFile")
      /\ Before(helperq', "free_socket", "StartGetFile")
      /\ Before(helperq', "StopINET", "GotoLink")
  BY DEF KeepsProcs, Queued, StopsFirst
<1>3. ~ Sent({"GOTO_URL"})' /\ ~ Sent({"GUI_DESTROYED"})'
  BY <1>1 DEF KeepsMsgs, Sent
<1> QED  BY <1>1, <1>2, <1>3 DEF StopsFirst

LEMMA KeptStep ==
  ASSUME Types, LoadInv, ClosesOnce, OneConnecting, SockHeld, UrlKept, ~ HurriedUser, Next
  PROVE  UrlKept'
<1>0. /\ OneOpening /\ OneLoading /\ UrlAwaits /\ SendAwaits /\ StopsFirst
      /\ connect_state \in -1 .. 3 /\ sock \in Socks \cup {NoSock} /\ NoSock \notin Socks
      /\ hp \in HelperSteps
  BY SocksAssumption DEF LoadInv, UrlKept, Types, InetTypes, HelperTypes, NoSock
<1>1. connect_state # 0 => ~ Connecting /\ ~ LookingUp /\ ~ Queued("create_connect")
  BY DEF OneConnecting
\* What is shown while a request is built.
<1>2. Building => view # 0 /\ ~ Queued("StartGetFile") /\ hp # "StopINET"
  BY <1>0 DEF UrlAwaits
<1>3. ASSUME Building, UNCHANGED <<URL, view>>, hp' # "StopINET",
             KeepsProcs({"StartGetFile", "StopINET", "free_socket", "end_socket", "SendPost"})
      PROVE  UrlAwaits'
  BY <1>0, <1>3, AwaitsQuiet
<1>4. ~ Building' => UrlAwaits'
  BY DEF UrlAwaits
<1>5. ASSUME KeepsProcs({"SendPost"}), ~ Queued("SendPost"), connect_state' # 1,
             hp' # "connecting"
      PROVE  SendAwaits'
  BY <1>0, <1>5 DEF SendAwaits, KeepsProcs, Queued
\* What the queues are after an action that leaves what is in them for a page.
<1>6. /\ Building <=> Connecting \/ LookingUp \/ Queued("create_connect") \/ connect_state = 1
                        \/ Queued("SendPost")
      /\ Building' <=> Connecting' \/ LookingUp' \/ Queued("create_connect")'
                         \/ connect_state' = 1 \/ Queued("SendPost")'
  BY DEF Building, Awaited
<1>7. ASSUME KeepsProcs({"StartGetFile", "StopINET", "free_socket", "end_socket", "SendPost", "GotoLink", "create_connect"}),
             KeepsMsgs({"DNR"}), KeepsMsgs({"GOTO_URL"}), KeepsMsgs({"GUI_DESTROYED"}),
             UNCHANGED <<URL, view, sock, dnr>>, \A s \in Socks : Alive(s) => Alive(s)',
             hp' = "StopINET" <=> hp = "StopINET",
             hp' \notin {"StartINET", "socket", "connect", "connecting"} \/ UNCHANGED hp,
             connect_state' = 1 <=> connect_state = 1, connect_state' = 0 <=> connect_state = 0
      PROVE  UrlKept'
  <2>1. Building' => Building
    BY <1>7, BuildingQuiet DEF KeepsProcs, Connecting
  <2>2. UrlAwaits'
    BY <1>0, <1>7, <2>1, AwaitsQuiet DEF KeepsProcs
  <2>3. Alive(sock) => Alive(sock)'
    BY <1>7 DEF Alive
  <2>4. SendAwaits'
    BY <1>0, <1>7, <2>3, SendQuiet DEF KeepsProcs
  <2>5. StopsFirst'
    BY <1>0, <1>7, StopsQuiet DEF KeepsProcs
  <2> QED  BY <2>2, <2>4, <2>5 DEF UrlKept
<1>8. CASE StartINET
  <2>1. /\ Queued("StartGetFile") /\ hp = "idle" /\ ~ In(helperq', "StartGetFile")
        /\ ~ Queued("free_socket") /\ ~ Queued("end_socket") /\ ~ Queued("StopINET")
        /\ sock = NoSock /\ ~ Building
    BY <1>8, <1>0, DequeueStep DEF StartINET, Queued, StopsFirst, OneLoading, UrlAwaits
  <2>2. KeepsProcs({"StopINET", "free_socket", "end_socket", "SendPost", "GotoLink", "create_connect"})
    BY <1>8, ProcsKept
  <2>3. UNCHANGED <<mmiq, dnr, connect_state, sock, view, conns>>
    BY <1>8 DEF StartINET, osVars
  <2>4. hp' = "idle" \/ (hp' = "StartINET" /\ URL' # NULL /\ view # 0)
    BY <1>8, <1>0, <2>1 DEF StartINET, OneOpening
  <2>5. UrlAwaits'
    <3>1. CASE hp' = "idle"
      <4>1. ~ Building'
        BY <1>6, <2>1, <2>2, <2>3, <3>1 DEF KeepsProcs, Queued, Connecting, LookingUp, Sent
      <4> QED  BY <1>4, <4>1
    <3>2. CASE hp' = "StartINET" /\ URL' # NULL /\ view # 0
      BY <2>1, <2>2, <2>3, <3>2 DEF UrlAwaits, KeepsProcs, Queued
    <3> QED  BY <2>4, <3>1, <3>2
  <2>6. SendAwaits'
    BY <1>5, <1>6, <2>1, <2>2, <2>3, <2>4 DEF KeepsProcs
  <2>7. /\ Before(helperq', "end_socket", "StartGetFile")
        /\ Before(helperq', "free_socket", "StartGetFile")
        /\ Before(helperq', "StopINET", "GotoLink")
        /\ ~ Queued("StopINET")' /\ hp' # "StopINET"
    BY <1>0, <2>1, <2>2, <2>4 DEF KeepsProcs, StopsFirst, Queued
  <2>8. StopsFirst'
    BY <2>1, <2>3, <2>7 DEF StopsFirst, Queued
  <2> QED  BY <2>5, <2>6, <2>8 DEF UrlKept
<1>9. CASE StartINETQueues
  <2>1. /\ Building /\ hp' = "idle" /\ hp = "StartINET"
        /\ UNCHANGED <<mmiq, dnr, connect_state, sock, view, URL, conns>>
    BY <1>9 DEF StartINETQueues, Building, Connecting, osVars, inetVars, viewVars
  <2>2. /\ KeepsProcs({"StartGetFile", "StopINET", "free_socket", "end_socket", "SendPost", "GotoLink"})
        /\ KeepsMsgs({"DNR"}) /\ KeepsMsgs({"GOTO_URL"}) /\ KeepsMsgs({"GUI_DESTROYED"})
    BY <1>9, ProcsKept, MsgsKept
  <2>3. UrlAwaits'
    BY <1>3, <2>1, <2>2 DEF KeepsProcs
  <2>4. SendAwaits'
    BY <1>0, <2>1, <2>2, SendQuiet DEF KeepsProcs, Alive
  <2>5. StopsFirst'
    BY <1>0, <2>1, <2>2, StopsQuiet DEF KeepsProcs
  <2> QED  BY <2>3, <2>4, <2>5 DEF UrlKept
<1>10. CASE create_connect
  <2>1. /\ Building /\ Queued("create_connect") /\ connect_state = 0 /\ hp = "idle"
    BY <1>10, DequeueStep DEF create_connect, Building, Queued, OneConnecting
  <2>2. /\ hp' \in {"idle", "socket"} /\ connect_state' = 0
        /\ UNCHANGED <<sock, view, URL>>
    BY <1>10, <2>1 DEF create_connect, WaitDNR, viewVars
  <2>3. /\ KeepsProcs({"StartGetFile", "StopINET", "free_socket", "end_socket", "SendPost", "GotoLink"})
        /\ KeepsMsgs({"DNR"}) /\ KeepsMsgs({"GOTO_URL"}) /\ KeepsMsgs({"GUI_DESTROYED"})
    BY <1>10, ProcsKept, MsgsKept
  <2>4. UrlAwaits'
    BY <1>3, <2>1, <2>2, <2>3 DEF KeepsProcs
  <2>5. SendAwaits'
    BY <1>0, <1>5, <2>1, <2>2, <2>3 DEF KeepsProcs, SendAwaits
  <2>6. StopsFirst'
    BY <1>0, <2>1, <2>2, <2>3, StopsQuiet DEF KeepsProcs
  <2> QED  BY <2>4, <2>5, <2>6 DEF UrlKept
<1>11. CASE OpenSocket
  <2>1. /\ Building /\ connect_state = 0 /\ ~ Queued("SendPost")
        /\ UNCHANGED <<view, URL>> /\ hp' # "StopINET"
    BY <1>11, <1>0 DEF OpenSocket, Building, Connecting, OneConnecting, SendAwaits, viewVars
  <2>2. /\ KeepsProcs({"StartGetFile", "StopINET", "free_socket", "end_socket", "SendPost", "GotoLink", "create_connect"})
        /\ KeepsMsgs({"DNR"}) /\ KeepsMsgs({"GOTO_URL"}) /\ KeepsMsgs({"GUI_DESTROYED"})
    BY <1>11, ProcsKept, MsgsKept
  <2>3. UrlAwaits'
    BY <1>3, <2>1, <2>2 DEF KeepsProcs
  <2>4. StopsFirst'
    BY <1>0, <1>2, <2>1, <2>2, StopsWhileShown DEF KeepsProcs
  <2>5. SendAwaits'
    BY <1>11, <1>5, <2>1, <2>2 DEF KeepsProcs, OpenSocket
  <2> QED  BY <2>3, <2>4, <2>5 DEF UrlKept
<1>12. CASE Connect
  <2>1. /\ Building /\ connect_state = 0 /\ ~ Queued("SendPost")
        /\ UNCHANGED <<view, URL>> /\ hp' # "StopINET"
    BY <1>12, <1>0 DEF Connect, Building, Connecting, OneConnecting, SendAwaits, viewVars
  <2>2. /\ KeepsProcs({"StartGetFile", "StopINET", "free_socket", "end_socket", "SendPost", "GotoLink", "create_connect"})
        /\ KeepsMsgs({"DNR"}) /\ KeepsMsgs({"GOTO_URL"}) /\ KeepsMsgs({"GUI_DESTROYED"})
    BY <1>12, ProcsKept, MsgsKept
  <2>3. UrlAwaits'
    BY <1>3, <2>1, <2>2 DEF KeepsProcs
  <2>4. StopsFirst'
    BY <1>0, <1>2, <2>1, <2>2, StopsWhileShown DEF KeepsProcs
  <2>5. SendAwaits'
    <3>1. connect_state' = 0 /\ hp' \in {"idle", "connecting"}
      BY <1>12, <2>1 DEF Connect
    <3>2. hp' = "connecting" => Alive(sock)'
      <4>1. hp' = "connecting" => sock' = sock /\ Becomes(sock, "connecting") /\ sock \in Socks
        BY <1>12, StatesStep DEF Connect, Types, HelperTypes
      <4> QED  BY <4>1 DEF Becomes, Alive
    <3> QED  BY <1>0, <2>1, <2>2, <3>1, <3>2 DEF KeepsProcs, Queued, SendAwaits
  <2> QED  BY <2>3, <2>4, <2>5 DEF UrlKept
<1>13. CASE ConnectReturns
  <2>1. /\ Building /\ connect_state = 0 /\ ~ Queued("SendPost")
        /\ UNCHANGED <<view, URL>> /\ hp' # "StopINET"
    BY <1>13, <1>0 DEF ConnectReturns, Building, Connecting, OneConnecting, SendAwaits, viewVars
  <2>2. /\ KeepsProcs({"StartGetFile", "StopINET", "free_socket", "end_socket", "SendPost", "GotoLink", "create_connect"})
        /\ KeepsMsgs({"DNR"}) /\ KeepsMsgs({"GOTO_URL"}) /\ KeepsMsgs({"GUI_DESTROYED"})
    BY <1>13, ProcsKept, MsgsKept
  <2>3. UrlAwaits'
    BY <1>3, <2>1, <2>2 DEF KeepsProcs
  <2>4. StopsFirst'
    BY <1>0, <1>2, <2>1, <2>2, StopsWhileShown DEF KeepsProcs
  <2>5. SendAwaits'
    <3>1. hp = "connecting" /\ UNCHANGED <<sock, conns>>
      BY <1>13 DEF ConnectReturns, osVars
    <3>2. Alive(sock)'
      BY <1>0, <3>1 DEF SendAwaits, Alive
    <3> QED  BY <1>0, <2>1, <2>2, <3>2 DEF KeepsProcs, Queued, SendAwaits
  <2> QED  BY <2>3, <2>4, <2>5 DEF UrlKept
<1>14. CASE SendPost
  <2>1. /\ Queued("SendPost") /\ ~ In(helperq', "SendPost") /\ Once(helperq', "SendPost")
        /\ Before(helperq', "SendPost", "end_socket") /\ hp = "idle"
    BY <1>14, <1>0, DequeueStep DEF SendPost, Queued, SendAwaits
  <2>2. /\ KeepsProcs({"StartGetFile", "StopINET", "free_socket", "end_socket", "GotoLink", "create_connect"})
        /\ KeepsMsgs({"DNR"}) /\ KeepsMsgs({"GOTO_URL"}) /\ KeepsMsgs({"GUI_DESTROYED"})
    BY <1>14, ProcsKept, MsgsKept
  <2>3. UNCHANGED <<connect_state, dnr, sock, view, mmiq>> /\ hp' \in {"idle", "bsend"}
    BY <1>14 DEF SendPost, osVars, viewVars
  <2>4. connect_state \notin {0, 1}
    BY <1>0, <2>1 DEF SendAwaits
  <2>5. ~ Building'
    BY <1>1, <1>6, <2>1, <2>2, <2>3, <2>4
       DEF KeepsProcs, Queued, Connecting, LookingUp, Sent
  <2>6. SendAwaits'
    BY <2>1, <2>3, <2>4 DEF SendAwaits, Queued
  <2>7. StopsFirst'
    BY <1>0, <2>1, <2>2, <2>3, StopsQuiet DEF KeepsProcs
  <2> QED  BY <1>4, <2>5, <2>6, <2>7 DEF UrlKept
<1>15. CASE ResumeSend
  <2>1. /\ KeepsProcs({"StartGetFile", "StopINET", "free_socket", "end_socket", "SendPost", "GotoLink", "create_connect"})
        /\ KeepsMsgs({"DNR"}) /\ KeepsMsgs({"GOTO_URL"}) /\ KeepsMsgs({"GUI_DESTROYED"})
    BY <1>15, ProcsKept, MsgsKept
  <2>2. UNCHANGED <<URL, view, sock, dnr>> /\ StatesKept
    BY <1>15, StatesStep DEF ResumeSend, inetVars, viewVars, osVars, Mmi
  <2>3. /\ hp' = "StopINET" <=> hp = "StopINET"
        /\ hp' \notin {"StartINET", "socket", "connect", "connecting"} \/ UNCHANGED hp
        /\ connect_state' = 1 <=> connect_state = 1
        /\ connect_state' = 0 <=> connect_state = 0
    BY <1>0, <1>15 DEF ResumeSend, inetVars, helperVars, Starts
  <2> QED  BY <1>7, <2>1, <2>2, <2>3, AliveStep
<1>16. CASE bsend
  <2>1. /\ KeepsProcs({"StartGetFile", "StopINET", "free_socket", "end_socket", "SendPost", "GotoLink", "create_connect"})
        /\ KeepsMsgs({"DNR"}) /\ KeepsMsgs({"GOTO_URL"}) /\ KeepsMsgs({"GUI_DESTROYED"})
    BY <1>16, ProcsKept, MsgsKept
  <2>2. UNCHANGED <<URL, view, sock, dnr>> /\ StatesKept
    BY <1>16, StatesStep DEF bsend, inetVars, viewVars, osVars, Mmi
  <2>3. /\ hp' = "StopINET" <=> hp = "StopINET"
        /\ hp' \notin {"StartINET", "socket", "connect", "connecting"} \/ UNCHANGED hp
        /\ connect_state' = 1 <=> connect_state = 1
        /\ connect_state' = 0 <=> connect_state = 0
    BY <1>0, <1>16 DEF bsend, inetVars, helperVars
  <2> QED  BY <1>7, <2>1, <2>2, <2>3, AliveStep
<1>17. CASE get_answer
  <2>1. /\ KeepsProcs({"StartGetFile", "StopINET", "free_socket", "end_socket", "SendPost", "GotoLink", "create_connect"})
        /\ KeepsMsgs({"DNR"}) /\ KeepsMsgs({"GOTO_URL"}) /\ KeepsMsgs({"GUI_DESTROYED"})
    BY <1>17, ProcsKept, MsgsKept
  <2>2. UNCHANGED <<URL, view, sock, dnr>> /\ StatesKept
    BY <1>17, StatesStep DEF get_answer, inetVars, viewVars, osVars, Mmi
  <2>3. /\ hp' = "StopINET" <=> hp = "StopINET"
        /\ hp' \notin {"StartINET", "socket", "connect", "connecting"} \/ UNCHANGED hp
        /\ connect_state' = 1 <=> connect_state = 1
        /\ connect_state' = 0 <=> connect_state = 0
    BY <1>0, <1>17 DEF get_answer, inetVars, helperVars, Starts
  <2> QED  BY <1>7, <2>1, <2>2, <2>3, AliveStep
<1>18. CASE PostData
  <2>1. /\ KeepsProcs({"StartGetFile", "StopINET", "free_socket", "end_socket", "SendPost", "GotoLink", "create_connect"})
        /\ KeepsMsgs({"DNR"}) /\ KeepsMsgs({"GOTO_URL"}) /\ KeepsMsgs({"GUI_DESTROYED"})
    BY <1>18, ProcsKept, MsgsKept
  <2>2. UNCHANGED <<URL, view, sock, dnr>> /\ StatesKept
    BY <1>18, StatesStep DEF PostData, inetVars, viewVars, osVars, Mmi
  <2>3. /\ hp' = "StopINET" <=> hp = "StopINET"
        /\ hp' \notin {"StartINET", "socket", "connect", "connecting"} \/ UNCHANGED hp
        /\ connect_state' = 1 <=> connect_state = 1
        /\ connect_state' = 0 <=> connect_state = 0
    BY <1>0, <1>18 DEF PostData, inetVars, helperVars
  <2> QED  BY <1>7, <2>1, <2>2, <2>3, AliveStep
<1>19. CASE end_socket
  <2>1. /\ Queued("end_socket") /\ ~ Queued("SendPost") /\ hp = "idle" /\ ~ Building
        /\ Before(helperq', "end_socket", "StartGetFile")
    BY <1>19, <1>0, DequeueStep DEF end_socket, Queued, SendAwaits, StopsFirst, UrlAwaits
  <2>2. /\ KeepsProcs({"StartGetFile", "StopINET", "free_socket", "SendPost", "GotoLink", "create_connect"})
        /\ KeepsMsgs({"DNR"}) /\ KeepsMsgs({"GOTO_URL"}) /\ KeepsMsgs({"GUI_DESTROYED"})
    BY <1>19, ProcsKept, MsgsKept
  <2>3. UNCHANGED <<connect_state, dnr, sock, view, hp>>
    BY <1>19 DEF end_socket, viewVars
  <2>4. ~ Building'
    BY <2>1, <2>2, <2>3, BuildingQuiet DEF KeepsProcs, Connecting
  <2>5. SendAwaits'
    BY <1>5, <1>6, <2>1, <2>2, <2>3, <2>4 DEF KeepsProcs
  <2>6. StopsFirst'
    BY <1>0, <2>1, <2>2, <2>3 DEF StopsFirst, KeepsProcs, KeepsMsgs, Queued, Sent
  <2> QED  BY <1>4, <2>4, <2>5, <2>6 DEF UrlKept
<1>20. CASE free_socket
  <2>1. /\ Queued("free_socket") /\ hp = "idle" /\ ~ Building
        /\ Before(helperq', "free_socket", "StartGetFile")
    BY <1>20, <1>0, DequeueStep DEF free_socket, Queued, StopsFirst, UrlAwaits
  <2>2. /\ KeepsProcs({"StartGetFile", "StopINET", "end_socket", "SendPost", "GotoLink", "create_connect"})
        /\ KeepsMsgs({"DNR"}) /\ KeepsMsgs({"GOTO_URL"}) /\ KeepsMsgs({"GUI_DESTROYED"})
    BY <1>20, ProcsKept, MsgsKept
  <2>3. UNCHANGED <<dnr, view, hp>> /\ connect_state' = 0 /\ sock' = NoSock
    BY <1>20 DEF free_socket, FreeSocket
  <2>4. ~ Building'
    BY <2>1, <2>2, <2>3, BuildingQuiet DEF KeepsProcs, Connecting
  <2>5. SendAwaits'
    BY <1>5, <1>6, <2>1, <2>2, <2>3, <2>4 DEF KeepsProcs
  <2>6. StopsFirst'
    BY <1>0, <2>1, <2>2, <2>3 DEF StopsFirst, KeepsProcs, KeepsMsgs, Queued, Sent
  <2> QED  BY <1>4, <2>4, <2>5, <2>6 DEF UrlKept
<1>21. CASE StopINET
  <2>1. /\ Queued("StopINET") /\ hp = "idle" /\ ~ Building
        /\ Before(helperq', "StopINET", "GotoLink")
    BY <1>21, <1>0, DequeueStep DEF StopINET, Queued, StopsFirst, UrlAwaits
  <2>2. /\ KeepsProcs({"StartGetFile", "free_socket", "end_socket", "SendPost", "GotoLink", "create_connect"})
        /\ KeepsMsgs({"DNR"}) /\ KeepsMsgs({"GOTO_URL"}) /\ KeepsMsgs({"GUI_DESTROYED"})
    BY <1>21, ProcsKept, MsgsKept
  <2>3. UNCHANGED <<dnr, view, sock, connect_state>> /\ hp' = "StopINET"
    BY <1>21 DEF StopINET, viewVars
  <2>4. ~ Building'
    BY <2>1, <2>2, <2>3, BuildingQuiet DEF KeepsProcs, Connecting
  <2>5. SendAwaits'
    BY <1>5, <1>6, <2>1, <2>2, <2>3, <2>4 DEF KeepsProcs
  <2>6. StopsFirst'
    BY <1>0, <2>1, <2>2, <2>3 DEF StopsFirst, KeepsProcs, KeepsMsgs, Queued, Sent
  <2> QED  BY <1>4, <2>4, <2>5, <2>6 DEF UrlKept
<1>22. CASE StopINETFrees
  <2>1. hp = "StopINET" /\ ~ Building
    BY <1>22, <1>0 DEF StopINETFrees, UrlAwaits
  <2>2. /\ KeepsProcs({"StartGetFile", "StopINET", "free_socket", "end_socket", "SendPost", "GotoLink", "create_connect"})
        /\ KeepsMsgs({"DNR"}) /\ KeepsMsgs({"GOTO_URL"}) /\ KeepsMsgs({"GUI_DESTROYED"})
    BY <1>22, ProcsKept, MsgsKept
  <2>3. /\ UNCHANGED <<dnr, view, helperq>> /\ hp' = "idle" /\ connect_state' = 0
        /\ sock' = NoSock
    BY <1>22 DEF StopINETFrees, FreeSocket
  <2>4. ~ Building'
    BY <2>1, <2>2, <2>3, BuildingQuiet DEF KeepsProcs, Connecting
  <2>5. SendAwaits'
    BY <1>5, <1>6, <2>1, <2>2, <2>3, <2>4 DEF KeepsProcs
  <2>6. StopsFirst'
    BY <1>0, <2>1, <2>2, <2>3 DEF StopsFirst, KeepsProcs, KeepsMsgs, Queued, Sent
  <2> QED  BY <1>4, <2>4, <2>5, <2>6 DEF UrlKept
<1>23. CASE GotoLink
  <2>1. /\ Queued("GotoLink") /\ hp = "idle" /\ ~ Queued("StopINET")
        /\ ~ First(helperq, "StopINET", {"GotoLink"})
    BY <1>23, <1>0, DequeueStep DEF GotoLink, Queued, StopsFirst
  <2>2. sock = NoSock
    BY <1>0, <2>1 DEF StopsFirst
  <2>3. /\ KeepsProcs({"StartGetFile", "StopINET", "free_socket", "end_socket", "SendPost", "create_connect"})
        /\ KeepsMsgs({"DNR"})
    BY <1>23, ProcsKept, MsgsKept
  <2>4. UNCHANGED <<URL, view, sock, connect_state, dnr, hp, conns>>
    BY <1>23 DEF GotoLink, inetVars, viewVars
  <2>5. UrlAwaits'
    BY <1>0, <2>3, <2>4, AwaitsQuiet, BuildingQuiet DEF KeepsProcs, Connecting
  <2>6. SendAwaits'
    BY <1>0, <2>3, <2>4, SendQuiet DEF KeepsProcs, Alive
  <2>7. StopsFirst'
    BY <1>0, <2>1, <2>2, <2>3, <2>4 DEF StopsFirst, KeepsProcs, Queued
  <2> QED  BY <2>5, <2>6, <2>7 DEF UrlKept
<1>24. CASE OnDNR
  <2>1. Building
    BY <1>24, ConsumeStep DEF OnDNR, Building, LookingUp, Sent
  <2>2. /\ KeepsProcs({"StartGetFile", "StopINET", "free_socket", "end_socket", "SendPost", "GotoLink"})
        /\ KeepsMsgs({"GOTO_URL"}) /\ KeepsMsgs({"GUI_DESTROYED"})
    BY <1>24, ProcsKept, MsgsKept
  <2>3. UNCHANGED <<URL, view, sock, connect_state, hp, conns>>
    BY <1>24 DEF OnDNR, inetVars, viewVars
  <2>4. UrlAwaits'
    BY <1>2, <1>3, <2>1, <2>2, <2>3 DEF KeepsProcs
  <2>5. SendAwaits'
    BY <1>0, <2>2, <2>3, SendQuiet DEF KeepsProcs, Alive
  <2>6. StopsFirst'
    BY <1>0, <2>2, <2>3, StopsQuiet DEF KeepsProcs
  <2> QED  BY <2>4, <2>5, <2>6 DEF UrlKept
<1>25. CASE OnConnected
  <2>1. /\ KeepsProcs({"StartGetFile", "StopINET", "free_socket", "end_socket", "GotoLink", "create_connect"})
        /\ KeepsMsgs({"DNR"}) /\ KeepsMsgs({"GOTO_URL"}) /\ KeepsMsgs({"GUI_DESTROYED"})
    BY <1>25, ProcsKept, MsgsKept
  <2>2. UNCHANGED <<URL, view, sock, dnr, hp, conns>>
    BY <1>25 DEF OnConnected, viewVars
  <2>3. StopsFirst'
    BY <1>0, <2>1, <2>2, StopsQuiet DEF KeepsProcs
  <2>4. CASE connect_state = 1 /\ connect_state' = 2 /\ SUBPROC("SendPost")
    <3>1. /\ Building /\ Alive(sock) /\ ~ Queued("SendPost") /\ ~ Queued("end_socket")
      BY <1>0, <2>4 DEF SendAwaits, UrlAwaits, Building, Awaited
    <3>2. /\ Once(helperq', "SendPost") /\ Before(helperq', "SendPost", "end_socket")
          /\ Queued("SendPost")'
      BY <1>0, <2>4, <3>1, SubprocStep DEF Queued, Procs, SendAwaits
    <3>3. SendAwaits'
      BY <2>2, <2>4, <3>1, <3>2 DEF SendAwaits, Alive
    <3>4. UrlAwaits'
      BY <1>0, <2>1, <2>2, <3>1, <3>2 DEF UrlAwaits, KeepsProcs, Queued
    <3> QED  BY <2>3, <3>3, <3>4 DEF UrlKept
  <2>5. CASE UNCHANGED <<connect_state, helperq>>
    <3>1. KeepsProcs({"SendPost"})
      BY <2>5, QueueKept
    <3>2. UrlAwaits'
      BY <1>0, <2>1, <2>2, <2>5, <3>1, AwaitsQuiet, BuildingQuiet DEF KeepsProcs, Connecting
    <3>3. SendAwaits'
      BY <1>0, <2>2, <2>5, <3>1, SendQuiet DEF Alive
    <3> QED  BY <2>3, <3>2, <3>3 DEF UrlKept
  <2> QED  BY <1>25, <2>4, <2>5 DEF OnConnected
<1>26. CASE OnDataRead
  <2>1. /\ KeepsProcs({"StartGetFile", "StopINET", "free_socket", "end_socket", "SendPost", "GotoLink", "create_connect"})
        /\ KeepsMsgs({"DNR"}) /\ KeepsMsgs({"GOTO_URL"}) /\ KeepsMsgs({"GUI_DESTROYED"})
    BY <1>26, ProcsKept, MsgsKept
  <2>2. UNCHANGED <<URL, view, sock, dnr>> /\ StatesKept
    BY <1>26, StatesStep DEF OnDataRead, inetVars, viewVars, osVars, Mmi
  <2>3. /\ hp' = "StopINET" <=> hp = "StopINET"
        /\ hp' \notin {"StartINET", "socket", "connect", "connecting"} \/ UNCHANGED hp
        /\ connect_state' = 1 <=> connect_state = 1
        /\ connect_state' = 0 <=> connect_state = 0
    BY <1>0, <1>26 DEF OnDataRead, inetVars, helperVars
  <2> QED  BY <1>7, <2>1, <2>2, <2>3, AliveStep
<1>27. CASE OnBufferFree
  <2>1. /\ KeepsProcs({"StartGetFile", "StopINET", "free_socket", "end_socket", "SendPost", "GotoLink", "create_connect"})
        /\ KeepsMsgs({"DNR"}) /\ KeepsMsgs({"GOTO_URL"}) /\ KeepsMsgs({"GUI_DESTROYED"})
    BY <1>27, ProcsKept, MsgsKept
  <2>2. UNCHANGED <<URL, view, sock, dnr>> /\ StatesKept
    BY <1>27, StatesStep DEF OnBufferFree, inetVars, viewVars, osVars, Mmi
  <2>3. /\ hp' = "StopINET" <=> hp = "StopINET"
        /\ hp' \notin {"StartINET", "socket", "connect", "connecting"} \/ UNCHANGED hp
        /\ connect_state' = 1 <=> connect_state = 1
        /\ connect_state' = 0 <=> connect_state = 0
    BY <1>0, <1>27 DEF OnBufferFree, inetVars, helperVars
  <2> QED  BY <1>7, <2>1, <2>2, <2>3, AliveStep
<1>28. CASE OnClosed
  <2>1. /\ Head(mmiq).arg \in Socks /\ UNCHANGED <<hp, sock, conns, URL, view, dnr>>
        /\ Handles("REMOTE_CLOSED") \/ Handles("CLOSED")
    BY <1>28, EndsTyped DEF OnClosed, SocketEvents, viewVars
  <2>2. KeepsMsgs({"DNR"}) /\ KeepsMsgs({"GOTO_URL"}) /\ KeepsMsgs({"GUI_DESTROYED"})
    BY <1>28, MsgsKept DEF Ends
  <2>3. KeepsProcs({"StartGetFile", "StopINET", "SendPost", "GotoLink", "create_connect"})
    BY <1>28, ProcsKept
  <2>4. Ours => ~ Queued("StartGetFile") /\ ~ Sent({"GOTO_URL"})
    BY <1>0, <2>1 DEF Ours, StopsFirst
  <2>5. /\ Before(helperq', "StopINET", "GotoLink")
        /\ Queued("StartGetFile")' \/ Sent({"GOTO_URL"})' =>
             sock' = NoSock /\ hp' # "StopINET" /\ ~ Queued("StopINET")'
        /\ Queued("GotoLink")' /\ sock' # NoSock =>
             hp' = "StopINET" \/ First(helperq', "StopINET", {"GotoLink"})
        /\ Sent({"GUI_DESTROYED"})' /\ sock' # NoSock => hp' = "StopINET" \/ Queued("StopINET")'
    BY <1>0, <2>1, <2>2, <2>3 DEF StopsFirst, KeepsProcs, KeepsMsgs, Queued, Sent
  <2>6. CASE Ours /\ connect_state = -1
    <3>1. /\ SUBPROC("free_socket") /\ connect_state' = 0
      BY <1>28, <2>6 DEF OnClosed
    <3>2. /\ KeepsProcs({"end_socket"})
          /\ Before(helperq', "free_socket", "StartGetFile")
      BY <1>0, <2>4, <2>6, <3>1, SubprocStep DEF Procs, Queued, StopsFirst
    <3>3. StopsFirst'
      BY <1>0, <2>5, <3>2 DEF StopsFirst, KeepsProcs
    <3>4. ~ Alive(sock)
      <4>1. Head(mmiq).kind # "REMOTE_CLOSED"
        BY <2>1, <2>6, EndsTaken DEF Ours, SockHeld, ClosesOnce, Handles, Types, OsTypes
      <4>2. Head(mmiq).kind = "CLOSED" /\ mmiq # <<>>
        BY <2>1, <4>1 DEF Handles
      <4>3. conns[Head(mmiq).arg].st = "free"
        BY <4>2, EndsTaken DEF ClosesOnce, Types, OsTypes
      <4> QED  BY <2>6, <4>3 DEF Ours, Alive
    <3>5. ~ Building'
      BY <1>0, <1>1, <1>6, <2>1, <2>2, <2>3, <2>6, <3>1, <3>4
         DEF SendAwaits, KeepsProcs, KeepsMsgs, Queued, Connecting, LookingUp, Sent
    <3>6. SendAwaits'
      BY <1>0, <1>5, <2>1, <2>3, <3>1, <3>4 DEF KeepsProcs, SendAwaits
    <3> QED  BY <1>4, <3>3, <3>5, <3>6 DEF UrlKept
  <2>7. CASE Ours /\ connect_state > 0
    <3>1. /\ SUBPROC("end_socket") /\ connect_state' = -1
      BY <1>28, <2>7 DEF OnClosed
    <3>2. /\ KeepsProcs({"free_socket"})
          /\ Before(helperq', "end_socket", "StartGetFile")
      BY <1>0, <2>4, <2>7, <3>1, SubprocStep DEF Procs, Queued, StopsFirst
    <3>3. StopsFirst'
      BY <1>0, <2>5, <3>2 DEF StopsFirst, KeepsProcs
    <3>4. Building' <=> Queued("SendPost")
      BY <1>1, <1>6, <2>1, <2>2, <2>3, <2>7, <3>1
         DEF KeepsProcs, KeepsMsgs, Queued, Connecting, LookingUp, Sent
    <3>5. UrlAwaits'
      BY <1>0, <1>6, <2>1, <2>3, <3>2, <3>4 DEF UrlAwaits, KeepsProcs, Queued
    <3>6. SendAwaits'
      BY <1>0, <2>1, <2>3, <3>1, SendQuiet DEF KeepsProcs, Alive
    <3> QED  BY <3>3, <3>5, <3>6 DEF UrlKept
  <2>8. CASE ~ (Ours /\ connect_state = -1) /\ ~ (Ours /\ connect_state > 0)
    <3>1. UNCHANGED <<connect_state, helperq>>
      BY <1>28, <2>8 DEF OnClosed
    <3>2. UrlAwaits'
      BY <1>0, <2>1, <2>2, <3>1, QueueKept, AwaitsQuiet, BuildingQuiet DEF Connecting
    <3>3. SendAwaits'
      BY <1>0, <2>1, <3>1, QueueKept, SendQuiet DEF Alive
    <3>4. StopsFirst'
      BY <1>0, <2>1, <2>2, <3>1, QueueKept, StopsQuiet
    <3> QED  BY <3>2, <3>3, <3>4 DEF UrlKept
  <2> QED  BY <2>6, <2>7, <2>8
<1>29. CASE OnDataArrived
  <2>1. /\ KeepsProcs({"StartGetFile", "StopINET", "free_socket", "end_socket", "SendPost", "GotoLink", "create_connect"})
        /\ KeepsMsgs({"DNR"}) /\ KeepsMsgs({"GOTO_URL"}) /\ KeepsMsgs({"GUI_DESTROYED"})
    BY <1>29, ProcsKept, MsgsKept
  <2>2. UNCHANGED <<URL, view, sock, dnr>> /\ StatesKept
    BY <1>29, StatesStep DEF OnDataArrived, inetVars, viewVars, osVars, Mmi
  <2>3. /\ hp' = "StopINET" <=> hp = "StopINET"
        /\ hp' \notin {"StartINET", "socket", "connect", "connecting"} \/ UNCHANGED hp
        /\ connect_state' = 1 <=> connect_state = 1
        /\ connect_state' = 0 <=> connect_state = 0
    BY <1>0, <1>29 DEF OnDataArrived, inetVars, helperVars
  <2> QED  BY <1>7, <2>1, <2>2, <2>3, AliveStep
<1>30. CASE OnDataEnd
  <2>1. /\ KeepsProcs({"StartGetFile", "StopINET", "free_socket", "end_socket", "SendPost", "GotoLink", "create_connect"})
        /\ KeepsMsgs({"DNR"}) /\ KeepsMsgs({"GOTO_URL"}) /\ KeepsMsgs({"GUI_DESTROYED"})
    BY <1>30, ProcsKept, MsgsKept
  <2>2. UNCHANGED <<URL, view, sock, dnr>> /\ StatesKept
    BY <1>30, StatesStep DEF OnDataEnd, inetVars, viewVars, osVars, Mmi
  <2>3. /\ hp' = "StopINET" <=> hp = "StopINET"
        /\ hp' \notin {"StartINET", "socket", "connect", "connecting"} \/ UNCHANGED hp
        /\ connect_state' = 1 <=> connect_state = 1
        /\ connect_state' = 0 <=> connect_state = 0
    BY <1>0, <1>30 DEF OnDataEnd, inetVars, helperVars
  <2> QED  BY <1>7, <2>1, <2>2, <2>3, AliveStep
<1>31. CASE OnGotoUrl
  <2>1. Sent({"GOTO_URL"}) /\ view = 0 /\ ~ Has(mmiq', {"GOTO_URL"})
    <3>1. Sent(Opening) /\ Sent({"GOTO_URL"}) /\ ~ Has(mmiq', Opening)
      BY <1>31, <1>0, ConsumeStep DEF OnGotoUrl, Sent, Opening, OneOpening
    <3> QED  BY <1>0, <3>1 DEF OneOpening, Has, Opening
  <2>2. ~ Building /\ sock = NoSock /\ hp # "StopINET" /\ ~ Queued("StopINET")
    BY <1>0, <1>2, <2>1 DEF StopsFirst
  <2>3. /\ KeepsProcs({"StopINET", "free_socket", "end_socket", "SendPost", "GotoLink", "create_connect"})
        /\ KeepsMsgs({"DNR"})
    BY <1>31, ProcsKept, MsgsKept
  <2>4. UNCHANGED <<sock, connect_state, dnr, hp, conns>>
    BY <1>31 DEF OnGotoUrl, inetVars
  <2>5. ~ Building'
    BY <2>2, <2>3, <2>4, BuildingQuiet DEF KeepsProcs, Connecting
  <2>6. SendAwaits'
    BY <1>0, <2>3, <2>4, SendQuiet DEF KeepsProcs, Alive
  <2>7. StopsFirst'
    BY <1>0, <2>2, <2>3, <2>4 DEF StopsFirst, KeepsProcs, Queued
  <2> QED  BY <1>4, <2>5, <2>6, <2>7 DEF UrlKept
<1>32. CASE OnGuiDestroyed
  <2>1. Sent({"GUI_DESTROYED"}) /\ ~ Queued("GotoLink") /\ ~ Has(mmiq', {"GUI_DESTROYED"})
    <3>1. Sent(Opening) /\ Sent({"GUI_DESTROYED"}) /\ ~ Has(mmiq', Opening)
      BY <1>32, <1>0, ConsumeStep DEF OnGuiDestroyed, Sent, Opening, OneOpening
    <3> QED  BY <1>0, <3>1 DEF OneOpening, Has, Opening
  <2>2. /\ KeepsProcs({"StartGetFile", "StopINET", "free_socket", "end_socket", "SendPost", "create_connect"})
        /\ KeepsMsgs({"DNR"}) /\ KeepsMsgs({"GOTO_URL"})
    BY <1>32, ProcsKept, MsgsKept
  <2>3. UNCHANGED <<URL, view, sock, connect_state, dnr, hp, conns>>
    BY <1>32 DEF OnGuiDestroyed, inetVars, viewVars
  <2>4. UrlAwaits'
    BY <1>0, <2>2, <2>3, AwaitsQuiet, BuildingQuiet DEF KeepsProcs, Connecting
  <2>5. SendAwaits'
    BY <1>0, <2>2, <2>3, SendQuiet DEF KeepsProcs, Alive
  <2>6. Queued("StopINET") => First(helperq', "StopINET", {"GotoLink"})
    <3>1. Queued("StopINET") => First(helperq, "StopINET", {"GotoLink"})
      BY <2>1 DEF Queued, In, First
    <3> QED  BY <2>2, <3>1 DEF KeepsProcs
  <2>7. /\ \A p \in {"StartGetFile", "StopINET"} : Queued(p)' <=> Queued(p)
        /\ Before(helperq', "end_socket", "StartGetFile")
        /\ Before(helperq', "free_socket", "StartGetFile")
        /\ Before(helperq', "StopINET", "GotoLink")
        /\ Sent({"GOTO_URL"})' <=> Sent({"GOTO_URL"})
    BY <1>0, <2>2 DEF StopsFirst, KeepsProcs, KeepsMsgs, Queued, Sent
  <2>8. StopsFirst'
    BY <1>0, <2>1, <2>3, <2>6, <2>7 DEF StopsFirst, Sent
  <2> QED  BY <2>4, <2>5, <2>8 DEF UrlKept
<1>33. CASE resend
  <2>1. /\ KeepsProcs({"StartGetFile", "StopINET", "free_socket", "end_socket", "SendPost", "GotoLink", "create_connect"})
        /\ KeepsMsgs({"DNR"}) /\ KeepsMsgs({"GOTO_URL"}) /\ KeepsMsgs({"GUI_DESTROYED"})
    BY <1>33, ProcsKept, MsgsKept
  <2>2. UNCHANGED <<URL, view, sock, dnr>> /\ StatesKept
    BY <1>33, StatesStep DEF resend, inetVars, viewVars, osVars, Mmi
  <2>3. /\ hp' = "StopINET" <=> hp = "StopINET"
        /\ hp' \notin {"StartINET", "socket", "connect", "connecting"} \/ UNCHANGED hp
        /\ connect_state' = 1 <=> connect_state = 1
        /\ connect_state' = 0 <=> connect_state = 0
    BY <1>0, <1>33 DEF resend, inetVars, helperVars
  <2> QED  BY <1>7, <2>1, <2>2, <2>3, AliveStep
<1>34. CASE Leave
  <2>1. /\ view # 0 /\ ~ SettingUp /\ SUBPROC("StopINET")
        /\ UNCHANGED <<sock, connect_state, dnr, hp, conns>>
    BY <1>34 DEF Leave, MayPress, inetVars, osVars
  <2>2. ~ Building /\ ~ Queued("StartGetFile")
    BY <2>1 DEF SettingUp, Building, Connecting, LookingUp, Sent, Has, Queued, In, Awaited
  <2>3. ~ Queued("GotoLink") /\ ~ Sent({"GOTO_URL"}) /\ ~ Sent({"GUI_DESTROYED"})
    BY <1>0, <2>1 DEF OneOpening, Sent, Has, Opening
  <2>4. /\ KeepsProcs({"StartGetFile", "free_socket", "end_socket", "SendPost", "GotoLink", "create_connect"})
        /\ KeepsMsgs({"DNR"}) /\ KeepsMsgs({"GOTO_URL"})
    BY <1>34, ProcsKept, MsgsKept
  <2>5. Queued("StopINET")' /\ Before(helperq', "StopINET", "GotoLink")
    BY <1>0, <2>1, <2>3, SubprocStep DEF Queued, Procs, StopsFirst
  <2>6. ~ Building'
    BY <2>1, <2>2, <2>4, BuildingQuiet DEF KeepsProcs, Connecting
  <2>7. SendAwaits'
    BY <1>0, <2>1, <2>4, SendQuiet DEF KeepsProcs, Alive
  <2>8. StopsFirst'
    BY <1>0, <2>2, <2>3, <2>4, <2>5 DEF StopsFirst, KeepsProcs, KeepsMsgs, Queued, Sent
  <2> QED  BY <1>4, <2>6, <2>7, <2>8 DEF UrlKept
<1>35. CASE PressStop
  <2>1. /\ view # 0 /\ ~ SettingUp /\ SUBPROC("StopINET")
        /\ UNCHANGED <<sock, connect_state, dnr, hp, conns>>
    BY <1>35 DEF PressStop, MayPress, inetVars, osVars
  <2>2. ~ Building /\ ~ Queued("StartGetFile")
    BY <2>1 DEF SettingUp, Building, Connecting, LookingUp, Sent, Has, Queued, In, Awaited
  <2>3. ~ Queued("GotoLink") /\ ~ Sent({"GOTO_URL"}) /\ ~ Sent({"GUI_DESTROYED"})
    BY <1>0, <2>1 DEF OneOpening, Sent, Has, Opening
  <2>4. /\ KeepsProcs({"StartGetFile", "free_socket", "end_socket", "SendPost", "GotoLink", "create_connect"})
        /\ KeepsMsgs({"DNR"}) /\ KeepsMsgs({"GOTO_URL"})
    BY <1>35, ProcsKept, MsgsKept
  <2>5. Queued("StopINET")' /\ Before(helperq', "StopINET", "GotoLink")
    BY <1>0, <2>1, <2>3, SubprocStep DEF Queued, Procs, StopsFirst
  <2>6. ~ Building'
    BY <2>1, <2>2, <2>4, BuildingQuiet DEF KeepsProcs, Connecting
  <2>7. SendAwaits'
    BY <1>0, <2>1, <2>4, SendQuiet DEF KeepsProcs, Alive
  <2>8. StopsFirst'
    BY <1>0, <2>2, <2>3, <2>4, <2>5 DEF StopsFirst, KeepsProcs, KeepsMsgs, Queued, Sent
  <2> QED  BY <1>4, <2>6, <2>7, <2>8 DEF UrlKept
<1>36. ASSUME NEW s \in Socks, \/ NetConnects(s) \/ NetBufferFree(s) \/ ServerAnswers(s)
                               \/ RemoteCloses(s) \/ LocalCloses(s)
      PROVE  UrlKept'
  <2>1. KeepsProcs({"StartGetFile", "StopINET", "free_socket", "end_socket", "SendPost", "GotoLink", "create_connect"})
    BY <1>36, ProcsKept DEF Network
  <2>2. KeepsMsgs({"DNR"}) /\ KeepsMsgs({"GOTO_URL"}) /\ KeepsMsgs({"GUI_DESTROYED"})
    <3>1. PICK e \in SocketEvents : Post(Msg(e, s))
      BY <1>36 DEF NetConnects, NetBufferFree, ServerAnswers, RemoteCloses, LocalCloses,
                  SocketEvents
    <3>2. /\ Msg(e, s) \in Messages /\ Msg(e, s).kind = e
          /\ e \notin {"DNR"} /\ e \notin {"GOTO_URL"} /\ e \notin {"GUI_DESTROYED"}
      BY QueueTypes DEF Msg, SocketEvents
    <3> QED  BY <3>1, <3>2, PostStep
  <2>3. UNCHANGED <<hp, connect_state, dnr, sock, view, URL>>
    BY <1>36 DEF NetConnects, NetBufferFree, ServerAnswers, RemoteCloses, LocalCloses,
                inetVars, helperVars, viewVars
  <2>4. \A t \in Socks : Alive(t) => Alive(t)'
    <3>1. \/ StatesKept \/ Becomes(s, "open") \/ Becomes(s, "remoteClosed")
          \/ (conns[s].st = "closing" /\ Becomes(s, "free"))
      BY <1>36, StatesStep
    <3> QED  BY <3>1 DEF StatesKept, Becomes, Alive
  <2> QED  BY <1>7, <2>1, <2>2, <2>3, <2>4
<1>37. ASSUME NEW q \in dnr.open, DnsAnswers(q) PROVE UrlKept'
  <2>1. Building /\ UNCHANGED <<hp, connect_state, sock, view, URL, conns>>
    BY <1>37 DEF DnsAnswers, Building, LookingUp, inetVars, helperVars, viewVars
  <2>2. KeepsProcs({"StartGetFile", "StopINET", "free_socket", "end_socket", "SendPost", "GotoLink", "create_connect"})
    BY <1>37, ProcsKept DEF Network
  <2>3. KeepsMsgs({"GOTO_URL"}) /\ KeepsMsgs({"GUI_DESTROYED"})
    <3>1. Msg("DNR", q) \in Messages /\ Msg("DNR", q).kind = "DNR" /\ Post(Msg("DNR", q))
      BY <1>37, QueueTypes DEF DnsAnswers, Types, OsTypes, Msg
    <3> QED  BY <3>1, PostStep
  <2>4. UrlAwaits'
    BY <1>2, <1>3, <2>1, <2>2 DEF KeepsProcs
  <2>5. SendAwaits'
    BY <1>0, <2>1, <2>2, SendQuiet DEF KeepsProcs, Alive
  <2>6. StopsFirst'
    BY <1>0, <2>1, <2>2, <2>3, StopsQuiet DEF KeepsProcs
  <2> QED  BY <2>4, <2>5, <2>6 DEF UrlKept
<1> QED
  BY <1>8, <1>9, <1>10, <1>11, <1>12, <1>13, <1>14, <1>15, <1>16, <1>17, <1>18, <1>19, <1>20, <1>21, <1>22, <1>23, <1>24, <1>25, <1>26, <1>27, <1>28, <1>29, <1>30, <1>31, <1>32, <1>33, <1>34, <1>35, <1>36, <1>37
     DEF Next, Helper, Mmi, User, Network


-----------------------------------------------------------------------------
(***************************************************************************)
(* The invariant and what it gives.                                        *)
(***************************************************************************)

LEMMA InvInit == Init => IInv
BY TypesInit, LoadInit, ClosesInit, ConnectingInit, HeldInit, KeptInit DEF IInv, LoadInv

LEMMA InvStutters == IInv /\ Types' /\ UNCHANGED <<vars, world>> => IInv'
<1>a. SUFFICES ASSUME IInv, Types', UNCHANGED <<vars, world>> PROVE IInv'
  OBVIOUS
<1>1. UNCHANGED <<connect_state, sock, URL, FNCACHE, view, view_url, opened, helperq, hp,
                  mmiq, conns, dnr, world>>
  BY <1>a DEF vars, inetVars, viewVars, helperVars, osVars
<1>2. OneOpening /\ OneLoading /\ UrlFreed => (OneOpening /\ OneLoading /\ UrlFreed)'
  BY <1>1 DEF OneOpening, OneLoading, UrlFreed, Dirty, Queued, Sent, Pages
<1>3. ClosesOnce => ClosesOnce'
  BY <1>1 DEF ClosesOnce
<1>4. OneConnecting => OneConnecting'
  BY <1>1 DEF OneConnecting, Connecting, LookingUp, Queued, Sent, HostIsNumeric
<1>5. SockHeld => SockHeld'
  BY <1>1 DEF SockHeld, Alive, Queued
<1>6. UrlKept => UrlKept'
  BY <1>1 DEF UrlKept, UrlAwaits, SendAwaits, StopsFirst, Building, Awaited, Connecting,
              LookingUp, Queued, Sent, Alive
<1>7. (Calm' <=> Calm) /\ (HurriedUser' <=> HurriedUser)
  BY <1>1 DEF Calm, HostIsNumeric, HurriedUser
<1> QED  BY <1>a, <1>2, <1>3, <1>4, <1>5, <1>6, <1>7 DEF IInv

LEMMA InvStep == IInv /\ [Next]_<<vars, world>> => IInv'
<1> SUFFICES ASSUME IInv, [Next]_<<vars, world>> PROVE IInv'
  OBVIOUS
<1>1. Types'
  BY TypesStep DEF IInv
<1>2. CASE Next
  <2>1. LoadInv'
    BY <1>2, LoadStep DEF IInv, LoadInv
  <2>2. ClosesOnce'
    BY <1>2, ClosesStep DEF IInv
  <2>3. (Calm' <=> Calm) /\ (HurriedUser' <=> HurriedUser)
    BY <1>2 DEF Next, Calm, HostIsNumeric, HurriedUser
  <2>4. Calm => OneConnecting' /\ SockHeld'
    <3>1. Calm => OneConnecting /\ SockHeld /\ (HostIsNumeric \/ UrlKept)
      BY DEF IInv, Calm
    <3>2. Calm => OneConnecting'
      BY <1>2, <3>1, ConnectingStep DEF IInv, LoadInv
    <3>3. Calm => SockHeld'
      BY <1>2, <3>1, HeldStep DEF IInv
    <3> QED  BY <3>2, <3>3
  <2>5. ~ HurriedUser => UrlKept'
    BY <1>2, KeptStep DEF IInv, LoadInv, Calm
  <2> QED  BY <1>1, <2>1, <2>2, <2>3, <2>4, <2>5 DEF IInv, LoadInv
<1>3. CASE UNCHANGED <<vars, world>>
  BY <1>1, <1>3, InvStutters
<1> QED  BY <1>2, <1>3

\* In every world the two threads leave each variable of inet.c a value of its
\* type: connect_state one of its five, the queues the procedures and the pieces
\* the code puts there, URL and FNCACHE a page or nothing.
THEOREM TypeCorrect == Spec => []TypeOK
<1>1. IInv => TypeOK
  <2> SUFFICES ASSUME Types PROVE TypeOK
    BY DEF IInv
  <2>1. \A p \in Pages : cache[p] \in Seq(Chunks) /\ shown[p] \in Seq(Chunks)
    BY DEF Types, PageTypes
  <2>2. ASSUME NEW i \in DOMAIN mmiq, mmiq[i].kind = "DATA_ARRIVED"
        PROVE  mmiq[i].arg \in Seq(Chunks)
    <3>1. mmiq[i] \in Messages
      BY DEF Types, OsTypes
    <3> QED  BY <2>2, <3>1 DEF Messages, SocketEvents, Opening
  <2> QED  BY <2>1, <2>2 DEF TypeOK, Types, InetTypes, ViewTypes, HelperTypes
<1> QED  BY <1>1, InvInit, InvStep, PTL DEF Spec

\* StartINET never overwrites the URL or the cache file name of an earlier page,
\* whatever the user does; and SendPost has a URL to build the request from unless
\* a key was pressed while the connection was set up.
THEOREM UrlIsHeld == Spec => []UrlHeld
<1>1. IInv => UrlHeld
  <2> SUFFICES ASSUME IInv PROVE UrlHeld
    OBVIOUS
  <2>1. helperq \in Seq(Procs)
    BY DEF IInv, Types, HelperTypes
  <2>2. ASSUME NEW p, Starts(p)
        PROVE  hp = "idle" /\ Queued(p) /\ 1 \in DOMAIN helperq /\ helperq[1] = p
               /\ \A i \in DOMAIN helperq : i = 1 \/ 1 < i
    BY <2>1, <2>2, TakenIndices DEF Starts, Queued, In
  <2>3. ASSUME Starts("StartGetFile") PROVE URL = NULL /\ FNCACHE = NULL
    <3>1. ~ First(helperq, "StopINET", {"GotoLink", "StartGetFile"})
      BY <2>2, <2>3 DEF First
    <3> QED  BY <2>2, <2>3, <3>1 DEF IInv, UrlFreed, Dirty
  <2>4. ASSUME ~ HurriedUser, Starts("SendPost") PROVE URL # NULL
    BY <2>2, <2>4 DEF IInv, UrlKept, UrlAwaits, Building, Awaited
  <2> QED  BY <2>3, <2>4 DEF UrlHeld
<1> QED  BY <1>1, InvInit, InvStep, PTL DEF Spec

\* inet.c never has two sockets alive when no lookup can be overtaken: the proxy
\* is given by its number, or the user waits until the request is sent.
THEOREM SocketIsOne ==
  (\A w \in Worlds : w.numeric \/ ~ w.hurried) => (Spec => []OneSocket)
<1> SUFFICES ASSUME \A w \in Worlds : w.numeric \/ ~ w.hurried
             PROVE  Spec => []OneSocket
  OBVIOUS
<1>1. IInv => OneSocket
  BY DEF IInv, Types, Calm, HostIsNumeric, HurriedUser, SockHeld, OneSocket, Alive
<1> QED  BY <1>1, InvInit, InvStep, PTL DEF Spec

-----------------------------------------------------------------------------
(***************************************************************************)
(* A page shows and caches its own answer.  First what holds in every       *)
(* world: what was received for a page is handled before its view is gone,  *)
(* and what it left is stopped before the next view is opened.              *)
(***************************************************************************)

\* In the queue of messages q every message of K is before every one of L.
Precede(q, K, L) ==
  \A i, j \in DOMAIN q : q[i].kind \in K /\ q[j].kind \in L => i < j

ViewHeld ==
  /\ view_url = IF view = 0 THEN NULL ELSE view
  /\ view = 0 => STOPPED
  /\ URL # NULL => URL = FNCACHE
DataFirst ==
  /\ Precede(mmiq, {"DATA_ARRIVED"}, {"GUI_DESTROYED"})
  /\ view = 0 /\ Sent({"DATA_ARRIVED"}) => Sent({"GUI_DESTROYED"})
StopsDone ==
  /\ Before(helperq, "StopINET", "GotoLink")
  /\ Before(helperq, "StartGetFile", "StopINET")
  /\ Queued("StartGetFile") => hp # "StopINET"
  /\ Sent({"GOTO_URL"}) => hp # "StopINET" /\ ~ Queued("StopINET")
ViewInv == ViewHeld /\ DataFirst /\ StopsDone

LEMMA PrecedeTaken ==
  ASSUME NEW S, NEW q \in Seq(S), q # <<>>, NEW K, NEW L, Precede(q, K, L)
  PROVE  /\ Precede(Tail(q), K, L)
         /\ Head(q).kind \in L => ~ Has(q, K)
<1> DEFINE t == Tail(q)  n == Len(q)
<1>1. /\ t \in Seq(S) /\ n \in Nat \ {0} /\ DOMAIN q = 1 .. n /\ DOMAIN t = 1 .. n - 1
      /\ Head(q) = q[1] /\ \A i \in 1 .. n - 1 : t[i] = q[i + 1]
  BY TakenIndices
<1> HIDE DEF t, n
<1>2. Precede(t, K, L)
  <2> SUFFICES ASSUME NEW i \in 1 .. n - 1, NEW j \in 1 .. n - 1,
                      t[i].kind \in K, t[j].kind \in L
               PROVE  i < j
    BY <1>1 DEF Precede
  <2>1. /\ i + 1 \in DOMAIN q /\ q[i + 1].kind \in K
        /\ j + 1 \in DOMAIN q /\ q[j + 1].kind \in L
    BY <1>1
  <2>2. i + 1 < j + 1
    BY <2>1 DEF Precede
  <2> QED  BY <2>2
<1>3. Head(q).kind \in L => ~ Has(q, K)
  BY <1>1 DEF Precede, Has
<1> QED  BY <1>2, <1>3 DEF t

LEMMA PrecedeAdded ==
  ASSUME NEW S, NEW q \in Seq(S), NEW m \in S, NEW K, NEW L, Precede(q, K, L),
         m.kind \notin K \/ (m.kind \notin L /\ ~ Has(q, L))
  PROVE  Precede(Append(q, m), K, L)
<1> DEFINE t == Append(q, m)  n == Len(q)
<1>1. /\ t \in Seq(S) /\ n \in Nat /\ DOMAIN q = 1 .. n /\ DOMAIN t = 1 .. n + 1
      /\ t[n + 1] = m /\ \A i \in 1 .. n : t[i] = q[i]
  BY AddedIndices
<1> HIDE DEF t, n
<1>2. \A i \in 1 .. n + 1 : i # n + 1 => i \in 1 .. n
  BY <1>1
<1> SUFFICES Precede(t, K, L)
  BY DEF t
<1> QED  BY <1>1, <1>2 DEF Precede, Has

\* What an action does to the queue of messages.
LEMMA MessagesStep ==
  ASSUME Types, Next
  PROVE  \/ UNCHANGED mmiq
         \/ mmiq # <<>> /\ mmiq' = Tail(mmiq)
         \/ /\ OnClosed /\ mmiq # <<>> /\ Tail(mmiq) \in Seq(Messages)
            /\ Msg("DATA_END", NULL) \in Messages
            /\ mmiq' = Append(Tail(mmiq), Msg("DATA_END", NULL))
         \/ \E m \in Messages :
              /\ mmiq' = Append(mmiq, m)
              /\ \/ Network /\ m.kind \in SocketEvents \cup {"DNR"}
                 \/ PostData /\ ~ STOPPED /\ m.kind = "DATA_ARRIVED" /\ m.arg = seg
                 \/ Leave /\ m.kind = "GUI_DESTROYED"
                 \/ GotoLink /\ m.kind = "GOTO_URL"
<1>1. CASE OnDNR \/ OnConnected \/ OnDataRead \/ OnBufferFree \/ OnDataArrived \/ OnDataEnd
           \/ OnGotoUrl \/ OnGuiDestroyed
  BY <1>1 DEF OnDNR, OnConnected, OnDataRead, OnBufferFree, OnDataArrived, OnDataEnd,
         OnGotoUrl, OnGuiDestroyed, Handles, Consume
<1>2. CASE OnClosed
  <2>1. mmiq # <<>> /\ Tail(mmiq) \in Seq(Messages) /\ Msg("DATA_END", NULL) \in Messages
    BY <1>2, QueueTypes DEF OnClosed, Handles
  <2> QED  BY <1>2, <2>1 DEF OnClosed, Consume
<1>3. CASE Network
  <2>1. \/ \E s \in Socks, k \in SocketEvents : Post(Msg(k, s))
        \/ \E q \in dnr.open : Post(Msg("DNR", q))
    BY <1>3 DEF Network, NetConnects, NetBufferFree, ServerAnswers, RemoteCloses, LocalCloses,
           DnsAnswers, SocketEvents
  <2>2. \A q \in dnr.open : q \in Nat
    BY DEF Types, OsTypes
  <2> QED  BY <1>3, <2>1, <2>2, QueueTypes DEF Msg, Post
<1>4. CASE PostData
  <2>1. seg \in Seq(Chunks)
    BY DEF Types, HelperTypes
  <2> QED  BY <1>4, <2>1, QueueTypes DEF PostData, Msg, Post
<1>5. CASE Leave
  BY <1>5, QueueTypes DEF Leave, Msg, Post, Opening
<1>6. CASE GotoLink
  BY <1>6, QueueTypes DEF GotoLink, Msg, Post, Opening
<1>7. StartINET \/ StartINETQueues \/ create_connect \/ OpenSocket \/ Connect
      \/ ConnectReturns \/ SendPost \/ ResumeSend \/ bsend \/ get_answer \/ end_socket
      \/ free_socket \/ StopINET \/ StopINETFrees \/ resend \/ PressStop
      => UNCHANGED mmiq
  BY DEF StartINET, StartINETQueues, create_connect, OpenSocket, Connect, ConnectReturns,
         SendPost, ResumeSend, bsend, get_answer, end_socket, free_socket, StopINET,
         StopINETFrees, FreeSocket, resend, PressStop, osVars
<1> QED  BY <1>1, <1>2, <1>3, <1>4, <1>5, <1>6, <1>7 DEF Next, Helper, Mmi, User

LEMMA ViewInit == Init => ViewInv
<1> SUFFICES ASSUME Init PROVE ViewInv
  OBVIOUS
<1>1. /\ helperq = <<"StartGetFile">> /\ mmiq = <<>> /\ hp = "idle" /\ view = 1 /\ view_url = 1
      /\ URL = NULL
  BY DEF Init
<1>2. \A K : ~ Sent(K)
  BY <1>1 DEF Sent, Has
<1>3. \A p, r : p # r => Before(helperq, p, r)
  BY <1>1 DEF Before
<1>4. Precede(mmiq, {"DATA_ARRIVED"}, {"GUI_DESTROYED"})
  BY <1>1 DEF Precede
<1> QED  BY <1>1, <1>2, <1>3, <1>4 DEF ViewInv, ViewHeld, DataFirst, StopsDone

LEMMA ViewHeldStep == Types /\ ViewHeld /\ Next => ViewHeld'
<1> SUFFICES ASSUME Types, ViewHeld, Next PROVE ViewHeld'
  OBVIOUS
<1>0. opened \in Pages /\ NULL \notin Pages
  BY NullAssumption DEF Types, ViewTypes
<1>1. CASE StartINET
  <2>1. /\ UNCHANGED <<view, view_url>> /\ (STOPPED' = TRUE \/ UNCHANGED STOPPED)
        /\ UNCHANGED <<URL, FNCACHE>> \/ (URL' = view_url /\ FNCACHE' = view_url)
    BY <1>1 DEF StartINET
  <2> QED  BY <2>1 DEF ViewHeld
<1>2. CASE SendPost
  BY <1>2 DEF SendPost, ViewHeld, viewVars
<1>3. CASE free_socket \/ StopINETFrees
  BY <1>3 DEF free_socket, StopINETFrees, FreeSocket, FreeUrl, ViewHeld
<1>4. CASE OnGotoUrl
  <2>1. opened' = opened + 1 /\ view' = opened' /\ view_url' = opened' /\ UNCHANGED <<URL, FNCACHE>>
    BY <1>4 DEF OnGotoUrl, inetVars
  <2>2. view' # 0
    BY <1>0, <2>1, PagesAssumption DEF Pages
  <2> QED  BY <2>1, <2>2 DEF ViewHeld
<1>5. CASE Leave
  BY <1>5 DEF Leave, ViewHeld, inetVars
<1>6. StartINETQueues \/ create_connect \/ OpenSocket \/ Connect \/ ConnectReturns \/ ResumeSend
      \/ bsend \/ get_answer \/ PostData \/ end_socket \/ StopINET \/ GotoLink \/ OnDNR
      \/ OnConnected \/ OnDataRead \/ OnBufferFree \/ OnClosed \/ OnDataArrived \/ OnDataEnd
      \/ OnGuiDestroyed \/ resend \/ PressStop \/ Network
      => UNCHANGED <<view, view_url, STOPPED, URL, FNCACHE>>
  BY DEF StartINETQueues, create_connect, OpenSocket, Connect, ConnectReturns, ResumeSend,
         bsend, get_answer, PostData, end_socket, StopINET, GotoLink, OnDNR, OnConnected,
         OnDataRead, OnBufferFree, OnClosed, OnDataArrived, OnDataEnd, OnGuiDestroyed, resend,
         PressStop, Network, NetConnects, NetBufferFree, ServerAnswers, RemoteCloses,
         LocalCloses, DnsAnswers, inetVars, viewVars
<1>7. CASE UNCHANGED <<view, view_url, STOPPED, URL, FNCACHE>>
  BY <1>7 DEF ViewHeld
<1> QED  BY <1>1, <1>2, <1>3, <1>4, <1>5, <1>6, <1>7 DEF Next, Helper, Mmi, User

LEMMA DataFirstStep == Types /\ OneOpening /\ ViewHeld /\ DataFirst /\ Next => DataFirst'
<1> SUFFICES ASSUME Types, OneOpening, ViewHeld, DataFirst, Next PROVE DataFirst'
  OBVIOUS
<1> DEFINE D == {"DATA_ARRIVED"}  G == {"GUI_DESTROYED"}
<1>0. /\ mmiq \in Seq(Messages) /\ Precede(mmiq, D, G)
      /\ view = 0 /\ Has(mmiq, D) => Has(mmiq, G)
      /\ Has(mmiq, G) => view = 0
  BY DEF Types, OsTypes, DataFirst, Sent, OneOpening, Has, Opening
<1>1. Precede(mmiq', D, G)
  <2>1. CASE mmiq # <<>> /\ mmiq' = Tail(mmiq)
    BY <1>0, <2>1, PrecedeTaken
  <2>2. CASE /\ mmiq # <<>> /\ Tail(mmiq) \in Seq(Messages)
             /\ Msg("DATA_END", NULL) \in Messages
             /\ mmiq' = Append(Tail(mmiq), Msg("DATA_END", NULL))
    <3>1. Precede(Tail(mmiq), D, G) /\ Msg("DATA_END", NULL).kind \notin D
      BY <1>0, <2>2, PrecedeTaken DEF Msg
    <3> QED  BY <2>2, <3>1, PrecedeAdded
  <2>3. ASSUME NEW m \in Messages, mmiq' = Append(mmiq, m),
               m.kind \in SocketEvents \cup {"DNR", "GUI_DESTROYED", "GOTO_URL"}
        PROVE  Precede(mmiq', D, G)
    <3>1. m.kind \notin D
      BY <2>3 DEF SocketEvents
    <3> QED  BY <1>0, <2>3, <3>1, PrecedeAdded
  <2>4. ASSUME NEW m \in Messages, mmiq' = Append(mmiq, m), ~ STOPPED, m.kind = "DATA_ARRIVED"
        PROVE  Precede(mmiq', D, G)
    <3>1. ~ Has(mmiq, G) /\ m.kind \notin G
      BY <1>0, <2>4 DEF ViewHeld
    <3> QED  BY <1>0, <2>4, <3>1, PrecedeAdded
  <2> QED  BY <1>0, <2>1, <2>2, <2>3, <2>4, MessagesStep
<1>2. view' = 0 /\ Has(mmiq', D) => Has(mmiq', G)
  <2>1. CASE OnGotoUrl
    <3>1. opened \in Pages /\ view' = opened + 1
      BY <2>1 DEF OnGotoUrl, Types, ViewTypes
    <3> QED  BY <3>1 DEF Pages
  <2>2. CASE Leave
    BY <2>2, QueueTypes, PostStep DEF Leave, Msg, Opening
  <2>3. CASE OnGuiDestroyed
    <3>1. mmiq # <<>> /\ Head(mmiq).kind \in G /\ mmiq' = Tail(mmiq)
      BY <2>3 DEF OnGuiDestroyed, Handles, Consume
    <3>2. ~ Has(mmiq, D)
      BY <1>0, <3>1, PrecedeTaken
    <3> QED  BY <1>0, <3>1, <3>2, Received
  <2>4. CASE UNCHANGED view /\ KeepsMsgs(G) /\ (Has(mmiq', D) => Has(mmiq, D) \/ view # 0)
    BY <1>0, <2>4 DEF KeepsMsgs
  <2>5. CASE PostData
    <3>1. UNCHANGED view /\ KeepsMsgs(G)
      BY <2>5, MsgsKept DEF PostData, viewVars
    <3>2. STOPPED => UNCHANGED mmiq
      BY <2>5 DEF PostData
    <3>3. ~ STOPPED => view # 0
      BY DEF ViewHeld
    <3> QED  BY <2>4, <3>1, <3>2, <3>3
  <2>6. CASE OnDataArrived
    <3>1. UNCHANGED view /\ KeepsMsgs(G)
      BY <2>6, MsgsKept DEF OnDataArrived, viewVars
    <3>2. Has(mmiq', D) => Has(mmiq, D)
      BY <2>6, ConsumeStep DEF OnDataArrived
    <3> QED  BY <2>4, <3>1, <3>2
  <2>7. /\ StartINET \/ StartINETQueues \/ create_connect \/ OpenSocket \/ Connect
           \/ ConnectReturns \/ SendPost \/ ResumeSend \/ bsend \/ get_answer \/ end_socket
           \/ free_socket \/ StopINET \/ StopINETFrees \/ resend \/ PressStop \/ GotoLink
           \/ OnDNR \/ OnConnected \/ OnDataRead \/ OnBufferFree \/ OnClosed \/ OnDataEnd
           \/ Network
           => UNCHANGED view
    BY DEF StartINET, StartINETQueues, create_connect, OpenSocket, Connect, ConnectReturns,
           SendPost, ResumeSend, bsend, get_answer, end_socket, free_socket, StopINET,
           StopINETFrees, FreeSocket, resend, PressStop, GotoLink, OnDNR, OnConnected,
           OnDataRead, OnBufferFree, OnClosed, OnDataEnd, Network, NetConnects, NetBufferFree,
           ServerAnswers, RemoteCloses, LocalCloses, DnsAnswers, viewVars
  <2>8. StartINET \/ StartINETQueues \/ create_connect \/ OpenSocket \/ Connect
        \/ ConnectReturns \/ SendPost \/ ResumeSend \/ bsend \/ get_answer \/ end_socket
        \/ free_socket \/ StopINET \/ StopINETFrees \/ resend \/ PressStop \/ GotoLink
        \/ OnDNR \/ OnConnected \/ OnDataRead \/ OnBufferFree \/ OnClosed \/ OnDataEnd
        \/ Network
        => KeepsMsgs(D) /\ KeepsMsgs(G)
    BY MsgsKept DEF Ends, SocketEvents
  <2>9. KeepsMsgs(D) => (Has(mmiq', D) => Has(mmiq, D))
    BY DEF KeepsMsgs
  <2> QED  BY <2>1, <2>2, <2>3, <2>4, <2>5, <2>6, <2>7, <2>8, <2>9 DEF Next, Helper, Mmi, User
<1> QED  BY <1>1, <1>2 DEF DataFirst, Sent

\* A step that neither stops nor opens a page.
LEMMA StopsDoneQuiet ==
  ASSUME StopsDone, KeepsProcs(LoadProcs), KeepsMsgs({"GOTO_URL"}),
         hp' = "StopINET" => hp = "StopINET"
  PROVE  StopsDone'
<1>1. Sent({"GOTO_URL"})' <=> Sent({"GOTO_URL"})
  BY DEF KeepsMsgs, Sent
<1>2. "GotoLink" \in LoadProcs /\ "StartGetFile" \in LoadProcs /\ "StopINET" \in LoadProcs
  BY DEF LoadProcs
<1>3. /\ Before(helperq', "StopINET", "GotoLink") /\ Before(helperq', "StartGetFile", "StopINET")
      /\ Queued("StartGetFile")' <=> Queued("StartGetFile")
      /\ Queued("StopINET")' <=> Queued("StopINET")
  BY <1>2 DEF StopsDone, KeepsProcs, Queued
<1> QED  BY <1>1, <1>3 DEF StopsDone

LEMMA StopsDoneStep == Types /\ LoadInv /\ StopsDone /\ Next => StopsDone'
<1> SUFFICES ASSUME Types, LoadInv, StopsDone, Next PROVE StopsDone'
  OBVIOUS
<1>0. OneOpening /\ OneLoading
  BY DEF LoadInv
<1>1. CASE StartINET
  <2>1. /\ KeepsProcs({"GotoLink", "StopINET"}) /\ KeepsMsgs({"GOTO_URL"})
        /\ ~ In(helperq', "StartGetFile") /\ Before(helperq', "StartGetFile", "StopINET")
        /\ hp' # "StopINET" /\ hp # "StopINET"
    BY <1>0, <1>1, ProcsKept, MsgsKept, DequeueStep DEF StartINET, OneLoading, StopsDone
  <2> QED  BY <2>1 DEF StopsDone, KeepsProcs, KeepsMsgs, Queued, Sent
<1>2. CASE StopINET
  <2>1. /\ Queued("StopINET") /\ ~ Queued("StartGetFile") /\ ~ Sent({"GOTO_URL"})
        /\ Before(helperq', "StopINET", "GotoLink")
        /\ KeepsProcs({"StartGetFile", "GotoLink"}) /\ KeepsMsgs({"GOTO_URL"})
    BY <1>2, ProcsKept, MsgsKept, DequeueStep DEF StopINET, StopsDone, Queued
  <2> QED  BY <2>1 DEF StopsDone, KeepsProcs, KeepsMsgs, Queued, Sent
<1>3. CASE GotoLink
  <2>1. /\ ~ Queued("StopINET") /\ hp = "idle" /\ UNCHANGED hp
        /\ Before(helperq', "StopINET", "GotoLink")
        /\ KeepsProcs({"StartGetFile", "StopINET"})
    <3>1. Starts("GotoLink") /\ Dequeue /\ UNCHANGED hp
      BY <1>3 DEF GotoLink
    <3>2. /\ ~ Queued("StopINET") /\ hp = "idle" /\ KeepsProcs({"StartGetFile", "StopINET"})
      BY <3>1, DequeueStep DEF StopsDone, Queued
    <3>3. ~ In(helperq', "StopINET")
      BY <3>2 DEF KeepsProcs, Queued
    <3> QED  BY <3>1, <3>2, <3>3 DEF Before, In
  <2> QED  BY <2>1 DEF StopsDone, KeepsProcs, Queued
<1>4. CASE OnGotoUrl
  <2>1. Sent({"GOTO_URL"}) /\ ~ Sent({"GOTO_URL"})' /\ UNCHANGED hp
    <3>1. Single(mmiq, {"GOTO_URL"})
      BY <1>0 DEF OneOpening, Single, Opening
    <3>2. Handles("GOTO_URL") /\ Consume /\ UNCHANGED hp
      BY <1>4 DEF OnGotoUrl
    <3> QED  BY <3>1, <3>2, ConsumeStep DEF Sent
  <2>2. hp # "StopINET" /\ ~ Queued("StopINET")
    BY <2>1 DEF StopsDone
  <2>3. KeepsProcs({"StopINET", "GotoLink"})
    BY <1>4, ProcsKept
  <2>4. ~ Queued("StopINET")' /\ Before(helperq', "StopINET", "GotoLink")
    BY <2>2, <2>3 DEF KeepsProcs, Queued, StopsDone
  <2> QED  BY <2>1, <2>2, <2>4 DEF StopsDone, Before, Queued, In
<1>5. CASE OnGuiDestroyed
  <2>1. /\ KeepsProcs({"StartGetFile", "StopINET"}) /\ KeepsMsgs({"GOTO_URL"}) /\ UNCHANGED hp
    BY <1>5, ProcsKept, MsgsKept DEF OnGuiDestroyed
  <2> QED  BY <2>1 DEF StopsDone, KeepsProcs, KeepsMsgs, Queued, Sent
<1>6. CASE Leave \/ PressStop
  <2>1. view # 0 /\ SUBPROC("StopINET") /\ UNCHANGED hp
    BY <1>6 DEF Leave, PressStop, MayPress
  <2>2. ~ Queued("GotoLink") /\ ~ Sent({"GOTO_URL"})
    BY <1>0, <2>1 DEF OneOpening, Sent, Has, Opening
  <2>3. KeepsProcs({"StartGetFile", "GotoLink"}) /\ KeepsMsgs({"GOTO_URL"})
    BY <1>6, ProcsKept, MsgsKept
  <2>4. Before(helperq', "StopINET", "GotoLink") /\ Before(helperq', "StartGetFile", "StopINET")
    BY <2>1, <2>2, <2>3, SubprocStep DEF StopsDone, KeepsProcs, Queued, Procs
  <2> QED  BY <2>1, <2>2, <2>3, <2>4 DEF StopsDone, KeepsProcs, KeepsMsgs, Queued, Sent
<1>7. StartINETQueues \/ create_connect \/ OpenSocket \/ Connect \/ ConnectReturns
      \/ SendPost \/ ResumeSend \/ bsend \/ get_answer \/ PostData \/ end_socket
      \/ free_socket \/ StopINETFrees \/ OnDNR \/ OnConnected \/ OnDataRead \/ OnBufferFree
      \/ OnClosed \/ OnDataArrived \/ OnDataEnd \/ resend \/ Network
      => (hp' = "StopINET" => hp = "StopINET")
  BY DEF StartINETQueues, create_connect, OpenSocket, Connect, ConnectReturns, SendPost,
         ResumeSend, bsend, get_answer, PostData, end_socket, free_socket, StopINETFrees,
         OnDNR, OnConnected, OnDataRead, OnBufferFree, OnClosed, OnDataArrived, OnDataEnd,
         resend, Network, NetConnects, NetBufferFree, ServerAnswers, RemoteCloses,
         LocalCloses, DnsAnswers, helperVars, WaitDNR
<1>8. StartINETQueues \/ create_connect \/ OpenSocket \/ Connect \/ ConnectReturns
      \/ SendPost \/ ResumeSend \/ bsend \/ get_answer \/ PostData \/ end_socket
      \/ free_socket \/ StopINETFrees \/ OnDNR \/ OnConnected \/ OnDataRead \/ OnBufferFree
      \/ OnClosed \/ OnDataArrived \/ OnDataEnd \/ resend \/ Network
      => KeepsProcs(LoadProcs) /\ KeepsMsgs({"GOTO_URL"})
  BY ProcsKept, MsgsKept DEF LoadProcs, Ends, SocketEvents
<1> QED  BY <1>1, <1>2, <1>3, <1>4, <1>5, <1>6, <1>7, <1>8, StopsDoneQuiet
         DEF Next, Helper, Mmi, User

LEMMA ViewStep == Types /\ LoadInv /\ ViewInv /\ Next => ViewInv'
BY ViewHeldStep, DataFirstStep, StopsDoneStep DEF ViewInv, LoadInv

-----------------------------------------------------------------------------
(***************************************************************************)
(* With a proxy known by its number a connection is ended once, and its     *)
(* request is sent before that.                                             *)
(***************************************************************************)

EndOnce ==
  /\ Queued("end_socket") =>
       connect_state \in {-1, 0} /\ ~ Connecting /\ ~ Queued("create_connect")
  /\ Once(helperq, "end_socket") /\ Before(helperq, "SendPost", "end_socket")
  /\ connect_state > 0 /\ hp # "StopINET" => Alive(sock)
  /\ hp = "connecting" => Alive(sock)
  /\ sock \in Socks /\ ~ Alive(sock) /\ hp # "StopINET" =>
       ~ Queued("end_socket") /\ ~ Queued("SendPost")
  /\ Queued("StartGetFile") /\ connect_state = 0 =>
       /\ Before(helperq, "SendPost", "StartGetFile")
       /\ Before(helperq, "end_socket", "StartGetFile")
PostOnce ==
  /\ Once(helperq, "SendPost")
  /\ Queued("SendPost") => ~ Connecting /\ ~ Queued("create_connect") /\ connect_state # 1
PostInv == EndOnce /\ PostOnce
PostProcs == {"end_socket", "SendPost", "create_connect", "StartGetFile"}

LEMMA PostInit == Init => PostInv
<1> SUFFICES ASSUME Init PROVE PostInv
  OBVIOUS
<1>1. /\ helperq = <<"StartGetFile">> /\ connect_state = 0 /\ sock = NoSock /\ hp = "idle"
  BY DEF Init
<1>2. /\ ~ Queued("end_socket") /\ ~ Queued("SendPost")
      /\ \A p, r : Once(helperq, p) /\ (p # r => Before(helperq, p, r))
  BY <1>1 DEF Queued, In, Once, Before
<1>3. NoSock \notin Socks
  BY SocksAssumption DEF NoSock
<1> QED  BY <1>1, <1>2, <1>3 DEF PostInv, EndOnce, PostOnce

\* A step that neither makes nor ends a connection.
LEMMA PostQuiet ==
  ASSUME PostInv, KeepsProcs(PostProcs), UNCHANGED sock,
         connect_state' = connect_state \/ (connect_state >= 2 /\ connect_state' = 3),
         \A s \in Socks : Alive(s)' <=> Alive(s),
         Connecting' => Connecting, hp' = "connecting" => hp = "connecting",
         hp' = "StopINET" <=> hp = "StopINET", connect_state \in Int
  PROVE  PostInv'
<1>1. /\ Queued("end_socket")' <=> Queued("end_socket")
      /\ Queued("SendPost")' <=> Queued("SendPost")
      /\ Queued("create_connect")' <=> Queued("create_connect")
      /\ Queued("StartGetFile")' <=> Queued("StartGetFile")
      /\ Once(helperq, "end_socket") => Once(helperq', "end_socket")
      /\ Once(helperq, "SendPost") => Once(helperq', "SendPost")
      /\ \A r : Before(helperq, "SendPost", r) => Before(helperq', "SendPost", r)
      /\ \A r : Before(helperq, "end_socket", r) => Before(helperq', "end_socket", r)
  BY DEF KeepsProcs, PostProcs, Queued
<1>2. Alive(sock)' <=> Alive(sock)
  BY DEF Alive
<1>3. EndOnce'
  BY <1>1, <1>2 DEF PostInv, EndOnce
<1>4. PostOnce'
  BY <1>1 DEF PostInv, PostOnce
<1> QED  BY <1>3, <1>4 DEF PostInv

LEMMA AliveKept ==
  ASSUME Types, UNCHANGED conns \/ bsend \/ get_answer \/ Network
  PROVE  \A s \in Socks : Alive(s)' <=> Alive(s)
<1>1. CASE StatesKept
  BY <1>1, AliveStep
<1>2. ASSUME NEW t \in Socks, NetConnects(t) \/ RemoteCloses(t) \/ LocalCloses(t)
      PROVE  \A s \in Socks : Alive(s)' <=> Alive(s)
  BY <1>2, StatesStep, AliveStep DEF Alive
<1>3. ASSUME NEW t \in Socks, NetBufferFree(t) \/ ServerAnswers(t) PROVE StatesKept
  BY <1>3, StatesStep
<1>4. CASE UNCHANGED conns
  BY <1>4 DEF Alive
<1> QED  BY <1>1, <1>2, <1>3, <1>4, StatesStep DEF Network

LEMMA PostInvStep ==
  ASSUME Types, LoadInv, ClosesOnce, OneConnecting, SockHeld, StopsDone, PostInv,
         HostIsNumeric, Next
  PROVE  PostInv'
<1>0. /\ OneOpening /\ OneLoading /\ EndOnce /\ PostOnce
      /\ connect_state \in -1 .. 3 /\ sock \in Socks \cup {NoSock} /\ NoSock \notin Socks
      /\ hp \in HelperSteps
  BY SocksAssumption DEF LoadInv, PostInv, Types, InetTypes, HelperTypes, NoSock
\* While a connection is made none is used.
<1>a. ASSUME Connecting \/ Queued("create_connect")
      PROVE  ~ Queued("end_socket") /\ ~ Queued("SendPost") /\ connect_state = 0
  BY <1>0, <1>a DEF EndOnce, PostOnce, OneConnecting
<1>b. ASSUME ~ Queued("end_socket")', ~ Queued("SendPost")',
             connect_state' > 0 \/ hp' = "connecting" => Alive(sock)'
      PROVE  PostInv'
  <2>1. /\ Once(helperq', "end_socket") /\ Once(helperq', "SendPost")
        /\ \A r : Before(helperq', "SendPost", r) /\ Before(helperq', "end_socket", r)
    BY <1>b DEF Queued, In, Once, Before
  <2> QED  BY <1>b, <2>1 DEF PostInv, EndOnce, PostOnce
<1>1. CASE StartINET
  <2>1. /\ Starts("StartGetFile") /\ Dequeue /\ UNCHANGED <<connect_state, sock, conns>>
        /\ hp' \in {"idle", "StartINET"} /\ hp = "idle"
        /\ hp' = "StartINET" => connect_state = 0
    BY <1>1 DEF StartINET, Starts, InetBusy, osVars
  <2>2. /\ KeepsProcs({"end_socket", "SendPost", "create_connect"})
        /\ ~ In(helperq', "StartGetFile") /\ Queued("StartGetFile")
    BY <1>0, <2>1, DequeueStep DEF OneLoading, Queued
  <2>3. CASE connect_state = 0
    <3>1. ~ Queued("end_socket") /\ ~ Queued("SendPost")
      <4>1. Before(helperq, "SendPost", "StartGetFile") /\ Before(helperq, "end_socket", "StartGetFile")
        BY <1>0, <2>2, <2>3 DEF EndOnce
      <4> QED  BY <2>1, <4>1, DequeueStep DEF Queued
    <3> QED  BY <1>b, <2>1, <2>2, <2>3, <3>1 DEF KeepsProcs, Queued
  <2>4. CASE connect_state # 0
    <3>1. /\ Queued("end_socket")' <=> Queued("end_socket")
          /\ Queued("SendPost")' <=> Queued("SendPost")
          /\ Queued("create_connect")' <=> Queued("create_connect")
          /\ Once(helperq', "end_socket") /\ Once(helperq', "SendPost")
          /\ Before(helperq', "SendPost", "end_socket")
      BY <1>0, <2>2 DEF KeepsProcs, Queued, EndOnce, PostOnce
    <3>2. ~ Connecting' /\ hp' = "idle" /\ (Alive(sock)' <=> Alive(sock))
      BY <2>1, <2>4 DEF Connecting, Alive
    <3> QED  BY <1>0, <2>1, <2>2, <2>4, <3>1, <3>2 DEF PostInv, EndOnce, PostOnce, Queued
  <2> QED  BY <2>3, <2>4
<1>2. CASE StartINETQueues \/ create_connect
  <2>1. Connecting \/ Queued("create_connect")
    BY <1>2, DequeueStep DEF StartINETQueues, create_connect, Connecting, Queued
  <2>2. KeepsProcs({"end_socket", "SendPost"})
    BY <1>2, ProcsKept
  <2>3. connect_state' = 0 /\ hp' # "connecting"
    BY <1>2, <1>a, <2>1 DEF StartINETQueues, create_connect, WaitDNR, Starts, inetVars
  <2> QED  BY <1>a, <1>b, <2>1, <2>2, <2>3 DEF KeepsProcs, Queued
<1>3. CASE OpenSocket \/ Connect \/ ConnectReturns
  <2>1. Connecting /\ KeepsProcs({"end_socket", "SendPost"})
    BY <1>3, ProcsKept DEF OpenSocket, Connect, ConnectReturns, Connecting
  <2>2. ~ Queued("end_socket")' /\ ~ Queued("SendPost")'
    BY <1>a, <2>1 DEF KeepsProcs, Queued
  <2>3. CASE OpenSocket
    <3>1. connect_state' = 0 /\ hp' # "connecting"
      BY <1>a, <2>1, <2>3, StatesStep DEF OpenSocket
    <3> QED  BY <1>b, <2>2, <3>1
  <2>4. CASE Connect
    <3>1. connect_state' = 0 /\ sock \in Socks
      BY <1>a, <2>1, <2>4 DEF Connect, Types, HelperTypes
    <3>2. hp' = "connecting" => sock' = sock /\ Becomes(sock, "connecting")
      BY <2>4, StatesStep
    <3>3. hp' = "connecting" => Alive(sock)'
      BY <3>1, <3>2 DEF Becomes, Alive
    <3> QED  BY <1>b, <2>2, <3>1, <3>3
  <2>5. CASE ConnectReturns
    <3>1. Alive(sock) /\ UNCHANGED <<sock, conns>>
      BY <1>0, <2>5 DEF ConnectReturns, EndOnce, osVars
    <3> QED  BY <1>b, <2>2, <3>1 DEF Alive
  <2> QED  BY <1>3, <2>3, <2>4, <2>5
<1>4. CASE SendPost
  <2>1. /\ Starts("SendPost") /\ Dequeue /\ UNCHANGED <<connect_state, sock, conns>>
        /\ hp' \in {"idle", "bsend"} /\ hp = "idle"
    BY <1>4 DEF SendPost, Starts, osVars
  <2>2. /\ KeepsProcs({"end_socket", "create_connect", "StartGetFile"})
        /\ ~ In(helperq', "SendPost")
    BY <1>0, <2>1, DequeueStep DEF PostOnce
  <2>3. /\ Queued("end_socket")' <=> Queued("end_socket")
        /\ ~ Queued("SendPost")'
        /\ Queued("create_connect")' <=> Queued("create_connect")
        /\ Queued("StartGetFile")' <=> Queued("StartGetFile")
        /\ Once(helperq', "end_socket") /\ Once(helperq', "SendPost")
        /\ \A r : Before(helperq', "SendPost", r)
        /\ \A r : Before(helperq, "end_socket", r) => Before(helperq', "end_socket", r)
    BY <1>0, <2>2 DEF KeepsProcs, Queued, EndOnce, In, Once, Before
  <2>4. ~ Connecting' /\ (Alive(sock)' <=> Alive(sock))
    BY <2>1 DEF Connecting, Alive
  <2>5. EndOnce'
    BY <1>0, <2>1, <2>3, <2>4 DEF EndOnce
  <2>6. PostOnce'
    BY <2>3 DEF PostOnce
  <2> QED  BY <2>5, <2>6 DEF PostInv
<1>5. CASE end_socket
  <2>1. /\ Starts("end_socket") /\ Dequeue /\ UNCHANGED <<connect_state, sock, hp>>
    BY <1>5 DEF end_socket
  <2>2. /\ Queued("end_socket") /\ hp = "idle" /\ ~ In(helperq', "end_socket")
        /\ ~ Queued("SendPost") /\ KeepsProcs({"SendPost"})
    BY <1>0, <2>1, DequeueStep DEF EndOnce, Queued
  <2>3. connect_state \in {-1, 0}
    BY <1>0, <2>2 DEF EndOnce
  <2> QED  BY <1>b, <2>1, <2>2, <2>3 DEF KeepsProcs, Queued
<1>6. CASE free_socket \/ StopINETFrees
  <2>1. /\ sock' = NoSock /\ connect_state' = 0 /\ hp' = "idle"
        /\ Queued("StartGetFile") => connect_state = 0
    <3>1. CASE free_socket
      BY <1>6, <3>1, DequeueStep DEF free_socket, FreeSocket, SockHeld, Queued
    <3>2. CASE StopINETFrees
      BY <1>6, <3>2 DEF StopINETFrees, FreeSocket, StopsDone
    <3> QED  BY <1>6, <3>1, <3>2
  <2>2. KeepsProcs(PostProcs)
    BY <1>6, ProcsKept DEF PostProcs
  <2>3. /\ Queued("end_socket")' <=> Queued("end_socket")
        /\ Queued("SendPost")' <=> Queued("SendPost")
        /\ Queued("create_connect")' <=> Queued("create_connect")
        /\ Queued("StartGetFile")' <=> Queued("StartGetFile")
        /\ Once(helperq', "end_socket") /\ Once(helperq', "SendPost")
        /\ \A r : Before(helperq, "SendPost", r) => Before(helperq', "SendPost", r)
        /\ \A r : Before(helperq, "end_socket", r) => Before(helperq', "end_socket", r)
    BY <1>0, <2>2 DEF KeepsProcs, PostProcs, Queued, EndOnce, PostOnce
  <2>4. ~ Connecting'
    BY <2>1 DEF Connecting
  <2> QED  BY <1>0, <2>1, <2>3, <2>4 DEF PostInv, EndOnce, PostOnce
<1>7. CASE StopINET
  <2>1. /\ hp' = "StopINET" /\ hp = "idle" /\ UNCHANGED <<connect_state, sock>>
    BY <1>7 DEF StopINET, Starts
  <2>2. KeepsProcs(PostProcs)
    BY <1>7, ProcsKept DEF PostProcs
  <2>3. /\ Queued("end_socket")' <=> Queued("end_socket")
        /\ Queued("SendPost")' <=> Queued("SendPost")
        /\ Queued("create_connect")' <=> Queued("create_connect")
        /\ Queued("StartGetFile")' <=> Queued("StartGetFile")
        /\ Once(helperq', "end_socket") /\ Once(helperq', "SendPost")
        /\ \A r : Before(helperq, "SendPost", r) => Before(helperq', "SendPost", r)
        /\ \A r : Before(helperq, "end_socket", r) => Before(helperq', "end_socket", r)
    BY <1>0, <2>2 DEF KeepsProcs, PostProcs, Queued, EndOnce, PostOnce
  <2>4. ~ Connecting'
    BY <2>1 DEF Connecting
  <2> QED  BY <1>0, <2>1, <2>3, <2>4 DEF PostInv, EndOnce, PostOnce
<1>8. CASE OnConnected
  <2>1. KeepsProcs({"end_socket", "create_connect", "StartGetFile"})
    BY <1>8, ProcsKept
  <2>2. CASE UNCHANGED <<connect_state, helperq>>
    <3>1. KeepsProcs(PostProcs) /\ UNCHANGED <<sock, hp>>
      BY <1>8, <2>2, QueueKept DEF OnConnected
    <3>2. \A s \in Socks : Alive(s)' <=> Alive(s)
      BY <1>8 DEF OnConnected, Alive
    <3> QED  BY <1>0, <2>2, <3>1, <3>2, PostQuiet DEF Connecting
  <2>3. CASE connect_state = 1 /\ connect_state' = 2 /\ SUBPROC("SendPost")
    <3>1. /\ ~ Connecting /\ ~ Queued("create_connect") /\ ~ Queued("SendPost")
          /\ ~ Queued("end_socket") /\ UNCHANGED <<sock, hp, conns>>
      BY <1>0, <1>8, <2>3 DEF OnConnected, EndOnce, PostOnce, OneConnecting
    <3>2. /\ Once(helperq', "SendPost") /\ ~ Queued("end_socket")' /\ ~ Queued("create_connect")'
          /\ Before(helperq', "SendPost", "end_socket")
      BY <2>1, <2>3, <3>1, SubprocStep DEF KeepsProcs, Queued, Procs, Before, In
    <3>3. ~ Connecting' /\ (Alive(sock)' <=> Alive(sock)) /\ Once(helperq', "end_socket")
      BY <3>1, <3>2 DEF Connecting, Alive, Once, Queued, In
    <3> QED  BY <1>0, <2>3, <3>1, <3>2, <3>3 DEF PostInv, EndOnce, PostOnce
  <2> QED  BY <1>8, <2>2, <2>3 DEF OnConnected
<1>9. CASE OnClosed
  <2>0. UNCHANGED <<sock, hp, conns>> /\ mmiq \in Seq(Messages) /\ mmiq # <<>>
        /\ Head(mmiq).kind \in Ends
    BY <1>9 DEF OnClosed, Types, OsTypes, Handles, Ends
  <2>a. ~ Connecting' <=> ~ Connecting
    BY <2>0 DEF Connecting
  <2>b. Alive(sock)' <=> Alive(sock)
    BY <2>0 DEF Alive
  <2>1. CASE UNCHANGED <<connect_state, helperq>>
    <3>1. KeepsProcs(PostProcs) /\ \A s \in Socks : Alive(s)' <=> Alive(s)
      BY <2>0, <2>1, QueueKept DEF Alive
    <3> QED  BY <1>0, <2>0, <2>1, <2>a, <3>1, PostQuiet
  <2>2. CASE connect_state > 0 /\ connect_state' = -1 /\ SUBPROC("end_socket")
    <3>1. /\ ~ Connecting /\ ~ Queued("create_connect") /\ ~ Queued("end_socket")
          /\ KeepsProcs({"SendPost", "create_connect"})
      BY <1>0, <2>2, SubprocStep DEF EndOnce, OneConnecting, Procs
    <3>2. /\ Once(helperq', "end_socket") /\ ~ Queued("create_connect")'
          /\ Before(helperq', "SendPost", "end_socket") /\ Once(helperq', "SendPost")
      BY <1>0, <2>2, <3>1, SubprocStep DEF KeepsProcs, Queued, Procs, EndOnce, PostOnce
    <3> QED  BY <1>0, <2>0, <2>2, <2>a, <2>b, <3>1, <3>2 DEF PostInv, EndOnce, PostOnce
  <2>3. CASE Ours /\ connect_state = -1 /\ connect_state' = 0 /\ SUBPROC("free_socket")
    <3>1. Head(mmiq) = mmiq[1] /\ 1 \in DOMAIN mmiq /\ mmiq[1] \in Messages
      BY <2>0, TakenIndices
    <3>2. sock \in Socks /\ mmiq[1].arg = sock
      BY <2>0, <2>3, <3>1 DEF Ours, Messages, Ends, Opening
    <3>3. Head(mmiq).kind = "CLOSED"
      BY <1>0, <2>0, <2>3, <3>1, <3>2 DEF SockHeld, RemoteEnd, Ends
    <3>4. conns[sock].st = "free"
      BY <3>1, <3>2, <3>3 DEF ClosesOnce, ClosesIn
    <3>5. ~ Alive(sock)
      BY <3>4 DEF Alive
    <3>6. KeepsProcs(PostProcs)
      BY <2>3, SubprocStep DEF PostProcs, Procs
    <3>7. /\ Queued("end_socket")' <=> Queued("end_socket")
          /\ Queued("SendPost")' <=> Queued("SendPost")
          /\ Queued("create_connect")' <=> Queued("create_connect")
          /\ Queued("StartGetFile")' <=> Queued("StartGetFile")
          /\ Once(helperq', "end_socket") /\ Once(helperq', "SendPost")
          /\ Before(helperq', "SendPost", "end_socket")
      BY <1>0, <3>6 DEF KeepsProcs, PostProcs, Queued, EndOnce, PostOnce
    <3>8. /\ ~ Queued("SendPost") => Before(helperq', "SendPost", "StartGetFile")
          /\ ~ Queued("end_socket") => Before(helperq', "end_socket", "StartGetFile")
      BY <3>7 DEF Before, Queued, In
    <3>9. Queued("StartGetFile") => ~ Queued("SendPost") /\ ~ Queued("end_socket")
      BY <1>0, <3>2, <3>5 DEF StopsDone, EndOnce
    <3> QED  BY <1>0, <2>0, <2>3, <2>a, <2>b, <3>7, <3>8, <3>9 DEF PostInv, EndOnce, PostOnce
  <2> QED  BY <1>9, <2>1, <2>2, <2>3, Zenon DEF OnClosed
<1>10. CASE OnGotoUrl
  <2>1. /\ UNCHANGED <<sock, hp, conns, connect_state>> /\ SUBPROC("StartGetFile")
        /\ Handles("GOTO_URL") /\ Consume
    BY <1>10 DEF OnGotoUrl, inetVars
  <2>2. ~ Queued("StartGetFile")
    BY <1>0, <2>1, ConsumeStep DEF OneLoading, Sent
  <2>3. KeepsProcs({"end_socket", "SendPost", "create_connect"})
    BY <1>10, ProcsKept
  <2>4. /\ Before(helperq, "SendPost", "StartGetFile")
        /\ Before(helperq, "end_socket", "StartGetFile")
    BY <2>2 DEF Before, Queued, In
  <2>5. /\ Queued("end_socket")' <=> Queued("end_socket")
        /\ Queued("SendPost")' <=> Queued("SendPost")
        /\ Queued("create_connect")' <=> Queued("create_connect")
        /\ Once(helperq', "end_socket") /\ Once(helperq', "SendPost")
        /\ \A r : Before(helperq, "SendPost", r) => Before(helperq', "SendPost", r)
        /\ \A r : Before(helperq, "end_socket", r) => Before(helperq', "end_socket", r)
    BY <1>0, <2>3 DEF KeepsProcs, Queued, EndOnce, PostOnce
  <2>6. (Connecting' <=> Connecting) /\ (Alive(sock)' <=> Alive(sock))
    BY <2>1 DEF Connecting, Alive
  <2> QED  BY <1>0, <2>1, <2>4, <2>5, <2>6 DEF PostInv, EndOnce, PostOnce
<1>11. ~ OnDNR
  <2>1. OnDNR => Sent({"DNR"})
    BY ConsumeStep DEF OnDNR, Sent
  <2> QED  BY <2>1 DEF OneConnecting, LookingUp
<1>12. ResumeSend \/ bsend \/ get_answer \/ PostData \/ GotoLink \/ OnDataRead \/ OnBufferFree
       \/ OnDataArrived \/ OnDataEnd \/ OnGuiDestroyed \/ resend \/ Leave \/ PressStop
       \/ Network => KeepsProcs(PostProcs)
  BY ProcsKept DEF PostProcs
<1>13. ResumeSend \/ bsend \/ get_answer \/ PostData \/ GotoLink \/ OnDataRead \/ OnBufferFree
       \/ OnDataArrived \/ OnDataEnd \/ OnGuiDestroyed \/ resend \/ Leave \/ PressStop
       \/ Network
       => /\ UNCHANGED sock
          /\ connect_state' = connect_state \/ (connect_state >= 2 /\ connect_state' = 3)
          /\ hp' = "StopINET" <=> hp = "StopINET"
          /\ hp' = hp \/ hp' \in {"idle", "bsend", "post", "postFirst"}
          /\ UNCHANGED conns \/ bsend \/ get_answer \/ Network
  <2>1. ResumeSend \/ bsend \/ get_answer \/ PostData
        => /\ UNCHANGED <<sock, connect_state>> /\ hp # "StopINET" /\ hp' # "StopINET"
           /\ hp' \in {hp, "idle", "bsend", "post", "postFirst"}
           /\ UNCHANGED conns \/ bsend \/ get_answer
    BY DEF ResumeSend, bsend, get_answer, PostData, Starts, inetVars, osVars
  <2>2. GotoLink \/ OnDataArrived \/ OnDataEnd \/ OnGuiDestroyed \/ resend \/ Leave
        \/ PressStop \/ Network \/ OnBufferFree
        => UNCHANGED <<sock, connect_state, hp>> /\ (UNCHANGED conns \/ Network)
    BY DEF GotoLink, OnDataArrived, OnDataEnd, OnGuiDestroyed, resend, Leave, PressStop,
           Network, NetConnects, NetBufferFree, ServerAnswers, RemoteCloses, LocalCloses,
           DnsAnswers, OnBufferFree, inetVars, helperVars, osVars
  <2>3. OnDataRead => /\ UNCHANGED <<sock, hp, conns>>
                      /\ connect_state' = connect_state \/ (connect_state >= 2 /\ connect_state' = 3)
    BY DEF OnDataRead
  <2> QED  BY <2>1, <2>2, <2>3
<1>14. ASSUME KeepsProcs(PostProcs), UNCHANGED sock,
              connect_state' = connect_state \/ (connect_state >= 2 /\ connect_state' = 3),
              hp' = "StopINET" <=> hp = "StopINET",
              hp' = hp \/ hp' \in {"idle", "bsend", "post", "postFirst"},
              UNCHANGED conns \/ bsend \/ get_answer \/ Network
       PROVE  PostInv'
  <2>1. \A s \in Socks : Alive(s)' <=> Alive(s)
    BY <1>14, AliveKept
  <2>2. (Connecting' => Connecting) /\ (hp' = "connecting" => hp = "connecting")
    BY <1>14 DEF Connecting
  <2> QED  BY <1>0, <1>14, <2>1, <2>2, PostQuiet
<1> QED  BY <1>1, <1>2, <1>3, <1>4, <1>5, <1>6, <1>7, <1>8, <1>9, <1>10, <1>11, <1>12, <1>13,
            <1>14 DEF Next, Helper, Mmi, User

-----------------------------------------------------------------------------
(***************************************************************************)
(* What goes through the socket that inet.c knows.                          *)
(***************************************************************************)

\* The pieces cs are of answers to the requests of S.
Of(cs, S) == \A i \in DOMAIN cs : cs[i].req \in S

LEMMA OfPieces ==
  ASSUME NEW S
  PROVE  /\ Of(<<>>, S)
         /\ \A q \in Seq(Chunks), c \in Chunks : Of(q, S) /\ c.req \in S => Of(Append(q, c), S)
         /\ \A q, r \in Seq(Chunks) : Of(q, S) /\ Of(r, S) => Of(q \o r, S)
<1>1. Of(<<>>, S)
  BY DEF Of
<1>2. ASSUME NEW q \in Seq(Chunks), NEW c \in Chunks, Of(q, S), c.req \in S
      PROVE  Of(Append(q, c), S)
  <2> DEFINE t == Append(q, c)  n == Len(q)
  <2>1. /\ n \in Nat /\ DOMAIN q = 1 .. n /\ DOMAIN t = 1 .. n + 1
        /\ t[n + 1] = c /\ \A i \in 1 .. n : t[i] = q[i]
    BY AddedIndices
  <2> HIDE DEF t, n
  <2>2. \A i \in 1 .. n + 1 : i # n + 1 => i \in 1 .. n
    BY <2>1
  <2>3. Of(t, S)
    BY <1>2, <2>1, <2>2 DEF Of
  <2> QED  BY <2>3 DEF t
<1>3. ASSUME NEW q \in Seq(Chunks), NEW r \in Seq(Chunks), Of(q, S), Of(r, S)
      PROVE  Of(q \o r, S)
  <2> DEFINE t == q \o r  m == Len(q)  n == Len(r)
  <2>1. /\ m \in Nat /\ n \in Nat /\ DOMAIN q = 1 .. m /\ DOMAIN r = 1 .. n
        /\ DOMAIN t = 1 .. m + n
        /\ \A i \in 1 .. m + n : t[i] = IF i <= m THEN q[i] ELSE r[i - m]
    BY ConcatProperties, LenProperties
  <2> HIDE DEF t, m, n
  <2>2. ASSUME NEW i \in 1 .. m + n PROVE t[i].req \in S
    <3>1. CASE i <= m
      <4>1. i \in DOMAIN q
        BY <2>1, <3>1
      <4> QED  BY <1>3, <2>1, <3>1, <4>1 DEF Of
    <3>2. CASE ~ (i <= m)
      <4>1. i - m \in DOMAIN r
        BY <2>1, <3>2
      <4> QED  BY <1>3, <2>1, <3>2, <4>1 DEF Of
    <3> QED  BY <3>1, <3>2
  <2>3. Of(t, S)
    BY <2>1, <2>2 DEF Of
  <2> QED  BY <2>3 DEF t
<1> QED  BY <1>1, <1>2, <1>3

\* What follows the header is of the same answer.
LEMMA OfBody ==
  ASSUME NEW S, NEW q \in Seq(Chunks), SelectInSeq(q, HeaderEnds) # 0, Of(q, S)
  PROVE  Of(AfterHeader(q), S)
<1> DEFINE e == SelectInSeq(q, HeaderEnds)
           m == IF q[e].kind = "hdrBody" THEN e ELSE e + 1
           n == Len(q)
<1>1. AfterHeader(q) = SubSeq(q, m, n)
  BY DEF AfterHeader
<1>2. e \in 1 .. n /\ n \in Nat /\ DOMAIN q = 1 .. n
  BY HeaderEnd, LenProperties
<1>3. m \in 1 .. n + 1
  <2> HIDE DEF e, n
  <2> QED  BY <1>2
<1> HIDE DEF m
<1>4. /\ DOMAIN SubSeq(q, m, n) = 1 .. n - m + 1
      /\ \A i \in 1 .. n - m + 1 : SubSeq(q, m, n)[i] = q[m + i - 1]
  <2>1. /\ SubSeq(q, m, n) \in Seq(Chunks) /\ Len(SubSeq(q, m, n)) = n - m + 1
        /\ \A i \in 1 .. n - m + 1 : SubSeq(q, m, n)[i] = q[m + i - 1]
    BY <1>2, <1>3, SubSeqProperties
  <2> QED  BY <2>1, LenProperties
<1> HIDE DEF n
<1>5. \A i \in 1 .. n - m + 1 : m + i - 1 \in 1 .. n
  BY <1>2, <1>3
<1> QED  BY <1>1, <1>2, <1>4, <1>5 DEF Of

\* What the connection s carries is as it was, or s is closed.
SameConn(s) ==
  Alive(s)' => Alive(s) /\ conns'[s].req = conns[s].req /\ conns'[s].got = conns[s].got

LEMMA ConnChanged ==
  ASSUME Types, NEW s \in Socks, NEW t \in Socks, NEW c, conns' = [conns EXCEPT ![t] = c],
         c.req = conns[t].req, c.got = conns[t].got,
         c.st \in {"new", "connecting", "open", "remoteClosed"} => Alive(t)
  PROVE  SameConn(s)
<1>1. conns \in [Socks -> SoundConns]
  BY DEF Types, OsTypes
<1>2. \A u \in Socks : conns'[u] = IF u = t THEN c ELSE conns[u]
  BY <1>1
<1> QED  BY <1>2 DEF SameConn, Alive

LEMMA ConnKept ==
  ASSUME Types, ClosesOnce, Next, NEW s \in Socks
  PROVE  OpenSocket \/ bsend \/ SameConn(s)
<1>0. conns \in [Socks -> SoundConns] /\ \A t \in Socks : conns[t] \in Conns
  BY DEF Types, OsTypes, SoundConns
<1>1. CASE UNCHANGED conns
  BY <1>1 DEF SameConn, Alive
\* A change of the state alone.
<1>2. ASSUME NEW t \in Socks, NEW x, conns' = [conns EXCEPT ![t].st = x],
             x \in {"new", "connecting", "open", "remoteClosed"} => Alive(t)
      PROVE  SameConn(s)
  <2> DEFINE c == [conns[t] EXCEPT !.st = x]
  <2>1. conns' = [conns EXCEPT ![t] = c]
    BY <1>2
  <2>2. c.req = conns[t].req /\ c.got = conns[t].got /\ c.st = x
    BY <1>0 DEF Conns
  <2> HIDE DEF c
  <2> QED  BY <1>2, <2>1, <2>2, ConnChanged
<1>3. CASE conns' = Closed(sock)
  <2>1. CASE Alive(sock)
    BY <1>2, <1>3, <2>1 DEF Closed, Alive
  <2>2. CASE ~ Alive(sock)
    BY <1>1, <1>3, <2>2 DEF Closed
  <2> QED  BY <2>1, <2>2
<1>4. CASE Connect
  <2>1. sock \in Socks /\ conns[sock].st = "new"
    BY <1>4 DEF Connect, ClosesOnce, Types, HelperTypes
  <2>2. Alive(sock)
    BY <2>1 DEF Alive
  <2> QED  BY <1>2, <1>3, <1>4, <2>1, <2>2 DEF Connect
<1>5. CASE get_answer
  <2>1. CASE Alive(sock) /\ conns' = [conns EXCEPT ![sock].rd = @ + 1]
    <3> DEFINE c == [conns[sock] EXCEPT !.rd = @ + 1]
    <3>1. sock \in Socks /\ conns' = [conns EXCEPT ![sock] = c]
      BY <1>0, <2>1 DEF Alive
    <3>2. c.req = conns[sock].req /\ c.got = conns[sock].got
      BY <1>0, <3>1 DEF Conns
    <3> HIDE DEF c
    <3> QED  BY <2>1, <3>1, <3>2, ConnChanged
  <2> QED  BY <1>1, <1>5, <2>1 DEF get_answer
<1>6. ASSUME NEW t \in Socks, NetConnects(t) \/ RemoteCloses(t) PROVE SameConn(s)
  BY <1>2, <1>6 DEF NetConnects, RemoteCloses, Alive
<1>7. ASSUME NEW t \in Socks, LocalCloses(t) PROVE SameConn(s)
  <2>1. conns[t].st = "closing" /\ conns' = [conns EXCEPT ![t] = NoConn]
    BY <1>7 DEF LocalCloses
  <2>2. \A u \in Socks : conns'[u] = IF u = t THEN NoConn ELSE conns[u]
    BY <1>0, <2>1
  <2>3. NoConn.st = "free"
    BY DEF NoConn
  <2> QED  BY <2>2, <2>3 DEF SameConn, Alive
<1>8. ASSUME NEW t \in Socks, NetBufferFree(t) PROVE SameConn(s)
  <2> DEFINE c == [conns[t] EXCEPT !.full = FALSE]
  <2>1. conns' = [conns EXCEPT ![t] = c] /\ Alive(t)
    BY <1>0, <1>8 DEF NetBufferFree, Alive
  <2>2. c.req = conns[t].req /\ c.got = conns[t].got
    BY <1>0 DEF Conns
  <2> HIDE DEF c
  <2> QED  BY <2>1, <2>2, ConnChanged
<1>9. ASSUME NEW t \in Socks, ServerAnswers(t) PROVE SameConn(s)
  <2>1. PICK r \in Responses : conns' = [conns EXCEPT ![t].resp = r, ![t].sent = @ + 1]
    BY <1>9 DEF ServerAnswers
  <2> DEFINE c == [conns[t] EXCEPT !.resp = r, !.sent = @ + 1]
  <2>2. conns' = [conns EXCEPT ![t] = c] /\ Alive(t)
    BY <1>0, <1>9, <2>1 DEF ServerAnswers, Alive
  <2>3. c.req = conns[t].req /\ c.got = conns[t].got
    BY <1>0 DEF Conns
  <2> HIDE DEF c
  <2> QED  BY <2>2, <2>3, ConnChanged
<1>10. StartINET \/ StartINETQueues \/ create_connect \/ ConnectReturns \/ SendPost
       \/ ResumeSend \/ PostData \/ free_socket \/ StopINETFrees \/ GotoLink \/ Mmi \/ User
       => UNCHANGED conns
  BY DEF StartINET, StartINETQueues, create_connect, ConnectReturns, SendPost, ResumeSend,
         PostData, free_socket, StopINETFrees, GotoLink, Mmi, User, OnDNR, OnConnected,
         OnDataRead, OnBufferFree, OnClosed, OnDataArrived, OnDataEnd, OnGotoUrl,
         OnGuiDestroyed, resend, Leave, PressStop, osVars
<1>11. end_socket \/ StopINET => conns' = Closed(sock)
  BY DEF end_socket, StopINET
<1>12. \A q : DnsAnswers(q) => UNCHANGED conns
  BY DEF DnsAnswers
<1> QED  BY <1>1, <1>3, <1>4, <1>5, <1>6, <1>7, <1>8, <1>9, <1>10, <1>11, <1>12
         DEF Next, Helper, Network

\* A new socket has carried nothing; a send makes the connection one for the
\* page of the request.
LEMMA OpenedConn ==
  ASSUME Types, OpenSocket
  PROVE  \/ sock' = NoSock
         \/ sock' \in Socks /\ conns'[sock'].req = NULL /\ conns'[sock'].got = 0
<1>1. conns \in [Socks -> SoundConns]
  BY DEF Types, OsTypes
<1>2. [NoConn EXCEPT !.st = "new"].req = NULL /\ [NoConn EXCEPT !.st = "new"].got = 0
  BY DEF NoConn
<1>3. \A s \in Socks : conns' = [conns EXCEPT ![s] = [NoConn EXCEPT !.st = "new"]]
        => conns'[s] = [NoConn EXCEPT !.st = "new"]
  BY <1>1
<1> QED  BY <1>2, <1>3 DEF OpenSocket

LEMMA SentConn ==
  ASSUME Types, bsend
  PROVE  /\ UNCHANGED <<sock, recvq>> /\ sendq # NULL
         /\ Alive(sock)' => Alive(sock) /\ conns'[sock].req \in {conns[sock].req, sendq.req}
         /\ sendq' = NULL \/ (sendq' # NULL /\ sendq'.req = sendq.req)
<1>0. conns \in [Socks -> SoundConns] /\ \A t \in Socks : conns[t] \in Conns
  BY DEF Types, OsTypes, SoundConns
<1>1. UNCHANGED <<sock, recvq>> /\ sendq \in [req : Pages \cup {0}, left : Nat \ {0}]
  BY DEF bsend, Types, InetTypes, HelperTypes
<1>2. sendq # NULL
  BY DEF bsend, Types, HelperTypes
<1>3. sendq' = NULL \/ sendq'.req = sendq.req
  BY <1>1 DEF bsend
<1>4. CASE UNCHANGED conns
  BY <1>1, <1>2, <1>3, <1>4 DEF Alive
<1>5. CASE ~ UNCHANGED conns
  <2>1. PICK full \in BOOLEAN :
          conns' = [conns EXCEPT ![sock].req = sendq.req, ![sock].got = @ + 1,
                                 ![sock].full = full]
    BY <1>5 DEF bsend
  <2>2. sock \in Socks /\ Alive(sock)
    BY <1>5 DEF bsend, Alive
  <2> DEFINE c == [conns[sock] EXCEPT !.req = sendq.req, !.got = @ + 1, !.full = full]
  <2>3. conns' = [conns EXCEPT ![sock] = c]
    BY <1>0, <2>1, <2>2
  <2>4. conns'[sock] = c
    BY <1>0, <2>2, <2>3
  <2>5. c.req = sendq.req
    BY <1>0, <2>2 DEF Conns
  <2> HIDE DEF c
  <2> QED  BY <1>1, <1>2, <1>3, <2>2, <2>4, <2>5
<1> QED  BY <1>4, <1>5


\* What the socket of inet.c carries is as it was, or the socket is closed.
SockKept ==
  Alive(sock)' =>
    /\ sock' = sock /\ Alive(sock)
    /\ conns'[sock].req = conns[sock].req /\ conns'[sock].got = conns[sock].got

LEMMA SockStep ==
  ASSUME Types, ClosesOnce, Next
  PROVE  OpenSocket \/ bsend \/ SockKept
<1> SUFFICES ASSUME ~ OpenSocket, ~ bsend, Alive(sock)' PROVE SockKept
  BY DEF SockKept
<1>1. NoSock \notin Socks
  BY SocksAssumption DEF NoSock
<1>2. sock' \in Socks
  BY DEF Alive
<1>3. Connect \/ free_socket \/ StopINETFrees => sock' = sock \/ sock' = NoSock
  BY DEF Connect, free_socket, StopINETFrees, FreeSocket
<1>4. StartINET \/ StartINETQueues \/ create_connect \/ ConnectReturns \/ SendPost \/ ResumeSend
      \/ get_answer \/ PostData \/ end_socket \/ StopINET \/ GotoLink \/ OnDNR \/ OnConnected
      \/ OnDataRead \/ OnBufferFree \/ OnClosed \/ OnDataArrived \/ OnDataEnd \/ OnGotoUrl
      \/ OnGuiDestroyed \/ resend \/ Leave \/ PressStop \/ Network => sock' = sock
  BY DEF StartINET, StartINETQueues, create_connect, ConnectReturns, SendPost, ResumeSend,
         get_answer, PostData, end_socket, StopINET, GotoLink, OnDNR, OnConnected, OnDataRead,
         OnBufferFree, OnClosed, OnDataArrived, OnDataEnd, OnGotoUrl, OnGuiDestroyed, resend,
         Leave, PressStop, Network, NetConnects, NetBufferFree, ServerAnswers, RemoteCloses,
         LocalCloses, DnsAnswers, inetVars
<1>5. sock' = sock
  BY <1>1, <1>2, <1>3, <1>4 DEF Next, Helper, Mmi, User
<1>6. PICK s \in Socks : s = sock
  BY <1>2, <1>5
<1>7. SameConn(s)
  BY ConnKept
<1>8. Alive(s)'
  BY <1>5, <1>6 DEF Alive
<1> QED  BY <1>5, <1>6, <1>7, <1>8 DEF SameConn, SockKept

\* A connection begins with empty buffers: nothing to send and nothing received
\* is left of the one before.
Cleaned ==
  /\ connect_state \in {0, 1} /\ ~ Queued("free_socket") => sendq = NULL /\ recvq = <<>>
  /\ connect_state = 1 \/ hp \in {"connect", "connecting"} =>
       (Alive(sock) => conns[sock].got = 0)
  /\ hp = "bsend" => connect_state # 1

LEMMA CleanedInit == Init => Cleaned
<1> SUFFICES ASSUME Init PROVE Cleaned
  OBVIOUS
<1>1. connect_state = 0 /\ hp = "idle" /\ sendq = NULL /\ recvq = <<>>
  BY DEF Init
<1> QED  BY <1>1 DEF Cleaned

\* A step that neither begins nor ends a connection.
LEMMA CleanedQuiet ==
  ASSUME Cleaned, SockKept, UNCHANGED <<sendq, recvq>>,
         Queued("free_socket") => Queued("free_socket")',
         \/ connect_state' = connect_state
         \/ connect_state' \notin {0, 1}
         \/ connect_state' = 0 /\ Queued("free_socket")',
         \/ hp' = hp
         \/ hp' \notin {"connect", "connecting", "bsend"}
         \/ hp' = "connecting" /\ hp = "connect"
         \/ hp' = "bsend" /\ connect_state' # 1
  PROVE  Cleaned'
<1>1. (connect_state \in {0, 1} /\ ~ Queued("free_socket") => sendq = NULL /\ recvq = <<>>)'
  BY DEF Cleaned
<1>2. (connect_state = 1 \/ hp \in {"connect", "connecting"} =>
        (Alive(sock) => conns[sock].got = 0))'
  BY DEF Cleaned, SockKept
<1>3. (hp = "bsend" => connect_state # 1)'
  BY DEF Cleaned
<1> QED  BY <1>1, <1>2, <1>3 DEF Cleaned

LEMMA CleanedStep ==
  ASSUME Types, ClosesOnce, OneConnecting, SockHeld, Cleaned, Next
  PROVE  Cleaned'
<1>0. /\ sock \in Socks \cup {NoSock} /\ NoSock \notin Socks /\ connect_state \in -1 .. 3
      /\ conns \in [Socks -> SoundConns]
  BY SocksAssumption DEF Types, InetTypes, OsTypes, NoSock
<1>1. CASE create_connect
  <2>1. Queued("create_connect") /\ KeepsProcs({"free_socket"})
    BY <1>1, ProcsKept, DequeueStep DEF create_connect, Queued
  <2>2. /\ connect_state = 0 /\ connect_state' = 0 /\ UNCHANGED <<sendq, recvq>>
        /\ hp' \in {"idle", "socket"}
    BY <1>1, <2>1 DEF create_connect, OneConnecting, WaitDNR
  <2>3. SockKept
    BY <1>1, SockStep DEF create_connect, OpenSocket, bsend, Starts
  <2> QED  BY <2>1, <2>2, <2>3, CleanedQuiet DEF KeepsProcs, Queued
<1>2. CASE OpenSocket
  <2>1. /\ hp = "socket" /\ connect_state = 0
        /\ UNCHANGED <<connect_state, sendq, recvq, helperq>> /\ hp' \in {"idle", "connect"}
    BY <1>2 DEF OpenSocket, OneConnecting, Connecting
  <2>2. Alive(sock)' => conns'[sock'].got = 0
    BY <1>0, <1>2, OpenedConn DEF Alive
  <2> QED  BY <2>1, <2>2 DEF Cleaned, Queued
<1>3. CASE Connect
  <2>1. /\ hp = "connect" /\ UNCHANGED <<connect_state, sendq, recvq, helperq>>
        /\ hp' \in {"idle", "connecting"}
    BY <1>3 DEF Connect
  <2>2. SockKept
    BY <1>3, SockStep DEF Connect, OpenSocket, bsend
  <2> QED  BY <2>1, <2>2, CleanedQuiet DEF Queued
<1>4. CASE ConnectReturns
  <2>1. /\ hp = "connecting" /\ connect_state = 0 /\ hp' = "idle"
        /\ UNCHANGED <<sendq, recvq, helperq, sock, conns>>
    BY <1>4 DEF ConnectReturns, OneConnecting, Connecting, osVars
  <2> QED  BY <2>1 DEF Cleaned, Queued, Alive
<1>5. CASE SendPost
  <2>1. /\ UNCHANGED <<connect_state, recvq, sock, conns>> /\ hp' \in {"idle", "bsend"}
        /\ connect_state < 2 => UNCHANGED sendq /\ hp' = "idle"
        /\ KeepsProcs({"free_socket"})
    BY <1>5, ProcsKept DEF SendPost, osVars
  <2> QED  BY <1>0, <2>1 DEF Cleaned, KeepsProcs, Queued, Alive
<1>6. CASE ResumeSend
  <2>1. /\ UNCHANGED <<connect_state, recvq, sendq, sock, conns>>
        /\ hp' = "idle" \/ (hp' = "bsend" /\ ~ (connect_state < 2))
        /\ KeepsProcs({"free_socket"})
    BY <1>6, ProcsKept DEF ResumeSend, inetVars, osVars
  <2> QED  BY <1>0, <2>1 DEF Cleaned, KeepsProcs, Queued, Alive
<1>7. CASE bsend
  <2>1. /\ hp = "bsend" /\ sendq # NULL /\ hp' \in {"idle", "bsend"}
        /\ UNCHANGED <<connect_state, helperq>>
    BY <1>7 DEF bsend, Types, HelperTypes
  <2>2. connect_state # 1 /\ (connect_state = 0 => Queued("free_socket"))
    BY <2>1 DEF Cleaned
  <2> QED  BY <2>1, <2>2 DEF Cleaned, Queued
<1>8. CASE get_answer
  <2>1. /\ UNCHANGED <<connect_state, sendq>> /\ hp = "idle"
        /\ hp' \in {"idle", "post", "postFirst"} /\ KeepsProcs({"free_socket"})
    BY <1>8, ProcsKept DEF get_answer, Starts
  <2>2. SockKept
    BY <1>8, <2>1, SockStep DEF OpenSocket, bsend
  <2>3. CASE ~ (Alive(sock) /\ conns[sock].rd < conns[sock].sent)
    <3>1. UNCHANGED recvq
      BY <1>8, <2>3 DEF get_answer
    <3> QED  BY <2>1, <2>2, <3>1, CleanedQuiet DEF KeepsProcs, Queued
  <2>4. CASE Alive(sock) /\ conns[sock].rd < conns[sock].sent
    <3>1. connect_state # 0
      BY <2>1, <2>4 DEF SockHeld, Alive
    <3>2. conns[sock].got > 0
      <4>1. conns[sock] \in SoundConns
        BY <1>0, <2>4 DEF Alive
      <4> QED  BY <2>4, <4>1 DEF SoundConns, Conns
    <3>3. connect_state # 1
      BY <2>4, <3>2 DEF Cleaned
    <3> QED  BY <2>1, <3>1, <3>3 DEF Cleaned
  <2> QED  BY <2>3, <2>4
<1>9. CASE PostData
  <2>1. /\ UNCHANGED <<connect_state, sendq, sock, conns, helperq>> /\ hp' = "idle"
        /\ recvq' \in {recvq, <<>>}
    BY <1>9 DEF PostData
  <2> QED  BY <2>1 DEF Cleaned, Queued, Alive
<1>10. CASE free_socket \/ StopINETFrees
  <2>1. sock' = NoSock /\ connect_state' = 0 /\ sendq' = NULL /\ recvq' = <<>> /\ hp' = "idle"
    BY <1>10 DEF free_socket, StopINETFrees, FreeSocket, Starts
  <2> QED  BY <2>1 DEF Cleaned
<1>11. CASE OnClosed
  <2>1. UNCHANGED <<sendq, recvq, sock, conns, hp>>
    BY <1>11 DEF OnClosed
  <2>2. \/ UNCHANGED <<connect_state, helperq>>
        \/ connect_state' = 0 /\ SUBPROC("free_socket")
        \/ connect_state' = -1 /\ SUBPROC("end_socket")
    BY <1>11, Zenon DEF OnClosed
  <2>3. SUBPROC("free_socket") => Queued("free_socket")'
    BY SubprocStep DEF Queued, Procs
  <2>4. SUBPROC("end_socket") => KeepsProcs({"free_socket"})
    BY SubprocStep DEF Procs
  <2>5. SockKept
    BY <2>1 DEF SockKept, Alive
  <2>6. Queued("free_socket") => Queued("free_socket")'
    BY <2>2, <2>3, <2>4 DEF KeepsProcs, Queued
  <2>7. \/ connect_state' = connect_state
        \/ connect_state' \notin {0, 1}
        \/ connect_state' = 0 /\ Queued("free_socket")'
    BY <2>2, <2>3
  <2> QED  BY <2>1, <2>5, <2>6, <2>7, CleanedQuiet
<1>12. StartINET \/ StartINETQueues \/ end_socket \/ StopINET \/ GotoLink \/ OnDNR
       \/ OnConnected \/ OnDataRead \/ OnBufferFree \/ OnDataArrived \/ OnDataEnd \/ OnGotoUrl
       \/ OnGuiDestroyed \/ resend \/ Leave \/ PressStop \/ Network
       => /\ UNCHANGED <<sendq, recvq>>
          /\ connect_state' = connect_state \/ connect_state' \notin {0, 1}
          /\ hp' = hp \/ hp' \notin {"connect", "connecting", "bsend"}
  <2>1. StartINET \/ StartINETQueues \/ end_socket \/ StopINET
        => /\ UNCHANGED <<sendq, recvq, connect_state>>
           /\ hp' = hp \/ hp' \in {"idle", "StartINET", "StopINET"}
    BY DEF StartINET, StartINETQueues, end_socket, StopINET, inetVars
  <2>2. GotoLink \/ OnDNR \/ OnBufferFree \/ OnDataArrived \/ OnDataEnd \/ OnGotoUrl
        \/ OnGuiDestroyed \/ resend \/ Leave \/ PressStop \/ Network
        => UNCHANGED <<sendq, recvq, connect_state, hp>>
    BY DEF GotoLink, OnDNR, OnBufferFree, OnDataArrived, OnDataEnd, OnGotoUrl, OnGuiDestroyed,
           resend, Leave, PressStop, Network, NetConnects, NetBufferFree, ServerAnswers,
           RemoteCloses, LocalCloses, DnsAnswers, inetVars, helperVars
  <2>3. OnConnected \/ OnDataRead
        => UNCHANGED <<sendq, recvq, hp>> /\ connect_state' \in {connect_state, 2, 3}
    BY DEF OnConnected, OnDataRead
  <2> QED  BY <2>1, <2>2, <2>3
<1>13. StartINET \/ StartINETQueues \/ end_socket \/ StopINET \/ GotoLink \/ OnDNR
       \/ OnConnected \/ OnDataRead \/ OnBufferFree \/ OnDataArrived \/ OnDataEnd \/ OnGotoUrl
       \/ OnGuiDestroyed \/ resend \/ Leave \/ PressStop \/ Network
       => KeepsProcs({"free_socket"})
  BY ProcsKept
<1>14. CASE KeepsProcs({"free_socket"}) /\ SockKept /\ UNCHANGED <<sendq, recvq>>
            /\ (connect_state' = connect_state \/ connect_state' \notin {0, 1})
            /\ (hp' = hp \/ hp' \notin {"connect", "connecting", "bsend"})
  BY <1>14, CleanedQuiet DEF KeepsProcs, Queued
<1> QED  BY <1>1, <1>2, <1>3, <1>4, <1>5, <1>6, <1>7, <1>8, <1>9, <1>10, <1>11, <1>12, <1>13,
            <1>14, SockStep DEF Next, Helper, Mmi, User


\* What was sent, is to be sent and was received on the socket is about the
\* pages S.
SockData(S) ==
  Alive(sock) =>
    /\ conns[sock].req \in {NULL} \cup S
    /\ sendq # NULL => sendq.req \in S
    /\ Of(recvq, S)

\* get_answer passes on what it received.
LEMMA AnswerStep ==
  ASSUME Types, get_answer, NEW S, SockData(S)
  PROVE  \/ UNCHANGED <<recvq, seg, hp, cache>>
         \/ /\ Alive(sock) /\ Of(recvq', S)
            /\ \/ UNCHANGED <<seg, hp, cache>>
               \/ /\ hp' \in {"post", "postFirst"} /\ seg' \in Seq(Chunks) /\ Of(seg', S)
                  /\ writecache(seg')
<1>1. CASE UNCHANGED <<conns, receive_mode, seg, hp, cache, recvq>>
  BY <1>1
<1>2. CASE Alive(sock) /\ conns[sock].rd < conns[sock].sent
  <2> DEFINE c == Chunk(sock)
             q == Append(recvq, c)
             inHeader == ~receive_mode /\ SelectInSeq(q, HeaderEnds) = 0
             body == IF receive_mode THEN <<c>>
                     ELSE IF inHeader THEN <<>> ELSE AfterHeader(q)
  <2>1. /\ recvq' = IF receive_mode THEN recvq ELSE q
        /\ IF body = <<>>
           THEN UNCHANGED <<seg, hp, cache>>
           ELSE /\ seg' = body
                /\ writecache(body)
                /\ hp' = IF receive_mode THEN "post" ELSE "postFirst"
    BY <1>2 DEF get_answer
  <2>2. sock \in Socks /\ conns[sock] \in SoundConns /\ recvq \in Seq(Chunks)
    BY <1>2 DEF Alive, Types, OsTypes, InetTypes
  <2>3. c \in Chunks /\ c.req \in S
    <3>1. /\ conns[sock].rd + 1 \in Nat \ {0}
          /\ conns[sock].req \in Pages \cup {0}
          /\ conns[sock].rd + 1 \in 1 .. Len(conns[sock].resp)
          /\ conns[sock].resp \in Seq(SegKinds)
      BY <1>2, <2>2 DEF SoundConns, Conns
    <3>2. conns[sock].resp[conns[sock].rd + 1] \in SegKinds
      BY <3>1
    <3>3. conns[sock].req \in S
      BY <1>2, <3>1, NullAssumption DEF SockData
    <3> QED  BY <3>1, <3>2, <3>3 DEF Chunk, Chunks
  <2>4. Of(recvq, S)
    BY <1>2 DEF SockData
  <2> HIDE DEF c
  <2>5. q \in Seq(Chunks) /\ <<c>> \in Seq(Chunks) /\ Of(q, S) /\ Of(<<c>>, S)
    <3>1. q \in Seq(Chunks) /\ <<c>> \in Seq(Chunks)
      BY <2>2, <2>3
    <3>2. Of(q, S)
      BY <2>2, <2>3, <2>4, OfPieces
    <3>3. Of(<<c>>, S)
      BY <2>3 DEF Of
    <3> QED  BY <3>1, <3>2, <3>3
  <2>6. body \in Seq(Chunks) /\ Of(body, S)
    <3>1. CASE receive_mode \/ inHeader
      <4>1. <<>> \in Seq(Chunks) /\ Of(<<>>, S)
        BY OfPieces
      <4> QED  BY <2>5, <3>1, <4>1
    <3>2. CASE ~ receive_mode /\ ~ inHeader
      BY <2>5, <3>2, HeaderEnd, OfBody
    <3> QED  BY <3>1, <3>2
  <2> HIDE DEF q, inHeader, body
  <2> QED  BY <1>2, <2>1, <2>4, <2>5, <2>6
<1> QED  BY <1>1, <1>2 DEF get_answer

\* The request is built for a page of S, or was: so is its answer.
LEMMA SockDataStep ==
  ASSUME Types, ClosesOnce, OneConnecting, SockHeld, Cleaned, Next,
         NEW S, SockData(S), SendPost => (IF URL = NULL THEN 0 ELSE URL) \in S
  PROVE  SockData(S)'
<1>1. CASE OpenSocket
  <2>1. hp = "socket" /\ connect_state = 0 /\ ~ Queued("free_socket")
    BY <1>1 DEF OpenSocket, OneConnecting, Connecting, SockHeld
  <2>2. sendq = NULL /\ recvq = <<>> /\ UNCHANGED <<sendq, recvq>>
    BY <1>1, <2>1 DEF Cleaned, OpenSocket
  <2>3. sock' \in Socks => conns'[sock'].req = NULL
    BY <1>1, OpenedConn, SocksAssumption DEF NoSock
  <2>4. Of(<<>>, S)
    BY OfPieces
  <2> QED  BY <2>2, <2>3, <2>4 DEF SockData, Alive
<1>2. CASE bsend
  BY <1>2, SentConn DEF SockData
<1>3. CASE SockKept /\ UNCHANGED <<sendq, recvq>>
  BY <1>3 DEF SockKept, SockData
<1>4. CASE SendPost
  <2>1. UNCHANGED <<sock, conns, recvq>>
    BY <1>4 DEF SendPost, osVars
  <2>2. sendq # NULL => sendq \in [req : Pages \cup {0}, left : Nat \ {0}]
    BY DEF Types, InetTypes
  <2>3. \/ UNCHANGED sendq
        \/ sendq # NULL /\ sendq'.req = sendq.req
        \/ sendq'.req = IF URL = NULL THEN 0 ELSE URL
    BY <1>4, <2>2 DEF SendPost
  <2> QED  BY <1>4, <2>1, <2>3 DEF SockData, Alive
<1>5. CASE get_answer
  <2>1. UNCHANGED sendq /\ SockKept
    BY <1>5, SockStep DEF get_answer, OpenSocket, bsend, Starts
  <2>2. UNCHANGED recvq \/ Of(recvq', S)
    BY <1>5, AnswerStep
  <2> QED  BY <2>1, <2>2 DEF SockKept, SockData
<1>6. CASE PostData
  <2>1. UNCHANGED <<sock, conns, sendq>> /\ recvq' \in {recvq, <<>>}
    BY <1>6 DEF PostData
  <2>2. Of(<<>>, S)
    BY OfPieces
  <2> QED  BY <2>1, <2>2 DEF SockData, Alive
<1>7. CASE free_socket \/ StopINETFrees
  <2>1. sock' = NoSock
    BY <1>7 DEF free_socket, StopINETFrees, FreeSocket
  <2> QED  BY <2>1, SocksAssumption DEF SockData, Alive, NoSock
<1>8. StartINET \/ StartINETQueues \/ create_connect \/ Connect \/ ConnectReturns \/ ResumeSend
      \/ end_socket \/ StopINET \/ GotoLink \/ OnDNR \/ OnConnected \/ OnDataRead
      \/ OnBufferFree \/ OnClosed \/ OnDataArrived \/ OnDataEnd \/ OnGotoUrl \/ OnGuiDestroyed
      \/ resend \/ Leave \/ PressStop \/ Network => UNCHANGED <<sendq, recvq>>
  BY DEF StartINET, StartINETQueues, create_connect, Connect, ConnectReturns, ResumeSend,
         end_socket, StopINET, GotoLink, OnDNR, OnConnected, OnDataRead, OnBufferFree, OnClosed,
         OnDataArrived, OnDataEnd, OnGotoUrl, OnGuiDestroyed, resend, Leave, PressStop, Network,
         NetConnects, NetBufferFree, ServerAnswers, RemoteCloses, LocalCloses, DnsAnswers,
         inetVars
<1> QED  BY <1>1, <1>2, <1>3, <1>4, <1>5, <1>6, <1>7, <1>8, SockStep
         DEF Next, Helper, Mmi, User


\* What is loaded is for the page v, or for none.
LoadsFor(v) ==
  /\ URL \in {NULL, v} /\ SockData({v, 0})
  /\ hp \in {"post", "postFirst"} => Of(seg, {v, 0})
\* The data in the queue of messages q are about the pages S.
DataOf(q, S) == \A i \in DOMAIN q : q[i].kind = "DATA_ARRIVED" => Of(q[i].arg, S)

\* A page that is left is loaded until HELPER has come to its StopINET.
Stopping == hp = "StopINET" \/ Queued("StopINET")
Settled == view # 0 \/ ~ Stopping
OwnData ==
  /\ Settled => LoadsFor(view)
  /\ view # 0 => DataOf(mmiq, {view, 0})
  /\ \A p \in Pages : Of(shown[p], {p, 0})

LEMMA LoadsStep ==
  ASSUME Types, ClosesOnce, OneConnecting, SockHeld, Cleaned, ViewHeld, Next,
         NEW v, view = v, LoadsFor(v)
  PROVE  LoadsFor(v)'
<1>1. URL' \in {NULL, v}
  <2>1. StartINET => UNCHANGED URL \/ (URL' = view_url /\ view_url # NULL)
    BY DEF StartINET
  <2>2. view_url \in {NULL, v}
    BY DEF ViewHeld
  <2>3. SendPost \/ free_socket \/ StopINETFrees => URL' = NULL
    BY DEF SendPost, free_socket, StopINETFrees, FreeSocket, FreeUrl
  <2>4. StartINETQueues \/ create_connect \/ OpenSocket \/ Connect \/ ConnectReturns
        \/ ResumeSend \/ bsend \/ get_answer \/ PostData \/ end_socket \/ StopINET \/ GotoLink
        \/ Mmi \/ User \/ Network => UNCHANGED URL
    BY DEF StartINETQueues, create_connect, OpenSocket, Connect, ConnectReturns, ResumeSend,
           bsend, get_answer, PostData, end_socket, StopINET, GotoLink, Mmi, User, OnDNR,
           OnConnected, OnDataRead, OnBufferFree, OnClosed, OnDataArrived, OnDataEnd, OnGotoUrl,
           OnGuiDestroyed, resend, Leave, PressStop, Network, NetConnects, NetBufferFree,
           ServerAnswers, RemoteCloses, LocalCloses, DnsAnswers, inetVars
  <2> QED  BY <2>1, <2>2, <2>3, <2>4 DEF LoadsFor, Next, Helper
<1>2. SockData({v, 0})'
  <2>1. (IF URL = NULL THEN 0 ELSE URL) \in {v, 0} /\ SockData({v, 0})
    BY DEF LoadsFor
  <2> QED  BY <2>1, SockDataStep
<1>3. hp' \in {"post", "postFirst"} => Of(seg', {v, 0})
  <2>1. CASE get_answer
    <3>1. SockData({v, 0}) /\ hp = "idle"
      BY <2>1 DEF LoadsFor, get_answer, Starts
    <3> QED  BY <2>1, <3>1, AnswerStep
  <2>2. StartINET \/ StartINETQueues \/ create_connect \/ OpenSocket \/ Connect
        \/ ConnectReturns \/ SendPost \/ ResumeSend \/ bsend \/ PostData \/ StopINET
        \/ StopINETFrees => hp' \notin {"post", "postFirst"}
    BY DEF StartINET, StartINETQueues, create_connect, OpenSocket, Connect, ConnectReturns,
           SendPost, ResumeSend, bsend, PostData, StopINET, StopINETFrees, WaitDNR, Starts
  <2>3. end_socket \/ free_socket \/ GotoLink \/ Mmi \/ User \/ Network => UNCHANGED <<hp, seg>>
    BY DEF end_socket, free_socket, FreeSocket, GotoLink, Mmi, User, OnDNR, OnConnected,
           OnDataRead, OnBufferFree, OnClosed, OnDataArrived, OnDataEnd, OnGotoUrl,
           OnGuiDestroyed, resend, Leave, PressStop, Network, NetConnects, NetBufferFree,
           ServerAnswers, RemoteCloses, LocalCloses, DnsAnswers, helperVars
  <2> QED  BY <2>1, <2>2, <2>3 DEF LoadsFor, Next, Helper
<1> QED  BY <1>1, <1>2, <1>3 DEF LoadsFor

LEMMA DataTaken ==
  ASSUME NEW q \in Seq(Messages), q # <<>>, NEW S, DataOf(q, S)
  PROVE  /\ DataOf(Tail(q), S)
         /\ Head(q).kind = "DATA_ARRIVED" => Of(Head(q).arg, S)
<1> DEFINE t == Tail(q)  n == Len(q)
<1>1. /\ n \in Nat \ {0} /\ DOMAIN q = 1 .. n /\ DOMAIN t = 1 .. n - 1
      /\ Head(q) = q[1] /\ \A i \in 1 .. n - 1 : t[i] = q[i + 1]
  BY TakenIndices
<1> HIDE DEF t, n
<1>2. \A i \in 1 .. n - 1 : i + 1 \in 1 .. n
  BY <1>1
<1>3. DataOf(t, S)
  BY <1>1, <1>2 DEF DataOf
<1>4. Head(q).kind = "DATA_ARRIVED" => Of(Head(q).arg, S)
  BY <1>1 DEF DataOf
<1> QED  BY <1>3, <1>4 DEF t

LEMMA DataAdded ==
  ASSUME NEW q \in Seq(Messages), NEW m \in Messages, NEW S, DataOf(q, S),
         m.kind = "DATA_ARRIVED" => Of(m.arg, S)
  PROVE  DataOf(Append(q, m), S)
<1> DEFINE t == Append(q, m)  n == Len(q)
<1>1. /\ n \in Nat /\ DOMAIN q = 1 .. n /\ DOMAIN t = 1 .. n + 1
      /\ t[n + 1] = m /\ \A i \in 1 .. n : t[i] = q[i]
  BY AddedIndices
<1> HIDE DEF t, n
<1>2. \A i \in 1 .. n + 1 : i # n + 1 => i \in 1 .. n
  BY <1>1
<1>3. DataOf(t, S)
  BY <1>1, <1>2 DEF DataOf
<1> QED  BY <1>3 DEF t

LEMMA DataStep ==
  ASSUME Types, Next, NEW S, DataOf(mmiq, S), PostData /\ ~ STOPPED => Of(seg, S)
  PROVE  DataOf(mmiq', S)
<1>0. mmiq \in Seq(Messages)
  BY DEF Types, OsTypes
<1>1. CASE mmiq # <<>> /\ mmiq' = Tail(mmiq)
  BY <1>0, <1>1, DataTaken
<1>2. CASE /\ mmiq # <<>> /\ Tail(mmiq) \in Seq(Messages) /\ Msg("DATA_END", NULL) \in Messages
           /\ mmiq' = Append(Tail(mmiq), Msg("DATA_END", NULL))
  <2>1. DataOf(Tail(mmiq), S) /\ Msg("DATA_END", NULL).kind # "DATA_ARRIVED"
    BY <1>0, <1>2, DataTaken DEF Msg
  <2> QED  BY <1>2, <2>1, DataAdded
<1>3. ASSUME NEW m \in Messages, mmiq' = Append(mmiq, m),
             \/ m.kind \in SocketEvents \cup {"DNR", "GUI_DESTROYED", "GOTO_URL"}
             \/ PostData /\ ~ STOPPED /\ m.arg = seg
      PROVE  DataOf(mmiq', S)
  <2>1. m.kind = "DATA_ARRIVED" => Of(m.arg, S)
    BY <1>3 DEF SocketEvents
  <2> QED  BY <1>0, <1>3, <2>1, DataAdded
<1> QED  BY <1>1, <1>2, <1>3, MessagesStep

LEMMA OwnDataInit == Init => OwnData
<1> SUFFICES ASSUME Init PROVE OwnData
  OBVIOUS
<1>1. /\ URL = NULL /\ sock = NoSock /\ hp = "idle" /\ mmiq = <<>>
      /\ \A p \in Pages : shown[p] = <<>>
  BY DEF Init
<1>2. \A S : SockData(S) /\ DataOf(mmiq, S) /\ Of(<<>>, S)
  BY <1>1, OfPieces, SocksAssumption DEF SockData, Alive, NoSock, DataOf
<1> QED  BY <1>1, <1>2 DEF OwnData, LoadsFor

LEMMA OwnDataStep ==
  ASSUME Types, OneOpening, ClosesOnce, OneConnecting, SockHeld, Cleaned, ViewHeld, DataFirst,
         StopsDone, OwnData, Next
  PROVE  OwnData'
<1>0. view \in Pages \cup {0} /\ opened \in Pages /\ mmiq \in Seq(Messages) /\ 0 \notin Pages
  BY DEF Types, ViewTypes, OsTypes, Pages
<1>a. PICK v \in Pages \cup {0} : v = view
  BY <1>0
<1>b. Settled => LoadsFor(v)'
  BY <1>a, LoadsStep DEF OwnData
<1>c. view # 0 => DataOf(mmiq', {v, 0})
  <2> SUFFICES ASSUME view # 0 PROVE DataOf(mmiq', {v, 0})
    OBVIOUS
  <2>1. DataOf(mmiq, {v, 0}) /\ LoadsFor(v)
    BY <1>a DEF OwnData, Settled
  <2>2. PostData => Of(seg, {v, 0})
    BY <2>1 DEF PostData, LoadsFor
  <2> QED  BY <2>1, <2>2, DataStep
<1>d. \A p \in Pages : Of(shown'[p], {p, 0})
  <2>1. CASE UNCHANGED shown
    BY <2>1 DEF OwnData
  <2>2. CASE OnDataArrived /\ view # 0
    <3>1. /\ mmiq # <<>> /\ Head(mmiq).kind = "DATA_ARRIVED" /\ Head(mmiq) \in Messages
          /\ shown' = [shown EXCEPT ![view] = @ \o Head(mmiq).arg]
      BY <2>2, QueueTypes DEF OnDataArrived, Handles
    <3>2. DataOf(mmiq, {view, 0})
      BY <2>2 DEF OwnData
    <3>3. Of(Head(mmiq).arg, {view, 0})
      BY <1>0, <3>1, <3>2, DataTaken
    <3>4. Head(mmiq).arg \in Seq(Chunks)
      BY <3>1 DEF Messages, SocketEvents, Opening
    <3>5. shown \in [Pages -> Seq(Chunks)] /\ view \in Pages
      BY <1>0, <2>2 DEF Types, PageTypes
    <3>6. Of(shown[view], {view, 0})
      BY <3>5 DEF OwnData
    <3>7. Of(shown[view] \o Head(mmiq).arg, {view, 0})
      BY <3>3, <3>4, <3>5, <3>6, OfPieces
    <3>8. \A p \in Pages : shown'[p] = IF p = view THEN shown[view] \o Head(mmiq).arg ELSE shown[p]
      BY <3>1, <3>5
    <3> QED  BY <3>7, <3>8 DEF OwnData
  <2>3. Helper \/ User \/ Network => UNCHANGED shown
    BY DEF Helper, StartINET, StartINETQueues, create_connect, OpenSocket, Connect,
           ConnectReturns, SendPost, ResumeSend, bsend, get_answer, PostData, end_socket,
           free_socket, StopINET, StopINETFrees, FreeSocket, GotoLink, User, Leave, PressStop,
           Network, NetConnects, NetBufferFree, ServerAnswers, RemoteCloses, LocalCloses,
           DnsAnswers, pageVars
  <2>4. Mmi => UNCHANGED shown \/ (OnDataArrived /\ view # 0)
    BY DEF Mmi, OnDNR, OnConnected, OnDataRead, OnBufferFree, OnClosed, OnDataArrived,
           OnDataEnd, OnGotoUrl, OnGuiDestroyed, resend, pageVars
  <2> QED  BY <2>1, <2>2, <2>3, <2>4 DEF Next
\* The page on the screen is the same.
<1>e. ASSUME view' = view, Settled' => Settled \/ LoadsFor(v)' PROVE OwnData'
  <2>1. (Settled => LoadsFor(view))'
    BY <1>a, <1>b, <1>e DEF LoadsFor, SockData
  <2>2. (view # 0 => DataOf(mmiq, {view, 0}))'
    BY <1>a, <1>c, <1>e
  <2> QED  BY <1>d, <2>1, <2>2 DEF OwnData
<1>1. CASE OnGotoUrl
  <2>1. /\ Handles("GOTO_URL") /\ Consume /\ view' = opened + 1
        /\ UNCHANGED <<URL, sock, conns, sendq, recvq, hp, seg>>
    BY <1>1 DEF OnGotoUrl, inetVars
  <2>2. Sent({"GOTO_URL"})
    BY <2>1, ConsumeStep DEF Sent
  <2>3. view = 0 /\ ~ Stopping
    BY <2>2 DEF OneOpening, Sent, Has, Opening, StopsDone, Stopping
  <2>4. LoadsFor(0)
    BY <2>3 DEF OwnData, Settled
  <2>5. PICK w : w = view'
    OBVIOUS
  <2>6. LoadsFor(w)
    <3>1. \A q : Of(q, {0}) => Of(q, {w, 0})
      BY DEF Of
    <3>2. URL = NULL
      BY <1>0, <2>4, NullAssumption DEF LoadsFor, Types, InetTypes
    <3>3. {0, 0} = {0}
      OBVIOUS
    <3> QED  BY <2>4, <3>1, <3>2, <3>3 DEF LoadsFor, SockData
  <2>7. LoadsFor(view)'
    BY <2>1, <2>5, <2>6 DEF LoadsFor, SockData, Alive
  <2>8. ~ Has(mmiq', {"DATA_ARRIVED"})
    <3>1. ~ Has(mmiq, {"DATA_ARRIVED"})
      <4>1. Single(mmiq, Opening) /\ Head(mmiq) = mmiq[1] /\ 1 \in DOMAIN mmiq
        BY <1>0, <2>1, TakenIndices DEF OneOpening, Handles
      <4>2. Head(mmiq).kind = "GOTO_URL"
        BY <2>1 DEF Handles
      <4>3. \A i \in DOMAIN mmiq : mmiq[i].kind # "GUI_DESTROYED"
        BY <4>1, <4>2 DEF Single, Opening
      <4>4. ~ Sent({"GUI_DESTROYED"})
        BY <4>3 DEF Sent, Has
      <4> QED  BY <2>3, <4>4 DEF DataFirst, Sent
    <3> QED  BY <2>1, <3>1, ConsumeStep
  <2>9. \A S : DataOf(mmiq', S)
    BY <2>8 DEF DataOf, Has
  <2> QED  BY <1>d, <2>7, <2>9 DEF OwnData
<1>2. CASE Leave
  <2>1. view' = 0 /\ SUBPROC("StopINET")
    BY <1>2 DEF Leave
  <2>2. Stopping'
    BY <2>1, SubprocStep DEF Stopping, Queued, Procs
  <2> QED  BY <1>d, <2>1, <2>2 DEF OwnData, Settled
<1>3. CASE StopINETFrees
  <2>1. view' = view /\ URL' = NULL /\ sock' = NoSock /\ hp' = "idle"
    BY <1>3 DEF StopINETFrees, FreeSocket, FreeUrl
  <2>2. LoadsFor(v)'
    BY <2>1, SocksAssumption DEF LoadsFor, SockData, Alive, NoSock
  <2> QED  BY <1>e, <2>1, <2>2
<1>4. CASE StopINET
  <2>1. UNCHANGED view /\ Stopping'
    BY <1>4 DEF StopINET, viewVars, Stopping
  <2> QED  BY <1>e, <2>1 DEF Settled
<1>5. CASE PressStop
  <2>1. UNCHANGED view /\ view # 0
    BY <1>5 DEF PressStop, MayPress, viewVars
  <2> QED  BY <1>e, <2>1 DEF Settled
<1>6. StartINET \/ StartINETQueues \/ create_connect \/ OpenSocket \/ Connect \/ ConnectReturns
      \/ SendPost \/ ResumeSend \/ bsend \/ get_answer \/ PostData \/ end_socket \/ free_socket
      \/ GotoLink \/ OnDNR \/ OnConnected \/ OnDataRead \/ OnBufferFree \/ OnClosed
      \/ OnDataArrived \/ OnDataEnd \/ OnGuiDestroyed \/ resend \/ Network
      => UNCHANGED view /\ (hp = "StopINET" => hp' = "StopINET")
  <2>1. StartINET \/ StartINETQueues \/ create_connect \/ OpenSocket \/ Connect
        \/ ConnectReturns \/ SendPost \/ ResumeSend \/ bsend \/ get_answer \/ PostData
        \/ end_socket \/ free_socket \/ GotoLink
        => UNCHANGED view /\ hp # "StopINET"
    BY DEF StartINET, StartINETQueues, create_connect, OpenSocket, Connect, ConnectReturns,
           SendPost, ResumeSend, bsend, get_answer, PostData, end_socket, free_socket,
           FreeSocket, GotoLink, Starts, viewVars
  <2>2. OnDNR \/ OnConnected \/ OnDataRead \/ OnBufferFree \/ OnClosed \/ OnDataArrived
        \/ OnDataEnd \/ OnGuiDestroyed \/ resend \/ Network => UNCHANGED <<view, hp>>
    BY DEF OnDNR, OnConnected, OnDataRead, OnBufferFree, OnClosed, OnDataArrived, OnDataEnd,
           OnGuiDestroyed, resend, Network, NetConnects, NetBufferFree, ServerAnswers,
           RemoteCloses, LocalCloses, DnsAnswers, viewVars, helperVars
  <2> QED  BY <2>1, <2>2
<1>7. StartINET \/ StartINETQueues \/ create_connect \/ OpenSocket \/ Connect \/ ConnectReturns
      \/ SendPost \/ ResumeSend \/ bsend \/ get_answer \/ PostData \/ end_socket \/ free_socket
      \/ GotoLink \/ OnDNR \/ OnConnected \/ OnDataRead \/ OnBufferFree \/ OnClosed
      \/ OnDataArrived \/ OnDataEnd \/ OnGuiDestroyed \/ resend \/ Network
      => KeepsProcs({"StopINET"})
  BY ProcsKept
<1>8. CASE UNCHANGED view /\ (hp = "StopINET" => hp' = "StopINET") /\ KeepsProcs({"StopINET"})
  <2>1. Stopping => Stopping'
    BY <1>8 DEF Stopping, KeepsProcs, Queued
  <2> QED  BY <1>8, <1>e, <2>1 DEF Settled
<1> QED  BY <1>1, <1>2, <1>3, <1>4, <1>5, <1>6, <1>7, <1>8 DEF Next, Helper, Mmi, User


-----------------------------------------------------------------------------
(***************************************************************************)
(* The cache file is the one of the page the request is built for.         *)
(***************************************************************************)

UrlWaits == FNCACHE # NULL /\ Building => URL # NULL

LEMMA UrlWaitsInit == Init => UrlWaits
BY DEF Init, UrlWaits

LEMMA UrlWaitsStep ==
  ASSUME Types, OneConnecting, PostInv, HostIsNumeric, UrlWaits, Next
  PROVE  UrlWaits'
<1>1. CASE UNCHANGED <<URL, FNCACHE>> /\ (Building' => Building)
  BY <1>1 DEF UrlWaits
<1>2. ASSUME KeepsProcs({"create_connect", "SendPost"}), KeepsMsgs({"DNR"}),
             dnr'.open = dnr.open, Connecting' => Connecting,
             connect_state' = 1 => connect_state = 1
      PROVE  Building' => Building
  BY <1>2, BuildingQuiet
<1>3. CASE StartINET
  <2>1. CASE UNCHANGED <<URL, FNCACHE, hp>>
    <3>1. /\ KeepsProcs({"create_connect", "SendPost"}) /\ KeepsMsgs({"DNR"})
          /\ UNCHANGED <<connect_state, dnr>> /\ (Connecting' <=> Connecting)
      BY <1>3, <2>1, ProcsKept, MsgsKept DEF StartINET, osVars, Connecting
    <3> QED  BY <1>1, <1>2, <2>1, <3>1
  <2>2. CASE URL' = view_url /\ view_url # NULL
    BY <2>2 DEF UrlWaits
  <2> QED  BY <1>3, <2>1, <2>2 DEF StartINET
<1>4. CASE StartINETQueues \/ create_connect \/ OpenSocket \/ Connect \/ ConnectReturns
           \/ (OnConnected /\ ~ UNCHANGED <<connect_state, helperq>>) \/ OnDNR
           \/ \E q \in dnr.open : DnsAnswers(q)
  <2>1. Building
    <3>1. create_connect => Queued("create_connect")
      BY DequeueStep DEF create_connect, Queued
    <3>2. StartINETQueues \/ OpenSocket \/ Connect \/ ConnectReturns => Connecting
      BY DEF StartINETQueues, OpenSocket, Connect, ConnectReturns, Connecting
    <3>3. OnConnected /\ ~ UNCHANGED <<connect_state, helperq>> => connect_state = 1
      BY DEF OnConnected
    <3>4. OnDNR => Sent({"DNR"})
      BY ConsumeStep DEF OnDNR, Sent
    <3> QED  BY <1>4, <3>1, <3>2, <3>3, <3>4 DEF Building, Awaited, LookingUp
  <2>2. UNCHANGED <<URL, FNCACHE>>
    BY <1>4 DEF StartINETQueues, create_connect, OpenSocket, Connect, ConnectReturns,
           OnConnected, OnDNR, DnsAnswers, inetVars
  <2> QED  BY <1>1, <2>1, <2>2
<1>5. CASE SendPost
  <2>1. /\ Starts("SendPost") /\ Dequeue /\ UNCHANGED <<connect_state, mmiq, dnr>>
        /\ hp' \in {"idle", "bsend"}
    BY <1>5 DEF SendPost, osVars
  <2>2. Queued("SendPost") /\ ~ Queued("SendPost")' /\ KeepsProcs({"create_connect"})
    BY <2>1, DequeueStep DEF PostInv, PostOnce, Queued
  <2>3. ~ Queued("create_connect")' /\ connect_state' # 1
    BY <2>1, <2>2 DEF PostInv, PostOnce, KeepsProcs, Queued
  <2>4. ~ LookingUp' /\ ~ Connecting'
    BY <2>1 DEF OneConnecting, LookingUp, Sent, Connecting
  <2> QED  BY <2>2, <2>3, <2>4 DEF UrlWaits, Building, Awaited
<1>6. CASE free_socket \/ StopINETFrees
  BY <1>6 DEF free_socket, StopINETFrees, FreeSocket, FreeUrl, UrlWaits
<1>7. ResumeSend \/ bsend \/ get_answer \/ PostData \/ end_socket \/ StopINET \/ GotoLink
      \/ OnDataRead \/ OnBufferFree \/ OnClosed \/ OnDataArrived \/ OnDataEnd \/ OnGotoUrl
      \/ OnGuiDestroyed \/ resend \/ Leave \/ PressStop
      => /\ UNCHANGED <<URL, FNCACHE, dnr>>
         /\ hp' = hp \/ hp' \in {"idle", "bsend", "post", "postFirst", "StopINET"}
         /\ connect_state' \in {connect_state, 3, 0, -1}
  <2>1. ResumeSend \/ bsend \/ get_answer \/ PostData \/ end_socket \/ StopINET \/ GotoLink
        => /\ UNCHANGED <<URL, FNCACHE, dnr, connect_state>>
           /\ hp' = hp \/ hp' \in {"idle", "bsend", "post", "postFirst", "StopINET"}
    BY DEF ResumeSend, bsend, get_answer, PostData, end_socket, StopINET, GotoLink, inetVars,
           osVars
  <2>2. OnDataRead \/ OnBufferFree \/ OnDataArrived \/ OnDataEnd \/ OnGotoUrl
        \/ OnGuiDestroyed \/ resend \/ Leave \/ PressStop
        => UNCHANGED <<URL, FNCACHE, dnr, hp>> /\ connect_state' \in {connect_state, 3}
    BY DEF OnDataRead, OnBufferFree, OnDataArrived, OnDataEnd, OnGotoUrl, OnGuiDestroyed,
           resend, Leave, PressStop, inetVars, helperVars, osVars
  <2>3. OnClosed => UNCHANGED <<URL, FNCACHE, dnr, hp>> /\ connect_state' \in {connect_state, 0, -1}
    BY Zenon DEF OnClosed
  <2> QED  BY <2>1, <2>2, <2>3
<1>8. ResumeSend \/ bsend \/ get_answer \/ PostData \/ end_socket \/ StopINET \/ GotoLink
      \/ OnDataRead \/ OnBufferFree \/ OnClosed \/ OnDataArrived \/ OnDataEnd \/ OnGotoUrl
      \/ OnGuiDestroyed \/ resend \/ Leave \/ PressStop
      => KeepsProcs({"create_connect", "SendPost"}) /\ KeepsMsgs({"DNR"})
  BY ProcsKept, MsgsKept DEF Ends
<1>9. CASE /\ UNCHANGED <<URL, FNCACHE, dnr>>
           /\ hp' = hp \/ hp' \in {"idle", "bsend", "post", "postFirst", "StopINET"}
           /\ connect_state' \in {connect_state, 3, 0, -1}
           /\ KeepsProcs({"create_connect", "SendPost"}) /\ KeepsMsgs({"DNR"})
  <2>1. Connecting' => Connecting
    BY <1>9 DEF Connecting
  <2> QED  BY <1>1, <1>2, <1>9, <2>1
<1>10. CASE OnConnected /\ UNCHANGED <<connect_state, helperq>>
  <2>1. UNCHANGED <<URL, FNCACHE, dnr, hp>> /\ KeepsMsgs({"DNR"})
    BY <1>10, MsgsKept DEF OnConnected
  <2>2. KeepsProcs({"create_connect", "SendPost"})
    BY <1>10, QueueKept
  <2> QED  BY <1>9, <1>10, <2>1, <2>2
<1>11. ASSUME NEW s \in Socks, \/ NetConnects(s) \/ NetBufferFree(s) \/ ServerAnswers(s)
                               \/ RemoteCloses(s) \/ LocalCloses(s)
       PROVE  UrlWaits'
  <2>1. /\ UNCHANGED <<URL, FNCACHE, dnr, hp, connect_state, helperq>>
        /\ \E k \in SocketEvents : Post(Msg(k, s))
    BY <1>11 DEF NetConnects, NetBufferFree, ServerAnswers, RemoteCloses, LocalCloses,
           inetVars, helperVars, SocketEvents
  <2>2. KeepsMsgs({"DNR"})
    BY <2>1, QueueTypes, PostStep DEF Msg, SocketEvents
  <2>3. KeepsProcs({"create_connect", "SendPost"})
    BY <2>1, QueueKept
  <2> QED  BY <1>9, <2>1, <2>2, <2>3
<1> QED  BY <1>3, <1>4, <1>5, <1>6, <1>7, <1>8, <1>9, <1>10, <1>11
         DEF Next, Helper, Mmi, User, Network

\* While a page has a cache file, its socket carries that page alone.
OwnCache ==
  /\ FNCACHE # NULL => SockData({FNCACHE})
  /\ \A p \in Pages : Of(cache[p], {p})

LEMMA OwnCacheInit == Init => OwnCache
<1> SUFFICES ASSUME Init PROVE OwnCache
  OBVIOUS
<1>1. FNCACHE = NULL /\ \A p \in Pages : cache[p] = <<>>
  BY DEF Init
<1> QED  BY <1>1, OfPieces DEF OwnCache

LEMMA OwnCacheStep ==
  ASSUME Types, ClosesOnce, OneConnecting, SockHeld, Cleaned, ViewHeld, UrlWaits, OwnCache, Next
  PROVE  OwnCache'
<1>0. /\ FNCACHE \in Pages \cup {NULL} /\ URL \in Pages \cup {NULL}
      /\ view_url \in Pages \cup {NULL} /\ cache \in [Pages -> Seq(Chunks)]
  BY DEF Types, InetTypes, ViewTypes, PageTypes
\* The request is built for the page whose cache file is open.
<1>a. ASSUME FNCACHE # NULL PROVE SockData({FNCACHE}) /\ (SendPost => URL = FNCACHE /\ URL # NULL)
  <2>1. SendPost => Queued("SendPost")
    BY DequeueStep DEF SendPost, Queued
  <2> QED  BY <1>a, <2>1 DEF OwnCache, UrlWaits, Building, Awaited, ViewHeld
<1>b. ASSUME FNCACHE # NULL, FNCACHE' = FNCACHE PROVE SockData({FNCACHE})'
  <2>1. PICK f : f = FNCACHE
    OBVIOUS
  <2>2. SockData({f}) /\ (SendPost => (IF URL = NULL THEN 0 ELSE URL) \in {f})
    BY <1>a, <1>b, <2>1
  <2>3. SockData({f})'
    BY <2>2, SockDataStep
  <2> QED  BY <1>b, <2>1, <2>3 DEF SockData
<1>1. CASE StartINET
  <2>1. CASE UNCHANGED <<FNCACHE, cache>>
    BY <1>b, <2>1 DEF OwnCache
  <2>2. CASE /\ ~ InetBusy /\ view_url # NULL /\ cache' = [cache EXCEPT ![view_url] = <<>>]
             /\ UNCHANGED <<sock, conns>> /\ hp = "idle"
    <3>1. ~ Alive(sock)
      BY <2>2 DEF InetBusy, SockHeld, Alive
    <3>2. \A S : SockData(S)'
      BY <2>2, <3>1 DEF SockData, Alive
    <3>3. \A p \in Pages : cache'[p] = IF p = view_url THEN <<>> ELSE cache[p]
      BY <1>0, <2>2
    <3>4. (FNCACHE # NULL => SockData({FNCACHE}))'
      BY <2>2, <3>1 DEF SockData, Alive
    <3> QED  BY <3>3, <3>4, OfPieces DEF OwnCache
  <2> QED  BY <1>1, <2>1, <2>2 DEF StartINET, Starts, osVars
<1>2. CASE get_answer
  <2>1. UNCHANGED FNCACHE
    BY <1>2 DEF get_answer
  <2>2. CASE UNCHANGED cache
    BY <1>b, <2>1, <2>2 DEF OwnCache
  <2>3. CASE FNCACHE # NULL /\ ~ UNCHANGED cache
    <3>1. PICK f \in Pages : f = FNCACHE
      BY <1>0, <2>3
    <3>2. SockData({f})
      BY <1>a, <2>3, <3>1
    <3>3. seg' \in Seq(Chunks) /\ Of(seg', {f}) /\ writecache(seg')
      BY <1>2, <2>3, <3>2, AnswerStep
    <3>4. cache' = [cache EXCEPT ![f] = cache[f] \o seg']
      BY <2>3, <3>1, <3>3 DEF writecache
    <3>5. Of(cache[f], {f}) /\ cache[f] \in Seq(Chunks)
      BY <1>0 DEF OwnCache
    <3>6. Of(cache[f] \o seg', {f})
      BY <3>3, <3>5, OfPieces
    <3>7. \A p \in Pages : cache'[p] = IF p = f THEN cache[f] \o seg' ELSE cache[p]
      BY <1>0, <3>4
    <3> QED  BY <1>b, <2>1, <2>3, <3>6, <3>7 DEF OwnCache
  <2>4. FNCACHE = NULL => UNCHANGED cache
    BY <1>2 DEF get_answer, writecache
  <2> QED  BY <2>2, <2>3, <2>4
<1>3. CASE free_socket \/ StopINETFrees
  <2>1. FNCACHE' = NULL /\ UNCHANGED cache
    BY <1>3 DEF free_socket, StopINETFrees, FreeSocket, FreeUrl, pageVars
  <2> QED  BY <2>1 DEF OwnCache
<1>4. StartINETQueues \/ create_connect \/ OpenSocket \/ Connect \/ ConnectReturns \/ SendPost
      \/ ResumeSend \/ bsend \/ PostData \/ end_socket \/ StopINET \/ GotoLink \/ Mmi \/ User
      \/ Network => UNCHANGED <<FNCACHE, cache>>
  BY DEF StartINETQueues, create_connect, OpenSocket, Connect, ConnectReturns, SendPost,
         ResumeSend, bsend, PostData, end_socket, StopINET, GotoLink, Mmi, User, OnDNR,
         OnConnected, OnDataRead, OnBufferFree, OnClosed, OnDataArrived, OnDataEnd, OnGotoUrl,
         OnGuiDestroyed, resend, Leave, PressStop, Network, NetConnects, NetBufferFree,
         ServerAnswers, RemoteCloses, LocalCloses, DnsAnswers, inetVars, pageVars
<1>5. CASE UNCHANGED <<FNCACHE, cache>>
  BY <1>b, <1>5 DEF OwnCache
<1> QED  BY <1>1, <1>2, <1>3, <1>4, <1>5 DEF Next, Helper

-----------------------------------------------------------------------------
\* The invariant for what the pages show and cache.
PageInv ==
  /\ IInv /\ ViewInv
  /\ HostIsNumeric => PostInv /\ UrlWaits
  /\ Calm => Cleaned /\ OwnData /\ OwnCache

LEMMA PageInvInit == Init => PageInv
BY InvInit, ViewInit, PostInit, UrlWaitsInit, CleanedInit, OwnDataInit, OwnCacheInit
   DEF PageInv

LEMMA PageInvStep == PageInv /\ [Next]_<<vars, world>> => PageInv'
<1>a. SUFFICES ASSUME PageInv, [Next]_<<vars, world>> PROVE PageInv'
  OBVIOUS
<1>0. IInv'
  BY <1>a, InvStep DEF PageInv
<1>1. CASE Next
  <2>1. Types /\ LoadInv /\ ClosesOnce /\ ViewInv
    BY <1>a DEF PageInv, IInv, LoadInv
  <2>2. ViewInv'
    BY <1>1, <2>1, ViewStep
  <2>3. (Calm' <=> Calm) /\ (HostIsNumeric' <=> HostIsNumeric)
    BY <1>1 DEF Next, Calm, HostIsNumeric, HurriedUser
  <2>4. Calm => OneConnecting /\ SockHeld /\ Cleaned /\ OwnData /\ OwnCache
    BY <1>a DEF PageInv, IInv
  <2>5. HostIsNumeric => PostInv' /\ UrlWaits'
    <3>1. HostIsNumeric => Calm /\ PostInv /\ UrlWaits
      BY <1>a DEF PageInv, Calm
    <3>2. HostIsNumeric => PostInv'
      BY <1>1, <2>1, <2>4, <3>1, PostInvStep DEF ViewInv
    <3>3. HostIsNumeric => UrlWaits'
      BY <1>1, <2>1, <2>4, <3>1, UrlWaitsStep
    <3> QED  BY <3>2, <3>3
  <2>6. Calm => UrlWaits
    <3>1. ~ HurriedUser => UrlAwaits
      BY <1>a DEF PageInv, IInv, UrlKept
    <3> QED  BY <1>a, <3>1 DEF PageInv, Calm, UrlAwaits, UrlWaits
  <2>7. Calm => Cleaned'
    BY <1>1, <2>1, <2>4, CleanedStep
  <2>8. Calm => OwnData'
    BY <1>1, <2>1, <2>4, OwnDataStep DEF LoadInv, ViewInv
  <2>9. Calm => OwnCache'
    BY <1>1, <2>1, <2>4, <2>6, OwnCacheStep DEF ViewInv
  <2> QED  BY <1>0, <2>2, <2>3, <2>5, <2>7, <2>8, <2>9 DEF PageInv
<1>2. CASE UNCHANGED <<vars, world>>
  <2>1. UNCHANGED <<connect_state, sock, URL, FNCACHE, recvq, sendq, STOPPED, view, view_url,
                    helperq, hp, seg, mmiq, conns, dnr, cache, shown, world>>
    BY <1>2 DEF vars, inetVars, viewVars, helperVars, osVars, pageVars
  <2>2. ViewInv => ViewInv'
    BY <2>1 DEF ViewInv, ViewHeld, DataFirst, StopsDone, Queued, Sent
  <2>3. PostInv => PostInv'
    BY <2>1 DEF PostInv, EndOnce, PostOnce, Connecting, Queued, Alive
  <2>4. UrlWaits => UrlWaits'
    BY <2>1 DEF UrlWaits, Building, Connecting, LookingUp, Awaited, Queued, Sent
  <2>5. Cleaned => Cleaned'
    BY <2>1 DEF Cleaned, Queued, Alive
  <2>6. OwnData => OwnData'
    BY <2>1 DEF OwnData, Settled, Stopping, LoadsFor, SockData, Queued, Alive, Pages
  <2>7. OwnCache => OwnCache'
    BY <2>1 DEF OwnCache, SockData, Alive, Pages
  <2>8. (Calm' <=> Calm) /\ (HostIsNumeric' <=> HostIsNumeric)
    BY <2>1 DEF Calm, HostIsNumeric, HurriedUser
  <2> QED  BY <1>a, <1>0, <2>2, <2>3, <2>4, <2>5, <2>6, <2>7, <2>8 DEF PageInv
<1> QED  BY <1>a, <1>1, <1>2

\* A page never shows, and its cache file never holds, the answer to another
\* page's request, although the two threads share one socket, one cache file name
\* and one STOPPED: when no lookup can be overtaken, as for SocketIsOne.
THEOREM AnswersStayApart ==
  (\A w \in Worlds : w.numeric \/ ~ w.hurried) => (Spec => []Isolation)
<1> SUFFICES ASSUME \A w \in Worlds : w.numeric \/ ~ w.hurried
             PROVE  Spec => []Isolation
  OBVIOUS
<1>1. PageInv => Isolation
  <2> SUFFICES ASSUME PageInv PROVE Isolation
    OBVIOUS
  <2>1. Calm
    BY DEF PageInv, IInv, Types, Calm, HostIsNumeric, HurriedUser
  <2> QED  BY <2>1 DEF PageInv, OwnData, OwnCache, Of, Isolation
<1> QED  BY <1>1, PageInvInit, PageInvStep, PTL DEF Spec

-----------------------------------------------------------------------------
(***************************************************************************)
(* What a page shows and caches is a part of one answer, in order.          *)
(***************************************************************************)

\* The pieces c go on where the pieces a end; d goes on where c does.
Links(a, c) ==
  a # <<>> /\ c # <<>> => c[1].req = a[Len(a)].req /\ c[1].k = a[Len(a)].k + 1
Alike(c, d) == d = <<>> \/ (c # <<>> /\ d[1].req = c[1].req /\ d[1].k = c[1].k)

\* The pieces a, those of the data in the queue of messages q and c link up.
Filled(q, i) == i = 0 \/ i = Len(q) + 1 \/ q[i].kind = "DATA_ARRIVED"
PieceAt(q, a, c, i) == IF i = 0 THEN a ELSE IF i = Len(q) + 1 THEN c ELSE q[i].arg
Neighbours(q, i, j) ==
  /\ i < j /\ Filled(q, i) /\ Filled(q, j)
  /\ \A m \in 0 .. Len(q) + 1 : i < m /\ m < j => ~ Filled(q, m)
Joined(q, a, c) ==
  /\ \A i \in DOMAIN q :
       q[i].kind = "DATA_ARRIVED" => q[i].arg # <<>> /\ Contiguous(q[i].arg)
  /\ \A i, j \in 0 .. Len(q) + 1 :
       Neighbours(q, i, j) => Links(PieceAt(q, a, c, i), PieceAt(q, a, c, j))

LEMMA PiecesJoined ==
  /\ Contiguous(<<>>) /\ \A c : Contiguous(<<c>>)
  /\ \A a, b \in Seq(Chunks) :
       b # <<>> => a \o b # <<>> /\ (a \o b)[Len(a \o b)] = b[Len(b)]
  /\ \A a, b \in Seq(Chunks) :
       Contiguous(a) /\ Contiguous(b) /\ Links(a, b) => Contiguous(a \o b)
<1>1. Contiguous(<<>>) /\ \A c : Contiguous(<<c>>)
  BY DEF Contiguous
<1>2. ASSUME NEW a \in Seq(Chunks), NEW b \in Seq(Chunks)
      PROVE  /\ b # <<>> => a \o b # <<>> /\ (a \o b)[Len(a \o b)] = b[Len(b)]
             /\ Contiguous(a) /\ Contiguous(b) /\ Links(a, b) => Contiguous(a \o b)
  <2> DEFINE t == a \o b  m == Len(a)  n == Len(b)
  <2>1. /\ m \in Nat /\ n \in Nat /\ Len(t) = m + n /\ (b # <<>> <=> n # 0)
        /\ (a # <<>> <=> m # 0) /\ (t # <<>> <=> m + n # 0)
        /\ \A i \in 1 .. m + n : t[i] = IF i <= m THEN a[i] ELSE b[i - m]
    BY ConcatProperties, LenProperties, EmptySeq
  <2>2. a[m] = a[Len(a)] /\ b[n] = b[Len(b)] /\ Len(a) = m /\ Len(b) = n
    OBVIOUS
  <2> HIDE DEF t, m, n
  <2>3. b # <<>> => t # <<>> /\ t[Len(t)] = b[Len(b)]
    BY <2>1, <2>2
  <2>4. ASSUME Contiguous(a), Contiguous(b), Links(a, b), NEW i \in 1 .. m + n - 1
        PROVE  t[i + 1].req = t[i].req /\ t[i + 1].k = t[i].k + 1
    <3>1. CASE i + 1 <= m
      <4>1. i \in 1 .. m - 1 /\ t[i] = a[i] /\ t[i + 1] = a[i + 1]
        BY <2>1, <3>1
      <4> QED  BY <2>2, <2>4, <4>1 DEF Contiguous
    <3>2. CASE i = m
      <4>1. /\ t[i] = a[m] /\ t[i + 1] = b[1] /\ m # 0 /\ n # 0
        BY <2>1, <3>2
      <4> QED  BY <2>1, <2>2, <2>4, <4>1 DEF Links
    <3>3. CASE i > m
      <4>1. /\ i - m \in 1 .. n - 1 /\ t[i] = b[i - m] /\ t[i + 1] = b[i - m + 1]
        BY <2>1, <3>3
      <4> QED  BY <2>2, <2>4, <4>1 DEF Contiguous
    <3> QED  BY <2>1, <3>1, <3>2, <3>3
  <2>5. Contiguous(a) /\ Contiguous(b) /\ Links(a, b) => Contiguous(t)
    BY <2>1, <2>4 DEF Contiguous
  <2> QED  BY <2>3, <2>5 DEF t
<1> QED  BY <1>1, <1>2

\* What comes next is replaced by what goes on at the same place, or by nothing.
LEMMA JoinedAlike ==
  ASSUME NEW q \in Seq(Messages), NEW a, NEW c, NEW d, Joined(q, a, c), Alike(c, d)
  PROVE  Joined(q, a, d)
<1>1. Len(q) \in Nat
  OBVIOUS
<1>2. ASSUME NEW i \in 0 .. Len(q) + 1, NEW j \in 0 .. Len(q) + 1, Neighbours(q, i, j)
      PROVE  Links(PieceAt(q, a, d, i), PieceAt(q, a, d, j))
  <2>1. Links(PieceAt(q, a, c, i), PieceAt(q, a, c, j)) /\ i < j
    BY <1>2 DEF Joined, Neighbours
  <2>2. PieceAt(q, a, d, i) = PieceAt(q, a, c, i)
    BY <1>1, <2>1 DEF PieceAt
  <2>3. CASE j = Len(q) + 1
    <3>1. PieceAt(q, a, d, j) = d /\ PieceAt(q, a, c, j) = c
      BY <1>1, <2>3 DEF PieceAt
    <3> QED  BY <2>1, <2>2, <3>1 DEF Links, Alike
  <2>4. CASE j # Len(q) + 1
    <3>1. PieceAt(q, a, d, j) = PieceAt(q, a, c, j)
      BY <2>4 DEF PieceAt
    <3> QED  BY <2>1, <2>2, <3>1
  <2> QED  BY <2>3, <2>4
<1> QED  BY <1>2 DEF Joined

\* Where nothing has come yet anything may.
LEMMA JoinedBlank ==
  ASSUME NEW q \in Seq(Messages), ~ Has(q, {"DATA_ARRIVED"}), NEW c
  PROVE  Joined(q, <<>>, c)
<1>1. Len(q) \in Nat /\ DOMAIN q = 1 .. Len(q)
  OBVIOUS
<1>2. \A i \in DOMAIN q : q[i].kind # "DATA_ARRIVED"
  BY DEF Has
<1>3. ASSUME NEW i \in 0 .. Len(q) + 1, NEW j \in 0 .. Len(q) + 1, Neighbours(q, i, j)
      PROVE  Links(PieceAt(q, <<>>, c, i), PieceAt(q, <<>>, c, j))
  <2>1. i < j /\ Filled(q, i)
    BY <1>3 DEF Neighbours
  <2>2. i = 0
    BY <1>1, <1>2, <2>1 DEF Filled
  <2> QED  BY <2>2 DEF PieceAt, Links
<1> QED  BY <1>2, <1>3 DEF Joined

LEMMA JoinedTaken ==
  ASSUME NEW q \in Seq(Messages), q # <<>>, NEW a \in Seq(Chunks), NEW c, Joined(q, a, c)
  PROVE  /\ Head(q).kind # "DATA_ARRIVED" => Joined(Tail(q), a, c)
         /\ Head(q).kind = "DATA_ARRIVED" =>
              /\ Head(q).arg \in Seq(Chunks) /\ Contiguous(Head(q).arg)
              /\ Links(a, Head(q).arg) /\ Joined(Tail(q), a \o Head(q).arg, c)
<1> DEFINE t == Tail(q)  n == Len(q)
           data == Head(q).kind = "DATA_ARRIVED"
           b == IF data THEN a \o Head(q).arg ELSE a
<1>1. /\ t \in Seq(Messages) /\ n \in Nat \ {0} /\ DOMAIN q = 1 .. n /\ DOMAIN t = 1 .. n - 1
      /\ Len(t) = n - 1 /\ Len(q) = n /\ Head(q) = q[1] /\ Head(q) \in Messages
      /\ \A i \in 1 .. n - 1 : t[i] = q[i + 1]
  BY TakenIndices
<1> HIDE DEF t, n
<1>2. \A i \in 1 .. n - 1 : i + 1 \in 1 .. n
  BY <1>1
<1>3. data => /\ Head(q).arg \in Seq(Chunks) /\ Contiguous(Head(q).arg) /\ Head(q).arg # <<>>
              /\ Links(a, Head(q).arg)
  <2> SUFFICES ASSUME data
               PROVE  /\ Head(q).arg \in Seq(Chunks) /\ Contiguous(Head(q).arg)
                      /\ Head(q).arg # <<>> /\ Links(a, Head(q).arg)
    OBVIOUS
  <2>1. Head(q).arg \in Seq(Chunks)
    BY <1>1 DEF Messages, SocketEvents, Opening
  <2>2. Contiguous(Head(q).arg) /\ Head(q).arg # <<>>
    BY <1>1 DEF Joined
  <2>3. Neighbours(q, 0, 1)
    BY <1>1 DEF Neighbours, Filled
  <2>4. Links(PieceAt(q, a, c, 0), PieceAt(q, a, c, 1))
    BY <1>1, <2>3 DEF Joined
  <2>5. PieceAt(q, a, c, 0) = a /\ PieceAt(q, a, c, 1) = Head(q).arg
    BY <1>1 DEF PieceAt
  <2> QED  BY <2>1, <2>2, <2>4, <2>5
<1>4. \A i \in DOMAIN t :
        t[i].kind = "DATA_ARRIVED" => t[i].arg # <<>> /\ Contiguous(t[i].arg)
  BY <1>1, <1>2 DEF Joined
<1>5. ASSUME NEW i \in 0 .. n, NEW j \in 0 .. n, Neighbours(t, i, j)
      PROVE  Links(PieceAt(t, b, c, i), PieceAt(t, b, c, j))
  <2> DEFINE h == IF i = 0 THEN IF data THEN 1 ELSE 0 ELSE i + 1
  <2>1. /\ i < j /\ Filled(t, i) /\ Filled(t, j) /\ j # 0
        /\ \A m \in 0 .. n : i < m /\ m < j => ~ Filled(t, m)
    BY <1>1, <1>5 DEF Neighbours
  <2>2. \A m \in 1 .. n : Filled(q, m + 1) <=> Filled(t, m)
    BY <1>1 DEF Filled
  <2>3. Filled(q, h) /\ Filled(q, j + 1) /\ h < j + 1
    BY <1>1, <2>1, <2>2 DEF Filled
  <2>4. ASSUME NEW m \in 0 .. n + 1, h < m, m < j + 1 PROVE ~ Filled(q, m)
    <3>1. CASE m = 1
      BY <1>1, <2>4, <3>1 DEF Filled
    <3>2. CASE m # 1
      <4>1. m - 1 \in 1 .. n /\ i < m - 1 /\ m - 1 < j
        BY <1>1, <2>4, <3>2
      <4>2. ~ Filled(t, m - 1) /\ m - 1 + 1 = m
        BY <1>1, <2>1, <4>1
      <4> QED  BY <2>2, <4>1, <4>2
    <3> QED  BY <3>1, <3>2
  <2>5. h \in 0 .. n + 1 /\ j + 1 \in 0 .. n + 1
    BY <1>1
  <2>6. Neighbours(q, h, j + 1)
    <3> HIDE DEF h
    <3> QED  BY <1>1, <2>3, <2>4 DEF Neighbours
  <2>7. Links(PieceAt(q, a, c, h), PieceAt(q, a, c, j + 1))
    <3> HIDE DEF h
    <3> QED  BY <1>1, <2>5, <2>6 DEF Joined
  <2>8. PieceAt(q, a, c, j + 1) = PieceAt(t, b, c, j)
    BY <1>1, <2>1 DEF PieceAt
  <2>9. CASE i = 0 /\ data
    <3>1. PieceAt(q, a, c, h) = Head(q).arg /\ PieceAt(t, b, c, i) = a \o Head(q).arg
      BY <1>1, <2>9 DEF PieceAt
    <3>2. /\ a \o Head(q).arg # <<>>
          /\ (a \o Head(q).arg)[Len(a \o Head(q).arg)] = Head(q).arg[Len(Head(q).arg)]
      BY <1>3, <2>9, PiecesJoined
    <3> QED  BY <1>3, <2>7, <2>8, <2>9, <3>1, <3>2 DEF Links
  <2>10. CASE i = 0 /\ ~ data
    <3>1. PieceAt(q, a, c, h) = PieceAt(t, b, c, i)
      BY <2>10 DEF PieceAt
    <3> QED  BY <2>7, <2>8, <3>1
  <2>11. CASE i # 0
    <3>1. PieceAt(q, a, c, h) = PieceAt(t, b, c, i)
      BY <1>1, <2>1, <2>11 DEF PieceAt
    <3> QED  BY <2>7, <2>8, <3>1
  <2> QED  BY <2>9, <2>10, <2>11
<1>6. Joined(t, b, c)
  <2>1. Len(t) + 1 = n
    BY <1>1
  <2> HIDE DEF b
  <2> QED  BY <1>4, <1>5, <2>1 DEF Joined
<1> QED  BY <1>3, <1>6 DEF t

\* The message m goes behind q: if it holds data, they are what was to come.
LEMMA JoinedAdded ==
  ASSUME NEW q \in Seq(Messages), NEW m \in Messages, NEW a, NEW c, NEW d, Joined(q, a, c),
         \/ m.kind # "DATA_ARRIVED" /\ d = c
         \/ /\ m.kind = "DATA_ARRIVED" /\ m.arg = c /\ c # <<>> /\ Contiguous(c)
            /\ Links(c, d)
  PROVE  Joined(Append(q, m), a, d)
<1> DEFINE t == Append(q, m)  n == Len(q)
<1>1. /\ t \in Seq(Messages) /\ n \in Nat /\ DOMAIN q = 1 .. n /\ DOMAIN t = 1 .. n + 1
      /\ Len(t) = n + 1 /\ Len(q) = n /\ t[n + 1] = m /\ \A i \in 1 .. n : t[i] = q[i]
  BY AddedIndices, AppendProperties
<1> HIDE DEF t, n
<1>2. \A i \in DOMAIN t :
        t[i].kind = "DATA_ARRIVED" => t[i].arg # <<>> /\ Contiguous(t[i].arg)
  <2>1. \A i \in 1 .. n + 1 : i # n + 1 => i \in 1 .. n
    BY <1>1
  <2> QED  BY <1>1, <2>1 DEF Joined
<1>3. \A i \in 0 .. n : Filled(t, i) <=> Filled(q, i)
  BY <1>1 DEF Filled
<1>4. ASSUME NEW i \in 0 .. n + 2, NEW j \in 0 .. n + 2, Neighbours(t, i, j)
      PROVE  Links(PieceAt(t, a, d, i), PieceAt(t, a, d, j))
  <2>1. /\ i < j /\ Filled(t, i) /\ Filled(t, j)
        /\ \A k \in 0 .. n + 2 : i < k /\ k < j => ~ Filled(t, k)
    BY <1>1, <1>4 DEF Neighbours
\* i is before what was to come: so is j, or it takes its place.
  <2>2. CASE i \in 0 .. n
    <3> DEFINE h == IF j \in 0 .. n THEN j ELSE n + 1
    <3>1. h \in 0 .. n + 1 /\ i < h /\ h <= j
      BY <1>1, <2>1, <2>2
    <3>2. Filled(q, i) /\ Filled(q, h)
      BY <1>1, <1>3, <2>1, <2>2 DEF Filled
    <3>3. \A k \in 0 .. n + 1 : i < k /\ k < h => ~ Filled(q, k)
      <4> SUFFICES ASSUME NEW k \in 0 .. n + 1, i < k, k < h PROVE ~ Filled(q, k)
        OBVIOUS
      <4>1. k \in 0 .. n /\ k < j
        BY <1>1, <3>1
      <4> QED  BY <1>1, <1>3, <2>1, <4>1
    <3>4. PieceAt(t, a, d, i) = PieceAt(q, a, c, i)
      BY <1>1, <2>2 DEF PieceAt
    <3>5. CASE j \in 0 .. n
      <4>1. PieceAt(t, a, d, j) = PieceAt(q, a, c, h)
        BY <1>1, <3>5 DEF PieceAt
      <4> HIDE DEF h
      <4> QED  BY <1>1, <3>1, <3>2, <3>3, <3>4, <4>1 DEF Joined, Neighbours
    <3>6. CASE j \notin 0 .. n
      <4>1. PieceAt(q, a, c, h) = c
        BY <1>1, <3>6 DEF PieceAt
      <4>2. PieceAt(t, a, d, j) = c
        <5>1. CASE j = n + 1
          BY <1>1, <2>1, <5>1 DEF PieceAt, Filled
        <5>2. CASE j = n + 2
          <6>1. ~ Filled(t, n + 1)
            BY <1>1, <2>1, <2>2, <5>2
          <6> QED  BY <1>1, <5>2, <6>1 DEF PieceAt, Filled
        <5> QED  BY <1>1, <3>6, <5>1, <5>2
      <4>3. Neighbours(q, i, h)
        <5> HIDE DEF h
        <5> QED  BY <1>1, <3>1, <3>2, <3>3 DEF Neighbours
      <4> HIDE DEF h
      <4> QED  BY <1>1, <2>2, <3>1, <3>4, <4>1, <4>2, <4>3 DEF Joined
    <3> QED  BY <3>5, <3>6
  <2>3. CASE i = n + 1
    <3>1. j = n + 2 /\ m.kind = "DATA_ARRIVED"
      BY <1>1, <2>1, <2>3 DEF Filled
    <3>2. PieceAt(t, a, d, i) = c /\ PieceAt(t, a, d, j) = d
      BY <1>1, <2>3, <3>1 DEF PieceAt
    <3> QED  BY <3>1, <3>2
  <2> QED  BY <1>1, <2>1, <2>2, <2>3
<1>5. Joined(t, a, d)
  <2>1. Len(t) + 1 = n + 2
    BY <1>1
  <2> QED  BY <1>2, <1>4, <2>1 DEF Joined
<1> QED  BY <1>5 DEF t

\* The end of consecutive pieces.
LEMMA EndOfPieces ==
  ASSUME NEW q \in Seq(Chunks), NEW m \in 1 .. Len(q) + 1, Contiguous(q)
  PROVE  /\ Contiguous(SubSeq(q, m, Len(q)))
         /\ \A d : Links(q, d) => Links(SubSeq(q, m, Len(q)), d)
<1> DEFINE n == Len(q)  t == SubSeq(q, m, n)
<1>1. /\ n \in Nat /\ m \in 1 .. n + 1 /\ Len(q) = n /\ Len(t) = n - m + 1
      /\ \A i \in 1 .. n - m + 1 : t[i] = q[m + i - 1]
      /\ (t # <<>> <=> n - m + 1 # 0) /\ (q # <<>> <=> n # 0)
  <2>1. n \in Nat
    OBVIOUS
  <2>2. /\ t \in Seq(Chunks) /\ Len(t) = n - m + 1
        /\ \A i \in 1 .. n - m + 1 : t[i] = q[m + i - 1]
    BY <2>1, SubSeqProperties
  <2> QED  BY <2>1, <2>2, EmptySeq
<1> HIDE DEF n, t
<1>2. Contiguous(t)
  <2> SUFFICES ASSUME NEW i \in 1 .. n - m
               PROVE  t[i + 1].req = t[i].req /\ t[i + 1].k = t[i].k + 1
    BY <1>1 DEF Contiguous
  <2>1. /\ m + i - 1 \in 1 .. n - 1 /\ t[i] = q[m + i - 1] /\ t[i + 1] = q[m + i - 1 + 1]
    BY <1>1
  <2> QED  BY <1>1, <2>1 DEF Contiguous
<1>3. ASSUME NEW d, Links(q, d) PROVE Links(t, d)
  <2>1. t # <<>> => q # <<>> /\ t[n - m + 1] = q[n]
    BY <1>1
  <2> QED  BY <1>1, <1>3, <2>1 DEF Links
<1> QED  BY <1>2, <1>3 DEF t, n

\* What the socket has still to give begins with the piece after those read.
NextPiece ==
  IF Alive(sock) THEN <<[req |-> conns[sock].req, k |-> conns[sock].rd + 1]>> ELSE <<>>
Posting == hp \in {"post", "postFirst"}
\* What will be posted next to the view that is open.
Coming == IF STOPPED THEN <<>> ELSE IF Posting THEN seg ELSE NextPiece

\* The pieces read are counted by get_answer alone.
LEMMA ReadKept ==
  ASSUME Types, Next, NEW s \in Socks
  PROVE  OpenSocket \/ get_answer \/ (Alive(s)' => conns'[s].rd = conns[s].rd)
<1>0. conns \in [Socks -> SoundConns] /\ \A t \in Socks : conns[t] \in Conns
  BY DEF Types, OsTypes, SoundConns
<1>1. CASE UNCHANGED conns
  BY <1>1
<1>2. ASSUME NEW t, NEW c, conns' = [conns EXCEPT ![t] = c],
             t \in Socks => c.rd = conns[t].rd \/ c.st \in {"free", "closing"}
      PROVE  Alive(s)' => conns'[s].rd = conns[s].rd
  <2>1. conns'[s] = IF s = t THEN c ELSE conns[s]
    BY <1>0, <1>2
  <2> QED  BY <1>2, <2>1 DEF Alive
<1>3. ASSUME NEW t, NEW x, conns' = [conns EXCEPT ![t].st = x]
      PROVE  Alive(s)' => conns'[s].rd = conns[s].rd
  <2> DEFINE c == [conns[t] EXCEPT !.st = x]
  <2>1. conns' = [conns EXCEPT ![t] = c]
    BY <1>3
  <2>2. t \in Socks => c.rd = conns[t].rd
    BY <1>0 DEF Conns
  <2> HIDE DEF c
  <2> QED  BY <1>2, <2>1, <2>2
<1>4. CASE bsend
  <2>1. CASE \E full \in BOOLEAN :
               conns' = [conns EXCEPT ![sock].req = sendq.req, ![sock].got = @ + 1,
                                      ![sock].full = full]
    <3>1. PICK full \in BOOLEAN :
            conns' = [conns EXCEPT ![sock].req = sendq.req, ![sock].got = @ + 1,
                                   ![sock].full = full]
      BY <2>1
    <3> DEFINE c == [conns[sock] EXCEPT !.req = sendq.req, !.got = @ + 1, !.full = full]
    <3>2. conns' = [conns EXCEPT ![sock] = c]
      BY <1>0, <3>1
    <3>3. sock \in Socks => c.rd = conns[sock].rd
      BY <1>0 DEF Conns
    <3> HIDE DEF c
    <3> QED  BY <1>2, <3>2, <3>3
  <2> QED  BY <1>1, <1>4, <2>1 DEF bsend
<1>5. ASSUME NEW t \in Socks, LocalCloses(t) PROVE Alive(s)' => conns'[s].rd = conns[s].rd
  <2>1. conns' = [conns EXCEPT ![t] = NoConn] /\ NoConn.st = "free"
    BY <1>5 DEF LocalCloses, NoConn
  <2> QED  BY <1>2, <2>1
<1>6. ASSUME NEW t \in Socks, NetBufferFree(t) PROVE Alive(s)' => conns'[s].rd = conns[s].rd
  <2> DEFINE c == [conns[t] EXCEPT !.full = FALSE]
  <2>1. conns' = [conns EXCEPT ![t] = c]
    BY <1>6 DEF NetBufferFree
  <2>2. c.rd = conns[t].rd
    BY <1>0 DEF Conns
  <2> HIDE DEF c
  <2> QED  BY <1>2, <2>1, <2>2
<1>7. ASSUME NEW t \in Socks, ServerAnswers(t) PROVE Alive(s)' => conns'[s].rd = conns[s].rd
  <2>1. PICK r \in Responses : conns' = [conns EXCEPT ![t].resp = r, ![t].sent = @ + 1]
    BY <1>7 DEF ServerAnswers
  <2> DEFINE c == [conns[t] EXCEPT !.resp = r, !.sent = @ + 1]
  <2>2. conns' = [conns EXCEPT ![t] = c]
    BY <1>0, <2>1
  <2>3. c.rd = conns[t].rd
    BY <1>0 DEF Conns
  <2> HIDE DEF c
  <2> QED  BY <1>2, <2>2, <2>3
<1>8. \A t \in Socks : NetConnects(t) \/ RemoteCloses(t)
        => \E x : conns' = [conns EXCEPT ![t].st = x]
  BY DEF NetConnects, RemoteCloses
<1>9. Connect \/ end_socket \/ StopINET
        => UNCHANGED conns \/ \E x : conns' = [conns EXCEPT ![sock].st = x]
  BY DEF Connect, end_socket, StopINET, Closed
<1>10. StartINET \/ StartINETQueues \/ create_connect \/ ConnectReturns \/ SendPost
       \/ ResumeSend \/ PostData \/ free_socket \/ StopINETFrees \/ GotoLink \/ Mmi \/ User
       => UNCHANGED conns
  BY DEF StartINET, StartINETQueues, create_connect, ConnectReturns, SendPost, ResumeSend,
         PostData, free_socket, StopINETFrees, GotoLink, Mmi, User, OnDNR, OnConnected,
         OnDataRead, OnBufferFree, OnClosed, OnDataArrived, OnDataEnd, OnGotoUrl,
         OnGuiDestroyed, resend, Leave, PressStop, osVars
<1>11. \A q : DnsAnswers(q) => UNCHANGED conns
  BY DEF DnsAnswers
<1> QED  BY <1>1, <1>3, <1>4, <1>5, <1>6, <1>7, <1>8, <1>9, <1>10, <1>11
         DEF Next, Helper, Network

\* A piece of the request is sent, or nothing.
LEMMA SendStep ==
  ASSUME Types, bsend
  PROVE  /\ UNCHANGED <<sock, recvq>> /\ sendq # NULL
         /\ sendq' = NULL \/ (sendq' # NULL /\ sendq'.req = sendq.req)
         /\ Alive(sock)' =>
              /\ Alive(sock) /\ conns'[sock].rd = conns[sock].rd
              /\ \/ /\ conns'[sock].req = conns[sock].req /\ conns'[sock].got = conns[sock].got
                 \/ conns'[sock].req = sendq.req /\ conns'[sock].got > 0
<1>0. conns \in [Socks -> SoundConns] /\ \A t \in Socks : conns[t] \in Conns
  BY DEF Types, OsTypes, SoundConns
<1>1. /\ UNCHANGED <<sock, recvq>> /\ sendq # NULL
      /\ sendq' = NULL \/ (sendq' # NULL /\ sendq'.req = sendq.req)
  BY SentConn
<1>2. CASE UNCHANGED conns
  BY <1>1, <1>2 DEF Alive
<1>3. CASE ~ UNCHANGED conns
  <2>1. PICK full \in BOOLEAN :
          conns' = [conns EXCEPT ![sock].req = sendq.req, ![sock].got = @ + 1,
                                 ![sock].full = full]
    BY <1>3 DEF bsend
  <2>2. sock \in Socks /\ Alive(sock)
    BY <1>3 DEF bsend, Alive
  <2> DEFINE c == [conns[sock] EXCEPT !.req = sendq.req, !.got = @ + 1, !.full = full]
  <2>3. conns' = [conns EXCEPT ![sock] = c]
    BY <1>0, <2>1, <2>2
  <2>4. conns'[sock] = c
    BY <1>0, <2>2, <2>3
  <2>5. c.req = sendq.req /\ c.got > 0 /\ c.rd = conns[sock].rd
    BY <1>0, <2>2 DEF Conns
  <2> HIDE DEF c
  <2> QED  BY <1>1, <2>2, <2>4, <2>5
<1> QED  BY <1>2, <1>3

\* What comes next stays what it is, unless a socket is opened, sends or is read.
LEMMA NextStep ==
  ASSUME Types, ClosesOnce, Next
  PROVE  OpenSocket \/ bsend \/ get_answer \/ NextPiece' = NextPiece \/ NextPiece' = <<>>
<1> SUFFICES ASSUME ~ OpenSocket, ~ bsend, ~ get_answer, Alive(sock)'
             PROVE  NextPiece' = NextPiece
  BY DEF NextPiece
<1>1. /\ sock' = sock /\ Alive(sock) /\ conns'[sock].req = conns[sock].req
  BY SockStep DEF SockKept
<1>2. PICK s \in Socks : s = sock
  BY <1>1 DEF Alive
<1>3. Alive(s)'
  BY <1>1, <1>2 DEF Alive
<1>4. conns'[sock].rd = conns[sock].rd
  BY <1>2, <1>3, ReadKept
<1> QED  BY <1>1, <1>4 DEF NextPiece

\* What get_answer keeps of the header is one answer's so far.
Header ==
  /\ Alive(sock) /\ ~ receive_mode => Contiguous(recvq) /\ Links(recvq, NextPiece)
  /\ Alive(sock) /\ conns[sock].rd = 0 => recvq = <<>>

\* get_answer passes on the next piece, or what follows the header.
Reads ==
  /\ hp = "idle" /\ UNCHANGED <<sock, STOPPED, FNCACHE, connect_state>>
  /\ Alive(sock) /\ Alive(sock)' /\ connect_state # 0
  /\ conns'[sock].rd = conns[sock].rd + 1 /\ conns'[sock].req = conns[sock].req
Passes ==
  /\ receive_mode' /\ hp' \in {"post", "postFirst"} /\ seg' # <<>> /\ Contiguous(seg')
  /\ Links(seg', NextPiece') /\ writecache(seg') /\ seg' \in Seq(Chunks)

LEMMA AnswerPieces ==
  ASSUME Types, SockHeld, Header, get_answer
  PROVE  \/ UNCHANGED <<sock, conns, receive_mode, seg, hp, cache, recvq, STOPPED, FNCACHE>>
         \/ /\ Reads
            /\ \/ receive_mode /\ Passes /\ UNCHANGED recvq /\ Alike(NextPiece, seg')
               \/ /\ ~ receive_mode /\ UNCHANGED <<seg, hp, cache>>
                  /\ receive_mode' \/ (Contiguous(recvq') /\ Links(recvq', NextPiece'))
               \/ ~ receive_mode /\ Passes
<1>0. /\ hp = "idle" /\ UNCHANGED <<sock, STOPPED, FNCACHE, connect_state>>
      /\ receive_mode \in BOOLEAN
  BY DEF get_answer, Starts, viewVars, Types, InetTypes
<1>1. CASE UNCHANGED <<conns, receive_mode, seg, hp, cache, recvq>>
  BY <1>0, <1>1
<1>2. CASE Alive(sock) /\ conns[sock].rd < conns[sock].sent
  <2> DEFINE c == Chunk(sock)
             q == Append(recvq, c)
             inHeader == ~receive_mode /\ SelectInSeq(q, HeaderEnds) = 0
             body == IF receive_mode THEN <<c>>
                     ELSE IF inHeader THEN <<>> ELSE AfterHeader(q)
  <2>1. /\ conns' = [conns EXCEPT ![sock].rd = @ + 1]
        /\ receive_mode' = ~ inHeader
        /\ recvq' = IF receive_mode THEN recvq ELSE q
        /\ IF body = <<>>
           THEN UNCHANGED <<seg, hp, cache>>
           ELSE /\ seg' = body
                /\ writecache(body)
                /\ hp' = IF receive_mode THEN "post" ELSE "postFirst"
    BY <1>2 DEF get_answer
  <2>2. /\ sock \in Socks /\ conns[sock] \in SoundConns /\ recvq \in Seq(Chunks)
        /\ conns \in [Socks -> SoundConns]
    BY <1>2 DEF Alive, Types, OsTypes, InetTypes
  <2>3. /\ conns[sock].rd \in Nat /\ conns[sock].got > 0
        /\ c \in Chunks /\ c.req = conns[sock].req /\ c.k = conns[sock].rd + 1
    <3>1. /\ conns[sock].rd \in Nat /\ conns[sock].got > 0
          /\ conns[sock].rd + 1 \in Nat \ {0}
          /\ conns[sock].req \in Pages \cup {0}
          /\ conns[sock].rd + 1 \in 1 .. Len(conns[sock].resp)
          /\ conns[sock].resp \in Seq(SegKinds)
      BY <1>2, <2>2 DEF SoundConns, Conns
    <3>2. conns[sock].resp[conns[sock].rd + 1] \in SegKinds
      BY <3>1
    <3> QED  BY <3>1, <3>2 DEF Chunk, Chunks
  <2>4. /\ conns'[sock].rd = conns[sock].rd + 1 /\ conns'[sock].req = conns[sock].req
        /\ conns'[sock].st = conns[sock].st
    <3>1. conns[sock] \in Conns
      BY <2>2 DEF SoundConns
    <3> QED  BY <2>1, <2>2, <3>1 DEF Conns
  <2>5. Alive(sock)'
    BY <1>0, <1>2, <2>4 DEF Alive
  <2>6. connect_state # 0
    BY <1>0, <1>2, <2>2 DEF SockHeld
  <2>7. Reads
    BY <1>0, <1>2, <2>1, <2>3, <2>4, <2>5, <2>6 DEF Reads
  <2>8. /\ NextPiece = <<[req |-> c.req, k |-> c.k]>>
        /\ NextPiece' = <<[req |-> c.req, k |-> c.k + 1]>>
    BY <1>0, <1>2, <2>3, <2>4, <2>5 DEF NextPiece
  <2> HIDE DEF c
  <2>9. /\ <<c>> \in Seq(Chunks) /\ <<c>> # <<>> /\ Contiguous(<<c>>)
        /\ Links(<<c>>, NextPiece') /\ Alike(NextPiece, <<c>>)
    <3>1. <<c>> \in Seq(Chunks) /\ <<c>> # <<>> /\ Len(<<c>>) = 1 /\ <<c>>[1] = c
      BY <2>3
    <3>2. Contiguous(<<c>>)
      BY PiecesJoined
    <3>3. Links(<<c>>, NextPiece') /\ Alike(NextPiece, <<c>>)
      BY <2>8, <3>1 DEF Links, Alike
    <3> QED  BY <3>1, <3>2, <3>3
  <2>10. ~ receive_mode =>
            /\ q \in Seq(Chunks) /\ Contiguous(q) /\ Links(q, NextPiece')
    <3> SUFFICES ASSUME ~ receive_mode
                 PROVE  q \in Seq(Chunks) /\ Contiguous(q) /\ Links(q, NextPiece')
      OBVIOUS
    <3>1. q \in Seq(Chunks) /\ q = recvq \o <<c>>
      BY <2>2, <2>3
    <3>2. Contiguous(recvq) /\ Links(recvq, NextPiece)
      BY <1>2 DEF Header
    <3>3. Links(recvq, <<c>>)
      BY <2>9, <3>2 DEF Links, Alike
    <3> HIDE DEF q
    <3>4. Contiguous(q) /\ q # <<>> /\ q[Len(q)] = <<c>>[Len(<<c>>)]
      BY <2>2, <2>9, <3>1, <3>2, <3>3, PiecesJoined
    <3>5. Links(q, NextPiece')
      BY <2>9, <3>4 DEF Links
    <3> QED  BY <3>1, <3>4, <3>5
  <2> HIDE DEF q
  <2>11. ~ receive_mode /\ ~ inHeader =>
            /\ AfterHeader(q) \in Seq(Chunks) /\ Contiguous(AfterHeader(q))
            /\ Links(AfterHeader(q), NextPiece')
    <3> SUFFICES ASSUME ~ receive_mode, ~ inHeader
                 PROVE  /\ AfterHeader(q) \in Seq(Chunks) /\ Contiguous(AfterHeader(q))
                        /\ Links(AfterHeader(q), NextPiece')
      OBVIOUS
    <3>1. /\ SelectInSeq(q, HeaderEnds) \in 1 .. Len(q) /\ AfterHeader(q) \in Seq(Chunks)
      BY <2>10, HeaderEnd
    <3> DEFINE e == SelectInSeq(q, HeaderEnds)
               m == IF q[e].kind = "hdrBody" THEN e ELSE e + 1
    <3>2. AfterHeader(q) = SubSeq(q, m, Len(q))
      BY DEF AfterHeader
    <3>3. m \in 1 .. Len(q) + 1
      <4>1. Len(q) \in Nat
        BY <2>10
      <4> HIDE DEF e
      <4> QED  BY <3>1, <4>1 DEF e
    <3> HIDE DEF m
    <3> QED  BY <2>10, <3>1, <3>2, <3>3, EndOfPieces
  <2>12. CASE receive_mode
    <3>1. /\ seg' = <<c>> /\ writecache(<<c>>) /\ hp' = "post" /\ UNCHANGED recvq
          /\ receive_mode'
      BY <2>1, <2>9, <2>12
    <3>2. Passes
      BY <2>9, <3>1 DEF Passes
    <3> QED  BY <2>7, <2>9, <2>12, <3>1, <3>2
  <2>13. CASE ~ receive_mode /\ inHeader
    <3>1. UNCHANGED <<seg, hp, cache>> /\ recvq' = q
      BY <2>1, <2>13
    <3>2. Contiguous(recvq') /\ Links(recvq', NextPiece')
      BY <2>10, <2>13, <3>1
    <3> QED  BY <2>7, <2>13, <3>1, <3>2
  <2>14. CASE ~ receive_mode /\ ~ inHeader
    <3>1. receive_mode' /\ body = AfterHeader(q)
      BY <2>1, <2>14
    <3>2. CASE AfterHeader(q) = <<>>
      <4>1. UNCHANGED <<seg, hp, cache>>
        BY <2>1, <3>1, <3>2
      <4> QED  BY <2>7, <2>14, <3>1, <4>1
    <3>3. CASE AfterHeader(q) # <<>>
      <4>1. /\ seg' = AfterHeader(q) /\ writecache(AfterHeader(q)) /\ hp' = "postFirst"
        BY <2>1, <2>14, <3>1, <3>3
      <4>2. Passes
        BY <2>11, <2>14, <3>1, <3>3, <4>1 DEF Passes
      <4> QED  BY <2>7, <2>14, <4>2
    <3> QED  BY <3>2, <3>3
  <2> QED  BY <2>12, <2>13, <2>14
<1> QED  BY <1>1, <1>2 DEF get_answer

-----------------------------------------------------------------------------
\* One request is sent on a connection.
SentOnce ==
  Alive(sock) =>
    /\ Queued("SendPost") => conns[sock].got = 0 /\ sendq = NULL
    /\ sendq # NULL /\ conns[sock].got > 0 => sendq.req = conns[sock].req
\* From PostOnce, or from SendAwaits.
SendLone == Once(helperq, "SendPost") /\ (Queued("SendPost") => connect_state # 1)

LEMMA SentInit == Init => SentOnce
<1> SUFFICES ASSUME Init PROVE SentOnce
  OBVIOUS
<1>1. sock = NoSock
  BY DEF Init
<1> QED  BY <1>1, SocksAssumption DEF SentOnce, Alive, NoSock

LEMMA SentStep ==
  ASSUME Types, ClosesOnce, OneConnecting, SockHeld, Cleaned, SendLone, SentOnce, Next
  PROVE  SentOnce'
<1>1. CASE OpenSocket
  <2>1. hp = "socket" /\ connect_state = 0 /\ ~ Queued("free_socket")
    BY <1>1 DEF OpenSocket, OneConnecting, Connecting, SockHeld
  <2>2. sendq = NULL /\ UNCHANGED sendq
    BY <1>1, <2>1 DEF Cleaned, OpenSocket
  <2>3. sock' \in Socks => conns'[sock'].got = 0
    BY <1>1, OpenedConn, SocksAssumption DEF NoSock
  <2> QED  BY <2>2, <2>3 DEF SentOnce, Alive
<1>2. CASE bsend
  <2>1. UNCHANGED helperq
    BY <1>2 DEF bsend
  <2> QED  BY <1>2, <2>1, SendStep DEF SentOnce, Queued
<1>3. CASE SockKept /\ UNCHANGED sendq /\ KeepsProcs({"SendPost"})
  BY <1>3 DEF SockKept, SentOnce, KeepsProcs, Queued
<1>4. CASE SendPost
  <2>1. UNCHANGED <<sock, conns>> /\ Queued("SendPost") /\ ~ Queued("SendPost")'
    BY <1>4, DequeueStep DEF SendPost, osVars, Queued, SendLone
  <2> QED  BY <2>1 DEF SentOnce, Alive
<1>5. CASE OnConnected
  <2>1. UNCHANGED <<sock, conns, sendq, hp>>
    BY <1>5 DEF OnConnected
  <2>2. CASE connect_state = 1 /\ SUBPROC("SendPost")
    <3>1. ~ Queued("free_socket")
      BY <2>2 DEF SockHeld
    <3>2. sendq = NULL /\ (Alive(sock) => conns[sock].got = 0)
      BY <2>2, <3>1 DEF Cleaned
    <3> QED  BY <2>1, <3>2 DEF SentOnce, Alive
  <2>3. CASE UNCHANGED helperq
    BY <2>1, <2>3 DEF SentOnce, Alive, Queued
  <2> QED  BY <1>5, <2>2, <2>3 DEF OnConnected
<1>6. CASE free_socket \/ StopINETFrees
  <2>1. sock' = NoSock
    BY <1>6 DEF free_socket, StopINETFrees, FreeSocket
  <2> QED  BY <2>1, SocksAssumption DEF SentOnce, Alive, NoSock
<1>7. StartINET \/ StartINETQueues \/ create_connect \/ Connect \/ ConnectReturns \/ ResumeSend
      \/ get_answer \/ PostData \/ end_socket \/ StopINET \/ GotoLink \/ OnDNR \/ OnDataRead
      \/ OnBufferFree \/ OnClosed \/ OnDataArrived \/ OnDataEnd \/ OnGotoUrl \/ OnGuiDestroyed
      \/ resend \/ Leave \/ PressStop \/ Network => UNCHANGED sendq
  BY DEF StartINET, StartINETQueues, create_connect, Connect, ConnectReturns, ResumeSend,
         get_answer, PostData, end_socket, StopINET, GotoLink, OnDNR, OnDataRead, OnBufferFree,
         OnClosed, OnDataArrived, OnDataEnd, OnGotoUrl, OnGuiDestroyed, resend, Leave,
         PressStop, Network, NetConnects, NetBufferFree, ServerAnswers, RemoteCloses,
         LocalCloses, DnsAnswers, inetVars
<1>8. StartINET \/ StartINETQueues \/ create_connect \/ Connect \/ ConnectReturns \/ ResumeSend
      \/ get_answer \/ PostData \/ end_socket \/ StopINET \/ GotoLink \/ OnDNR \/ OnDataRead
      \/ OnBufferFree \/ OnClosed \/ OnDataArrived \/ OnDataEnd \/ OnGotoUrl \/ OnGuiDestroyed
      \/ resend \/ Leave \/ PressStop \/ Network => KeepsProcs({"SendPost"})
  BY ProcsKept
<1> QED  BY <1>1, <1>2, <1>3, <1>4, <1>5, <1>6, <1>7, <1>8, SockStep
         DEF Next, Helper, Mmi, User

-----------------------------------------------------------------------------
\* Before a connection is made, and until its header has been read, nothing has
\* come for the page.
Idle == connect_state = 0 /\ ~ Queued("free_socket")
Early == Alive(sock) /\ (~ receive_mode \/ conns[sock].rd = 0)
Blank == ~ STOPPED => ~ Sent({"DATA_ARRIVED"}) /\ shown[view] = <<>>
Uncached == FNCACHE # NULL => cache[FNCACHE] = <<>>
Untouched == ~ Posting /\ Blank /\ Uncached
Begins == Idle \/ Early => Untouched

LEMMA BeginInit == Init => Header /\ Begins
<1> SUFFICES ASSUME Init PROVE Header /\ Begins
  OBVIOUS
<1>1. /\ sock = NoSock /\ hp = "idle" /\ FNCACHE = NULL /\ mmiq = <<>> /\ view = 1
      /\ \A p \in Pages : shown[p] = <<>>
  BY DEF Init
<1>2. ~ Alive(sock) /\ 1 \in Pages
  BY <1>1, SocksAssumption, PagesAssumption DEF Alive, NoSock, Pages
<1> QED  BY <1>1, <1>2 DEF Header, Begins, Untouched, Posting, Blank, Uncached, Sent, Has

\* A send that makes the connection one for another page is its first.
LEMMA SendNext ==
  ASSUME Types, SentOnce, bsend
  PROVE  /\ UNCHANGED <<sock, recvq, receive_mode>>
         /\ Alive(sock)' => Alive(sock) /\ conns'[sock].rd = conns[sock].rd
         /\ \/ NextPiece' = NextPiece
            \/ NextPiece' = <<>>
            \/ Alive(sock) /\ conns[sock].rd = 0
<1>1. UNCHANGED receive_mode
  BY DEF bsend
<1>2. CASE ~ Alive(sock)'
  BY <1>1, <1>2, SendStep DEF NextPiece
<1>3. CASE Alive(sock)'
  <2>1. /\ Alive(sock) /\ conns'[sock].rd = conns[sock].rd /\ UNCHANGED <<sock, recvq>>
        /\ \/ conns'[sock].req = conns[sock].req
           \/ conns'[sock].req = sendq.req /\ sendq # NULL
    BY <1>3, SendStep
  <2>2. conns[sock] \in SoundConns
    BY <2>1 DEF Alive, Types, OsTypes
  <2>3. conns[sock].rd \in Nat /\ (conns[sock].rd # 0 => conns[sock].got > 0)
    BY <2>2 DEF SoundConns, Conns
  <2>4. conns'[sock].req = conns[sock].req \/ conns[sock].rd = 0
    BY <2>1, <2>3 DEF SentOnce
  <2>5. conns'[sock].req = conns[sock].req => NextPiece' = NextPiece
    BY <1>3, <2>1 DEF NextPiece
  <2> QED  BY <1>1, <2>1, <2>4, <2>5
<1> QED  BY <1>2, <1>3

LEMMA ReceiveKept ==
  ASSUME Types, OneConnecting, SockHeld, Next
  PROVE  \/ get_answer
         \/ create_connect /\ ~ Alive(sock) /\ UNCHANGED <<sock, conns>>
         \/ UNCHANGED receive_mode
<1>1. CASE create_connect
  <2>1. Queued("create_connect") /\ hp = "idle" /\ UNCHANGED <<sock, conns>>
    BY <1>1, DequeueStep DEF create_connect, Queued
  <2>2. connect_state = 0
    BY <2>1 DEF OneConnecting
  <2> QED  BY <1>1, <2>1, <2>2 DEF SockHeld, Alive
<1>2. StartINET \/ StartINETQueues \/ OpenSocket \/ Connect \/ ConnectReturns \/ SendPost
      \/ ResumeSend \/ bsend \/ PostData \/ end_socket \/ free_socket \/ StopINET
      \/ StopINETFrees \/ GotoLink => UNCHANGED receive_mode
  BY DEF StartINET, StartINETQueues, OpenSocket, Connect, ConnectReturns, SendPost, ResumeSend,
         bsend, PostData, end_socket, free_socket, StopINET, StopINETFrees, FreeSocket,
         GotoLink, inetVars
<1>3. Mmi \/ User \/ Network => UNCHANGED receive_mode
  BY DEF Mmi, User, OnDNR, OnConnected, OnDataRead, OnBufferFree, OnClosed, OnDataArrived,
         OnDataEnd, OnGotoUrl, OnGuiDestroyed, resend, Leave, PressStop, Network, NetConnects,
         NetBufferFree, ServerAnswers, RemoteCloses, LocalCloses, DnsAnswers, inetVars
<1> QED  BY <1>1, <1>2, <1>3 DEF Next, Helper

\* A socket that is neither opened nor read.
LEMMA SockRead ==
  ASSUME Types, ClosesOnce, SentOnce, Next, Alive(sock)'
  PROVE  \/ OpenSocket \/ get_answer
         \/ UNCHANGED sock /\ Alive(sock) /\ conns'[sock].rd = conns[sock].rd
<1>1. CASE bsend
  BY <1>1, SendNext
<1>2. CASE SockKept
  <2>1. PICK s \in Socks : s = sock
    BY <1>2 DEF SockKept, Alive
  <2>2. UNCHANGED sock /\ Alive(sock)
    BY <1>2 DEF SockKept
  <2>3. Alive(s)'
    BY <2>1, <2>2 DEF Alive
  <2> QED  BY <2>1, <2>2, <2>3, ReadKept
<1> QED  BY <1>1, <1>2, SockStep

LEMMA HeaderStep ==
  ASSUME Types, ClosesOnce, OneConnecting, SockHeld, Cleaned, SentOnce, Header, Next
  PROVE  Header'
<1>0. \A d : Contiguous(<<>>) /\ Links(<<>>, d) /\ \A a : Links(a, <<>>)
  BY PiecesJoined DEF Links
<1>1. CASE OpenSocket
  <2>1. hp = "socket" /\ connect_state = 0 /\ ~ Queued("free_socket") /\ UNCHANGED recvq
    BY <1>1 DEF OpenSocket, OneConnecting, Connecting, SockHeld
  <2>2. recvq' = <<>>
    BY <2>1 DEF Cleaned
  <2> QED  BY <1>0, <2>2 DEF Header
<1>2. CASE get_answer
  <2>1. CASE UNCHANGED <<sock, conns, receive_mode, recvq>>
    BY <2>1 DEF Header, NextPiece, Alive
  <2>2. CASE Reads /\ (receive_mode' \/ (Contiguous(recvq') /\ Links(recvq', NextPiece')))
    <3>1. conns'[sock'].rd # 0
      <4>1. conns[sock].rd \in Nat
        BY <2>2 DEF Reads, Alive, Types, OsTypes, SoundConns, Conns
      <4> QED  BY <2>2, <4>1 DEF Reads
    <3> QED  BY <2>2, <3>1 DEF Header
  <2> QED  BY <1>2, <2>1, <2>2, AnswerPieces DEF Passes
<1>3. CASE PostData
  <2>1. UNCHANGED <<sock, conns, receive_mode>> /\ recvq' \in {recvq, <<>>}
    BY <1>3 DEF PostData
  <2> QED  BY <1>0, <2>1 DEF Header, NextPiece, Alive
<1>4. CASE ~ OpenSocket /\ ~ get_answer /\ ~ PostData /\ Alive(sock)'
  <2>1. UNCHANGED sock /\ Alive(sock) /\ conns'[sock].rd = conns[sock].rd
    BY <1>4, SockRead
  <2>2. UNCHANGED receive_mode
    BY <1>4, <2>1, ReceiveKept DEF Alive
  <2>3. recvq' \in {recvq, <<>>}
    <3>1. free_socket \/ StopINETFrees => recvq' = <<>>
      BY DEF free_socket, StopINETFrees, FreeSocket
    <3>2. StartINET \/ StartINETQueues \/ create_connect \/ Connect \/ ConnectReturns
          \/ SendPost \/ ResumeSend \/ bsend \/ end_socket \/ StopINET \/ GotoLink
          => UNCHANGED recvq
      BY DEF StartINET, StartINETQueues, create_connect, Connect, ConnectReturns, SendPost,
             ResumeSend, bsend, end_socket, StopINET, GotoLink, inetVars
    <3>3. Mmi \/ User \/ Network => UNCHANGED recvq
      BY DEF Mmi, User, OnDNR, OnConnected, OnDataRead, OnBufferFree, OnClosed, OnDataArrived,
             OnDataEnd, OnGotoUrl, OnGuiDestroyed, resend, Leave, PressStop, Network,
             NetConnects, NetBufferFree, ServerAnswers, RemoteCloses, LocalCloses, DnsAnswers,
             inetVars
    <3> QED  BY <1>4, <3>1, <3>2, <3>3 DEF Next, Helper
  <2>4. \/ NextPiece' = NextPiece
        \/ NextPiece' = <<>>
        \/ conns[sock].rd = 0
    BY <1>4, NextStep, SendNext
  <2> QED  BY <1>0, <2>1, <2>2, <2>3, <2>4 DEF Header
<1>5. CASE ~ Alive(sock)'
  BY <1>5 DEF Header
<1> QED  BY <1>1, <1>2, <1>3, <1>4, <1>5

\* Only a page that is stopped goes back to where nothing has come.
LEMMA EnterStep ==
  ASSUME Types, ClosesOnce, OneConnecting, SockHeld, SentOnce, Header, Next,
         (Idle \/ Early)'
  PROVE  /\ Idle \/ Early \/ free_socket \/ StopINETFrees
         /\ get_answer => ~ Posting'
<1>0. connect_state \in -1 .. 3
  BY DEF Types, InetTypes
<1>1. CASE OpenSocket
  <2>1. /\ hp = "socket" /\ connect_state = 0 /\ ~ Queued("free_socket")
    BY <1>1 DEF OpenSocket, OneConnecting, Connecting, SockHeld
  <2> QED  BY <1>1, <2>1 DEF Idle, get_answer, Starts
<1>2. CASE get_answer
  <2>0. /\ hp = "idle" /\ UNCHANGED connect_state /\ KeepsProcs({"free_socket"})
    BY <1>2, ProcsKept DEF get_answer, Starts
  <2>1. CASE UNCHANGED <<sock, conns, receive_mode, hp>>
    BY <2>0, <2>1 DEF Idle, Early, Posting, Alive, KeepsProcs, Queued
  <2>2. CASE Reads
    <3>1. conns'[sock'].rd # 0 /\ connect_state # 0 /\ Alive(sock)
      <4>1. conns[sock].rd \in Nat
        BY <2>2 DEF Reads, Alive, Types, OsTypes, SoundConns, Conns
      <4> QED  BY <2>2, <4>1 DEF Reads
    <3>2. ~ receive_mode'
      BY <2>0, <3>1 DEF Idle, Early
    <3>3. ~ receive_mode /\ UNCHANGED hp
      BY <1>2, <2>2, <3>1, <3>2, AnswerPieces DEF Passes
    <3> QED  BY <2>0, <3>1, <3>3 DEF Early, Posting
  <2> QED  BY <1>2, <2>1, <2>2, AnswerPieces
<1>3. CASE ~ OpenSocket /\ ~ get_answer /\ Early'
  <2>1. UNCHANGED sock /\ Alive(sock) /\ conns'[sock].rd = conns[sock].rd
    BY <1>3, SockRead DEF Early
  <2>2. UNCHANGED receive_mode
    BY <1>3, <2>1, ReceiveKept DEF Alive
  <2> QED  BY <1>3, <2>1, <2>2 DEF Early
<1>4. CASE ~ get_answer /\ Idle'
  <2>0. connect_state' = 0 /\ ~ Queued("free_socket")'
    BY <1>4 DEF Idle
  <2>1. CASE create_connect
    <3>1. Queued("create_connect") /\ KeepsProcs({"free_socket"})
      BY <2>1, ProcsKept, DequeueStep DEF create_connect, Queued
    <3> QED  BY <1>4, <2>0, <3>1 DEF OneConnecting, Idle, KeepsProcs, Queued
  <2>2. CASE OnClosed
    <3>1. \/ UNCHANGED <<connect_state, helperq>>
          \/ connect_state' = 0 /\ SUBPROC("free_socket")
          \/ connect_state' = -1
      BY <2>2, Zenon DEF OnClosed
    <3>2. SUBPROC("free_socket") => Queued("free_socket")'
      BY SubprocStep DEF Queued, Procs
    <3> QED  BY <1>4, <2>0, <3>1, <3>2 DEF Idle, Queued
  <2>3. OnConnected \/ OnDataRead \/ ConnectReturns => connect_state' \in {connect_state, 1, 2, 3}
    BY DEF OnConnected, OnDataRead, ConnectReturns
  <2>4. StartINET \/ StartINETQueues \/ OpenSocket \/ Connect \/ SendPost \/ ResumeSend \/ bsend
        \/ PostData \/ end_socket \/ StopINET \/ GotoLink => UNCHANGED connect_state
    BY DEF StartINET, StartINETQueues, OpenSocket, Connect, SendPost, ResumeSend, bsend,
           PostData, end_socket, StopINET, GotoLink, inetVars
  <2>5. OnDNR \/ OnBufferFree \/ OnDataArrived \/ OnDataEnd \/ OnGotoUrl \/ OnGuiDestroyed
        \/ resend \/ Leave \/ PressStop \/ Network => UNCHANGED connect_state
    BY DEF OnDNR, OnBufferFree, OnDataArrived, OnDataEnd, OnGotoUrl, OnGuiDestroyed, resend,
           Leave, PressStop, Network, NetConnects, NetBufferFree, ServerAnswers, RemoteCloses,
           LocalCloses, DnsAnswers, inetVars
  <2>6. StartINET \/ StartINETQueues \/ OpenSocket \/ Connect \/ ConnectReturns \/ SendPost
        \/ ResumeSend \/ bsend \/ PostData \/ end_socket \/ StopINET \/ GotoLink \/ OnDNR
        \/ OnConnected \/ OnDataRead \/ OnBufferFree \/ OnDataArrived \/ OnDataEnd \/ OnGotoUrl
        \/ OnGuiDestroyed \/ resend \/ Leave \/ PressStop \/ Network
        => KeepsProcs({"free_socket"})
    BY ProcsKept
  <2>7. CASE connect_state' \in {connect_state, 1, 2, 3} /\ KeepsProcs({"free_socket"})
    BY <1>4, <2>0, <2>7 DEF Idle, KeepsProcs, Queued
  <2> QED  BY <1>4, <2>1, <2>2, <2>3, <2>4, <2>5, <2>6, <2>7 DEF Next, Helper, Mmi, User
<1> QED  BY <1>1, <1>2, <1>3, <1>4

\* HELPER begins to pass data on in get_answer alone.
LEMMA PostingStep ==
  ASSUME Types, Next, Posting'
  PROVE  get_answer \/ (Posting /\ UNCHANGED <<hp, seg>> /\ (Mmi \/ User \/ Network))
<1>1. StartINET \/ StartINETQueues \/ create_connect \/ OpenSocket \/ Connect \/ ConnectReturns
      \/ SendPost \/ ResumeSend \/ bsend \/ PostData \/ end_socket \/ free_socket \/ StopINET
      \/ StopINETFrees \/ GotoLink => hp' \notin {"post", "postFirst"}
  BY DEF StartINET, StartINETQueues, create_connect, OpenSocket, Connect, ConnectReturns,
         SendPost, ResumeSend, bsend, PostData, end_socket, free_socket, StopINET,
         StopINETFrees, GotoLink, WaitDNR, Starts
<1>2. Mmi \/ User \/ Network => UNCHANGED <<hp, seg>>
  BY DEF Mmi, User, OnDNR, OnConnected, OnDataRead, OnBufferFree, OnClosed, OnDataArrived,
         OnDataEnd, OnGotoUrl, OnGuiDestroyed, resend, Leave, PressStop, Network, NetConnects,
         NetBufferFree, ServerAnswers, RemoteCloses, LocalCloses, DnsAnswers, helperVars
<1> QED  BY <1>1, <1>2 DEF Next, Helper, Posting

LEMMA ViewChanges ==
  ASSUME Next
  PROVE  \/ OnGotoUrl
         \/ OnDataArrived /\ UNCHANGED viewVars
         \/ Leave
         \/ UNCHANGED <<shown, view, opened>> /\ (STOPPED' \/ UNCHANGED STOPPED)
<1>1. StartINET \/ free_socket \/ StopINETFrees
      => UNCHANGED <<shown, view, opened>> /\ (STOPPED' \/ UNCHANGED STOPPED)
  BY DEF StartINET, free_socket, StopINETFrees, FreeSocket, pageVars
<1>2. StartINETQueues \/ create_connect \/ OpenSocket \/ Connect \/ ConnectReturns \/ SendPost
      \/ ResumeSend \/ bsend \/ get_answer \/ PostData \/ end_socket \/ StopINET \/ GotoLink
      => UNCHANGED <<shown, view, opened, STOPPED>>
  BY DEF StartINETQueues, create_connect, OpenSocket, Connect, ConnectReturns, SendPost,
         ResumeSend, bsend, get_answer, PostData, end_socket, StopINET, GotoLink, viewVars,
         pageVars
<1>3. OnDNR \/ OnConnected \/ OnDataRead \/ OnBufferFree \/ OnClosed \/ OnDataEnd
      \/ OnGuiDestroyed \/ resend \/ PressStop \/ Network
      => UNCHANGED <<shown, view, opened, STOPPED>>
  BY DEF OnDNR, OnConnected, OnDataRead, OnBufferFree, OnClosed, OnDataEnd, OnGuiDestroyed,
         resend, PressStop, Network, NetConnects, NetBufferFree, ServerAnswers, RemoteCloses,
         LocalCloses, DnsAnswers, viewVars, pageVars
<1>4. OnDataArrived => UNCHANGED viewVars
  BY DEF OnDataArrived
<1> QED  BY <1>1, <1>2, <1>3, <1>4 DEF Next, Helper, Mmi, User

\* A view opens when nothing is left of what came for the one before.
LEMMA OpensBlank ==
  ASSUME Types, OneOpening, ViewHeld, DataFirst, OnGotoUrl
  PROVE  /\ view = 0 /\ view' = opened + 1 /\ opened' = opened + 1 /\ opened + 1 \in Pages
         /\ ~ Has(mmiq', {"DATA_ARRIVED"}) /\ mmiq' \in Seq(Messages) /\ ~ STOPPED'
         /\ UNCHANGED <<shown, cache, FNCACHE, sock, conns, hp, seg>>
<1>1. /\ Handles("GOTO_URL") /\ Consume /\ view' = opened + 1 /\ opened' = opened + 1
      /\ ~ STOPPED' /\ UNCHANGED <<shown, cache, FNCACHE, sock, conns, hp, seg>>
  BY DEF OnGotoUrl, inetVars, pageVars
<1>2. mmiq \in Seq(Messages) /\ mmiq # <<>>
  BY <1>1 DEF Types, OsTypes, Handles
<1>3. Sent({"GOTO_URL"})
  BY <1>1, ConsumeStep DEF Sent
<1>4. view = 0
  BY <1>3 DEF OneOpening, Sent, Has, Opening
<1>5. ~ Has(mmiq, {"DATA_ARRIVED"})
  <2>1. Single(mmiq, Opening) /\ Head(mmiq) = mmiq[1] /\ 1 \in DOMAIN mmiq
    BY <1>2, TakenIndices DEF OneOpening
  <2>2. Head(mmiq).kind = "GOTO_URL"
    BY <1>1 DEF Handles
  <2>3. \A i \in DOMAIN mmiq : mmiq[i].kind # "GUI_DESTROYED"
    BY <2>1, <2>2 DEF Single, Opening
  <2>4. ~ Sent({"GUI_DESTROYED"})
    BY <2>3 DEF Sent, Has
  <2> QED  BY <1>4, <2>4 DEF DataFirst, Sent
<1>6. ~ Has(mmiq', {"DATA_ARRIVED"})
  BY <1>1, <1>5, ConsumeStep
<1>7. mmiq' \in Seq(Messages)
  BY <1>1, <1>2, TakenIndices DEF Consume
<1> QED  BY <1>1, <1>4, <1>6, <1>7 DEF OneOpening

\* What is cached changes in StartINET and get_answer.
LEMMA CacheChanges ==
  ASSUME Types, Next
  PROVE  \/ FNCACHE' = NULL /\ UNCHANGED cache
         \/ UNCHANGED <<FNCACHE, cache>>
         \/ get_answer /\ UNCHANGED FNCACHE
         \/ /\ StartINET /\ ~ InetBusy /\ FNCACHE' = view_url /\ view_url \in Pages
            /\ cache' = [cache EXCEPT ![view_url] = <<>>]
<1>1. StartINET => \/ UNCHANGED <<FNCACHE, cache>>
                   \/ /\ ~ InetBusy /\ FNCACHE' = view_url /\ view_url \in Pages
                      /\ cache' = [cache EXCEPT ![view_url] = <<>>]
  BY DEF StartINET, Types, ViewTypes
<1>2. free_socket \/ StopINETFrees => FNCACHE' = NULL /\ UNCHANGED cache
  BY DEF free_socket, StopINETFrees, FreeSocket, FreeUrl, pageVars
<1>3. StartINETQueues \/ create_connect \/ OpenSocket \/ Connect \/ ConnectReturns \/ SendPost
      \/ ResumeSend \/ bsend \/ PostData \/ end_socket \/ StopINET \/ GotoLink \/ Mmi \/ User
      \/ Network => UNCHANGED <<FNCACHE, cache>>
  BY DEF StartINETQueues, create_connect, OpenSocket, Connect, ConnectReturns, SendPost,
         ResumeSend, bsend, PostData, end_socket, StopINET, GotoLink, Mmi, User, OnDNR,
         OnConnected, OnDataRead, OnBufferFree, OnClosed, OnDataArrived, OnDataEnd, OnGotoUrl,
         OnGuiDestroyed, resend, Leave, PressStop, Network, NetConnects, NetBufferFree,
         ServerAnswers, RemoteCloses, LocalCloses, DnsAnswers, inetVars, pageVars
<1>4. get_answer => UNCHANGED FNCACHE
  BY DEF get_answer
<1> QED  BY <1>1, <1>2, <1>3, <1>4 DEF Next, Helper

\* Data are posted by HELPER alone.
LEMMA NoDataStep ==
  ASSUME Types, Next, ~ PostData, ~ Has(mmiq, {"DATA_ARRIVED"})
  PROVE  ~ Has(mmiq', {"DATA_ARRIVED"})
<1>1. CASE OnDataArrived
  BY <1>1, ConsumeStep DEF OnDataArrived
<1>2. StartINET \/ StartINETQueues \/ create_connect \/ OpenSocket \/ Connect \/ ConnectReturns
      \/ SendPost \/ ResumeSend \/ bsend \/ get_answer \/ end_socket \/ free_socket \/ StopINET
      \/ StopINETFrees \/ GotoLink \/ OnDNR \/ OnConnected \/ OnDataRead \/ OnBufferFree
      \/ OnClosed \/ OnDataEnd \/ OnGotoUrl \/ OnGuiDestroyed \/ resend \/ Leave \/ PressStop
      \/ Network => KeepsMsgs({"DATA_ARRIVED"})
  BY MsgsKept DEF Ends, SocketEvents
<1> QED  BY <1>1, <1>2 DEF Next, Helper, Mmi, User, KeepsMsgs

\* Pages to come have shown nothing.
Ahead == view <= opened /\ \A p \in Pages : p > opened => shown[p] = <<>>

LEMMA BeginStep ==
  ASSUME Types, OneOpening, ClosesOnce, OneConnecting, SockHeld, ViewHeld, DataFirst, SentOnce,
         Header, Ahead, Begins, Next
  PROVE  Begins'
<1> SUFFICES ASSUME (Idle \/ Early)' PROVE Untouched'
  BY DEF Begins
<1>0. /\ cache \in [Pages -> Seq(Chunks)] /\ opened \in Pages /\ STOPPED \in BOOLEAN
      /\ Pages \subseteq Nat
  BY DEF Types, PageTypes, ViewTypes, Pages
<1>1. Untouched \/ free_socket \/ StopINETFrees
  BY EnterStep DEF Begins
<1>2. CASE free_socket \/ StopINETFrees
  <2>1. STOPPED' /\ FNCACHE' = NULL /\ hp' = "idle"
    BY <1>2 DEF free_socket, StopINETFrees, FreeSocket, FreeUrl, Starts
  <2> QED  BY <2>1 DEF Untouched, Posting, Blank, Uncached
<1>3. CASE Untouched
  <2>1. ~ Posting'
    BY <1>3, EnterStep, PostingStep DEF Untouched
  <2>2. Uncached'
    <3>1. CASE get_answer
      <4>1. UNCHANGED <<FNCACHE, cache>>
        BY <2>1, <3>1, AnswerPieces DEF Reads, Passes, Posting
      <4> QED  BY <1>3, <4>1 DEF Untouched, Uncached
    <3>2. CASE FNCACHE' = view_url /\ view_url \in Pages
               /\ cache' = [cache EXCEPT ![view_url] = <<>>]
      BY <1>0, <3>2 DEF Uncached
    <3> QED  BY <1>3, <3>1, <3>2, CacheChanges DEF Untouched, Uncached
  <2>3. Blank'
    <3>1. CASE OnGotoUrl
      <4>1. opened + 1 > opened
        BY <1>0
      <4>2. shown'[view'] = <<>> /\ ~ Has(mmiq', {"DATA_ARRIVED"})
        BY <3>1, <4>1, OpensBlank DEF Ahead
      <4> QED  BY <4>2 DEF Blank, Sent
    <3>2. CASE Leave
      BY <3>2 DEF Leave, Blank
    <3>3. CASE OnDataArrived
      <4>1. Sent({"DATA_ARRIVED"}) /\ UNCHANGED viewVars
        BY <3>3, ConsumeStep DEF OnDataArrived, Sent
      <4> QED  BY <1>3, <3>3, <4>1 DEF Untouched, Blank, viewVars
    <3>4. CASE UNCHANGED <<shown, view, opened>> /\ (STOPPED' \/ UNCHANGED STOPPED)
               /\ ~ OnDataArrived
      <4>1. PostData => FALSE
        BY <1>3 DEF PostData, Untouched, Posting
      <4>2. Sent({"DATA_ARRIVED"})' => Sent({"DATA_ARRIVED"})
        BY <4>1, NoDataStep DEF Sent
      <4> QED  BY <1>3, <3>4, <4>2 DEF Untouched, Blank
    <3> QED  BY <3>1, <3>2, <3>3, <3>4, ViewChanges
  <2> QED  BY <2>1, <2>2, <2>3 DEF Untouched
<1> QED  BY <1>1, <1>2, <1>3

-----------------------------------------------------------------------------
\* From what the view shows by the messages and HELPER to the socket: one answer.
Passing ==
  /\ Posting => seg # <<>> /\ Contiguous(seg) /\ Links(seg, NextPiece)
  /\ view # 0 => Joined(mmiq, shown[view], Coming)
  /\ \A p \in Pages : Contiguous(shown[p])
  /\ Ahead

LEMMA PassingInit == Init => Passing
<1> SUFFICES ASSUME Init PROVE Passing
  OBVIOUS
<1>1. /\ hp = "idle" /\ mmiq = <<>> /\ view = 1 /\ opened = 1
      /\ \A p \in Pages : shown[p] = <<>>
  BY DEF Init
<1>2. 1 \in Pages /\ <<>> \in Seq(Messages) /\ ~ Has(<<>>, {"DATA_ARRIVED"})
  BY PagesAssumption DEF Pages, Has
<1>3. Joined(mmiq, shown[view], Coming)
  BY <1>1, <1>2, JoinedBlank
<1> QED  BY <1>1, <1>3, PiecesJoined DEF Passing, Ahead, Posting

\* The step takes no data from the messages and adds none.
LEMMA JoinedStep ==
  ASSUME Types, Next, ~ PostData, ~ OnDataArrived, NEW a \in Seq(Chunks), NEW c,
         Joined(mmiq, a, c)
  PROVE  Joined(mmiq', a, c)
<1>0. mmiq \in Seq(Messages)
  BY DEF Types, OsTypes
<1>1. ASSUME mmiq # <<>>, Head(mmiq).kind # "DATA_ARRIVED",
             mmiq' = Tail(mmiq) \/ mmiq' = Append(Tail(mmiq), Msg("DATA_END", NULL))
      PROVE  Joined(mmiq', a, c)
  <2>1. Joined(Tail(mmiq), a, c) /\ Tail(mmiq) \in Seq(Messages)
    BY <1>0, <1>1, JoinedTaken, TakenIndices
  <2>2. Msg("DATA_END", NULL) \in Messages /\ Msg("DATA_END", NULL).kind # "DATA_ARRIVED"
    BY QueueTypes DEF Msg
  <2> QED  BY <1>1, <2>1, <2>2, JoinedAdded
<1>2. ASSUME NEW m \in Messages, m.kind # "DATA_ARRIVED", mmiq' = Append(mmiq, m)
      PROVE  Joined(mmiq', a, c)
  BY <1>0, <1>2, JoinedAdded
<1>3. OnDNR \/ OnConnected \/ OnDataRead \/ OnBufferFree \/ OnDataEnd \/ OnGotoUrl
      \/ OnGuiDestroyed => mmiq # <<>> /\ Head(mmiq).kind # "DATA_ARRIVED" /\ mmiq' = Tail(mmiq)
  BY DEF OnDNR, OnConnected, OnDataRead, OnBufferFree, OnDataEnd, OnGotoUrl, OnGuiDestroyed,
         Handles, Consume
<1>4. OnClosed => /\ mmiq # <<>> /\ Head(mmiq).kind # "DATA_ARRIVED"
                  /\ mmiq' = Tail(mmiq) \/ mmiq' = Append(Tail(mmiq), Msg("DATA_END", NULL))
  BY DEF OnClosed, Handles, Consume
<1>5. StartINET \/ StartINETQueues \/ create_connect \/ OpenSocket \/ Connect
      \/ ConnectReturns \/ SendPost \/ ResumeSend \/ bsend \/ get_answer \/ end_socket
      \/ free_socket \/ StopINET \/ StopINETFrees \/ resend \/ PressStop => UNCHANGED mmiq
  BY DEF StartINET, StartINETQueues, create_connect, OpenSocket, Connect, ConnectReturns,
         SendPost, ResumeSend, bsend, get_answer, end_socket, free_socket, StopINET,
         StopINETFrees, FreeSocket, resend, PressStop, osVars
<1>6. Network \/ Leave \/ GotoLink
        => \E m \in Messages : m.kind # "DATA_ARRIVED" /\ mmiq' = Append(mmiq, m)
  <2>1. Network => \/ \E s \in Socks, k \in SocketEvents : Post(Msg(k, s))
                   \/ \E q \in dnr.open : Post(Msg("DNR", q))
    BY DEF Network, NetConnects, NetBufferFree, ServerAnswers, RemoteCloses, LocalCloses,
           DnsAnswers, SocketEvents
  <2>2. Leave => Post(Msg("GUI_DESTROYED", NULL))
    BY DEF Leave
  <2>3. GotoLink => Post(Msg("GOTO_URL", NULL))
    BY DEF GotoLink
  <2>4. \A q \in dnr.open : q \in Nat
    BY DEF Types, OsTypes
  <2>5. ASSUME NEW k, NEW x, Msg(k, x) \in Messages, k # "DATA_ARRIVED", Post(Msg(k, x))
        PROVE  \E m \in Messages : m.kind # "DATA_ARRIVED" /\ mmiq' = Append(mmiq, m)
    BY <2>5 DEF Msg, Post
  <2>6. \A k \in SocketEvents, s \in Socks : Msg(k, s) \in Messages /\ k # "DATA_ARRIVED"
    BY QueueTypes DEF SocketEvents
  <2>7. /\ \A q \in Nat : Msg("DNR", q) \in Messages
        /\ Msg("GUI_DESTROYED", NULL) \in Messages /\ Msg("GOTO_URL", NULL) \in Messages
    BY QueueTypes DEF Opening
  <2> QED  BY <2>1, <2>2, <2>3, <2>4, <2>5, <2>6, <2>7
<1>7. UNCHANGED mmiq => Joined(mmiq', a, c)
  OBVIOUS
<1> QED  BY <1>1, <1>2, <1>3, <1>4, <1>5, <1>6, <1>7 DEF Next, Helper, Mmi, User

\* What comes next goes on where it did, or nothing has come yet.
LEMMA ComingStep ==
  ASSUME Types, ClosesOnce, OneConnecting, SockHeld, SentOnce, Header, Begins, Next,
         ~ PostData, ~ OnGotoUrl
  PROVE  Alike(Coming, Coming') \/ (~ STOPPED /\ Blank)
<1>0. \A c : Alike(c, c) /\ Alike(c, <<>>)
  BY DEF Alike
<1> SUFFICES ASSUME ~ STOPPED', ~ STOPPED PROVE Alike(Coming, Coming') \/ Blank
  <2>1. STOPPED => STOPPED'
    BY ViewChanges DEF Leave, viewVars
  <2> QED  BY <1>0, <2>1 DEF Coming
<1>1. CASE OpenSocket
  <2>1. hp = "socket" /\ connect_state = 0 /\ ~ Queued("free_socket")
    BY <1>1 DEF OpenSocket, OneConnecting, Connecting, SockHeld
  <2> QED  BY <2>1 DEF Idle, Begins, Untouched
<1>2. CASE bsend
  <2>1. Coming = NextPiece /\ Coming' = NextPiece'
    BY <1>2 DEF bsend, Coming, Posting
  <2>2. Alive(sock) /\ conns[sock].rd = 0 => Blank
    BY DEF Early, Begins, Untouched
  <2> QED  BY <1>0, <1>2, <2>1, <2>2, SendNext
<1>3. CASE get_answer
  <2>1. CASE UNCHANGED <<sock, conns, seg, hp, STOPPED>>
    BY <1>0, <2>1 DEF Coming, Posting, NextPiece, Alive
  <2>2. CASE Reads /\ ~ receive_mode
    BY <2>2 DEF Reads, Early, Begins, Untouched
  <2>3. CASE Reads /\ receive_mode /\ Passes /\ Alike(NextPiece, seg')
    <3>1. Coming = NextPiece /\ Coming' = seg'
      BY <2>3 DEF Coming, Posting, Reads, Passes
    <3> QED  BY <2>3, <3>1
  <2> QED  BY <1>3, <2>1, <2>2, <2>3, AnswerPieces
<1>4. CASE ~ OpenSocket /\ ~ bsend /\ ~ get_answer
  <2>1. NextPiece' = NextPiece \/ NextPiece' = <<>>
    BY <1>4, NextStep
  <2>2. Posting' => Posting /\ UNCHANGED seg
    BY <1>4, PostingStep
  <2>3. Posting => Posting'
    <3>1. Helper => PostData \/ ~ Posting
      BY DEF Helper, StartINET, StartINETQueues, create_connect, OpenSocket, Connect,
             ConnectReturns, SendPost, ResumeSend, bsend, get_answer, end_socket, free_socket,
             StopINET, StopINETFrees, GotoLink, Starts, Posting
    <3>2. Mmi \/ User \/ Network => UNCHANGED hp
      BY DEF Mmi, User, OnDNR, OnConnected, OnDataRead, OnBufferFree, OnClosed, OnDataArrived,
             OnDataEnd, OnGotoUrl, OnGuiDestroyed, resend, Leave, PressStop, Network,
             NetConnects, NetBufferFree, ServerAnswers, RemoteCloses, LocalCloses, DnsAnswers,
             helperVars
    <3> QED  BY <3>1, <3>2 DEF Next, Posting
  <2> QED  BY <1>0, <2>1, <2>2, <2>3 DEF Coming
<1> QED  BY <1>1, <1>2, <1>3, <1>4

LEMMA PassingStep ==
  ASSUME Types, OneOpening, ClosesOnce, OneConnecting, SockHeld, ViewHeld, DataFirst, SentOnce,
         Header, Begins, Passing, Next
  PROVE  Passing'
<1>0. /\ mmiq \in Seq(Messages) /\ shown \in [Pages -> Seq(Chunks)] /\ seg \in Seq(Chunks)
      /\ opened \in Pages /\ view \in Pages \cup {0} /\ Pages \subseteq Nat /\ 0 \notin Pages
      /\ Ahead
  BY DEF Types, PageTypes, ViewTypes, HelperTypes, OsTypes, Pages, Passing
<1>a. (Posting => seg # <<>> /\ Contiguous(seg) /\ Links(seg, NextPiece))'
  <2>1. CASE get_answer
    <3>1. CASE UNCHANGED <<sock, conns, seg, hp>>
      BY <3>1 DEF Passing, Posting, NextPiece, Alive
    <3>2. CASE Reads /\ UNCHANGED <<seg, hp>>
      BY <3>2 DEF Reads, Posting
    <3> QED  BY <2>1, <3>1, <3>2, AnswerPieces DEF Passes
  <2>2. CASE Posting /\ UNCHANGED <<hp, seg>> /\ (Mmi \/ User \/ Network)
    <3>1. hp \notin {"socket", "bsend", "idle"}
      BY <2>2 DEF Posting
    <3>2. ~ OpenSocket /\ ~ bsend /\ ~ get_answer
      BY <3>1 DEF OpenSocket, bsend, get_answer, Starts
    <3>3. NextPiece' = NextPiece \/ NextPiece' = <<>>
      BY <3>2, NextStep
    <3> QED  BY <2>2, <3>3 DEF Passing, Links
  <2> QED  BY <2>1, <2>2, PostingStep
\* A page that shows nothing new.
<1>b. ASSUME UNCHANGED <<shown, view>>, view # 0, ~ PostData, ~ OnGotoUrl, ~ OnDataArrived
      PROVE  Joined(mmiq', shown'[view'], Coming')
  <2>1. PICK a \in Seq(Chunks) : a = shown[view]
    BY <1>0, <1>b
  <2>2. PICK c : c = Coming
    OBVIOUS
  <2>3. Joined(mmiq', a, c)
    BY <1>b, <2>1, <2>2, JoinedStep DEF Passing
  <2>4. mmiq' \in Seq(Messages)
    BY TypesStep DEF Types, OsTypes
  <2>5. CASE Alike(Coming, Coming')
    BY <1>b, <2>1, <2>2, <2>3, <2>4, <2>5, JoinedAlike
  <2>6. CASE ~ STOPPED /\ Blank
    <3>1. a = <<>> /\ ~ Has(mmiq, {"DATA_ARRIVED"})
      BY <2>1, <2>6 DEF Blank, Sent
    <3>2. ~ Has(mmiq', {"DATA_ARRIVED"})
      BY <1>b, <3>1, NoDataStep
    <3> QED  BY <1>b, <2>1, <2>4, <3>1, <3>2, JoinedBlank
  <2> QED  BY <1>b, <2>5, <2>6, ComingStep
<1>1. CASE OnGotoUrl
  <2>1. /\ view' = opened + 1 /\ opened' = opened + 1 /\ opened + 1 \in Pages
        /\ ~ Has(mmiq', {"DATA_ARRIVED"}) /\ mmiq' \in Seq(Messages) /\ UNCHANGED shown
    BY <1>1, OpensBlank
  <2>2. shown'[view'] = <<>>
    BY <1>0, <2>1 DEF Ahead
  <2>3. Joined(mmiq', shown'[view'], Coming')
    BY <2>1, <2>2, JoinedBlank
  <2>4. Ahead'
    BY <1>0, <2>1 DEF Ahead
  <2> QED  BY <1>a, <2>1, <2>3, <2>4 DEF Passing
<1>2. CASE Leave
  <2>1. view' = 0 /\ UNCHANGED <<shown, opened>>
    BY <1>2 DEF Leave, pageVars
  <2>2. Ahead'
    BY <1>0, <2>1 DEF Ahead
  <2> QED  BY <1>a, <2>1, <2>2 DEF Passing
<1>3. CASE OnDataArrived
  <2>1. UNCHANGED <<view, opened, STOPPED, hp, seg, sock, conns>> /\ mmiq # <<>>
        /\ mmiq' = Tail(mmiq) /\ Head(mmiq).kind = "DATA_ARRIVED"
    BY <1>3 DEF OnDataArrived, Handles, Consume, viewVars, helperVars, inetVars
  <2>2. CASE view = 0
    <3>1. UNCHANGED shown
      BY <1>3, <2>2 DEF OnDataArrived
    <3> QED  BY <1>a, <2>1, <2>2, <3>1 DEF Passing, Ahead
  <2>3. CASE view # 0
    <3>1. PICK a \in Seq(Chunks) : a = shown[view]
      BY <1>0, <2>3
    <3>2. PICK c : c = Coming
      OBVIOUS
    <3>3. Coming' = c
      BY <2>1, <3>2 DEF Coming, Posting, NextPiece, Alive
    <3> DEFINE d == Head(mmiq).arg
    <3>4. Joined(mmiq, a, c)
      BY <2>3, <3>1, <3>2 DEF Passing
    <3>5. /\ d \in Seq(Chunks) /\ Contiguous(d) /\ Links(a, d) /\ Joined(Tail(mmiq), a \o d, c)
      BY <1>0, <2>1, <3>4, JoinedTaken
    <3>6. shown' = [shown EXCEPT ![view] = a \o d]
      BY <1>3, <2>3, <3>1 DEF OnDataArrived
    <3>7. Contiguous(a \o d)
      BY <2>3, <3>1, <3>5, <1>0, PiecesJoined DEF Passing
    <3> HIDE DEF d
    <3>8. \A p \in Pages : shown'[p] = IF p = view THEN a \o d ELSE shown[p]
      BY <1>0, <3>6
    <3>9. view \in Pages
      BY <1>0, <2>3
    <3>10. Joined(mmiq', shown'[view'], Coming')
      BY <2>1, <3>3, <3>5, <3>8, <3>9
    <3>11. (\A p \in Pages : Contiguous(shown[p]))'
      BY <3>7, <3>8 DEF Passing, Pages
    <3>12. Ahead'
      BY <1>0, <2>1, <3>8, <3>9 DEF Ahead, Pages
    <3> QED  BY <1>a, <3>10, <3>11, <3>12 DEF Passing
  <2> QED  BY <2>2, <2>3
<1>4. CASE PostData
  <2>1. /\ UNCHANGED <<view, opened, STOPPED, shown, sock, conns>> /\ Posting /\ hp' = "idle"
        /\ mmiq' = IF STOPPED THEN mmiq ELSE Append(mmiq, Msg("DATA_ARRIVED", seg))
    BY <1>4 DEF PostData, viewVars, pageVars, Posting, Post
  <2>2. view # 0 => Joined(mmiq', shown'[view'], Coming')
    <3> SUFFICES ASSUME view # 0 PROVE Joined(mmiq', shown'[view'], Coming')
      OBVIOUS
    <3>1. CASE STOPPED
      BY <2>1, <3>1 DEF Passing, Coming
    <3>2. CASE ~ STOPPED
      <4>1. PICK c : c = NextPiece
        OBVIOUS
      <4>2. Coming = seg /\ Coming' = c
        BY <2>1, <3>2, <4>1 DEF Coming, Posting, NextPiece, Alive
      <4>3. seg # <<>> /\ Contiguous(seg) /\ Links(seg, c)
        BY <2>1, <4>1 DEF Passing
      <4> DEFINE m == Msg("DATA_ARRIVED", seg)
      <4>4. m \in Messages /\ m.kind = "DATA_ARRIVED" /\ m.arg = seg
        BY <1>0, QueueTypes DEF Msg
      <4> HIDE DEF m
      <4>5. Joined(mmiq, shown[view], seg)
        BY <4>2 DEF Passing
      <4>6. Joined(Append(mmiq, m), shown[view], c)
        BY <1>0, <4>3, <4>4, <4>5, JoinedAdded
      <4> QED  BY <2>1, <3>2, <4>2, <4>6 DEF m
    <3> QED  BY <3>1, <3>2
  <2> QED  BY <1>a, <2>1, <2>2 DEF Passing, Ahead
<1>5. CASE UNCHANGED <<shown, view, opened>> /\ ~ PostData /\ ~ OnGotoUrl /\ ~ OnDataArrived
  BY <1>a, <1>b, <1>5 DEF Passing, Ahead
<1> QED  BY <1>1, <1>2, <1>3, <1>4, <1>5, ViewChanges

-----------------------------------------------------------------------------
\* From the cache file to the socket: one answer.
Caching ==
  /\ FNCACHE # NULL => Links(cache[FNCACHE], NextPiece)
  /\ \A p \in Pages : Contiguous(cache[p])

LEMMA CachingInit == Init => Caching
<1> SUFFICES ASSUME Init PROVE Caching
  OBVIOUS
<1>1. FNCACHE = NULL /\ \A p \in Pages : cache[p] = <<>>
  BY DEF Init
<1> QED  BY <1>1, PiecesJoined DEF Caching

LEMMA CachingStep ==
  ASSUME Types, ClosesOnce, OneConnecting, SockHeld, SentOnce, Header, Begins, Caching, Next
  PROVE  Caching'
<1>0. /\ cache \in [Pages -> Seq(Chunks)] /\ FNCACHE \in Pages \cup {NULL}
      /\ \A d : Links(<<>>, d) /\ \A a : Links(a, <<>>)
  BY DEF Types, PageTypes, InetTypes, Links
\* The file stays.
<1>a. ASSUME UNCHANGED <<FNCACHE, cache>>,
             \/ Uncached
             \/ NextPiece' = NextPiece
             \/ NextPiece' = <<>>
      PROVE  Caching'
  BY <1>0, <1>a DEF Caching, Uncached, Pages
<1>b. UNCHANGED cache => (\A p \in Pages : Contiguous(cache[p]))'
  BY DEF Caching, Pages
<1>1. CASE get_answer
  <2>1. CASE UNCHANGED <<sock, conns, cache, FNCACHE>>
    BY <1>a, <2>1 DEF NextPiece, Alive
  <2>2. CASE Reads /\ ~ receive_mode /\ UNCHANGED cache
    <3>1. Uncached
      BY <2>2 DEF Reads, Early, Begins, Untouched
    <3> QED  BY <1>a, <2>2, <3>1 DEF Reads
  <2>3. CASE Reads /\ Passes /\ (~ receive_mode \/ Alike(NextPiece, seg'))
    <3>1. CASE FNCACHE = NULL
      BY <1>b, <2>3, <3>1 DEF Reads, Passes, writecache, Caching
    <3>2. CASE FNCACHE # NULL
      <4>1. PICK f \in Pages : f = FNCACHE
        BY <1>0, <3>2
      <4>2. Links(cache[f], seg')
        <5>1. CASE ~ receive_mode
          <6>1. cache[f] = <<>>
            BY <2>3, <3>2, <4>1, <5>1 DEF Reads, Early, Begins, Untouched, Uncached
          <6> QED  BY <1>0, <6>1
        <5>2. CASE Alike(NextPiece, seg')
          <6>1. Links(cache[f], NextPiece)
            BY <3>2, <4>1 DEF Caching
          <6> QED  BY <5>2, <6>1 DEF Links, Alike
        <5> QED  BY <2>3, <5>1, <5>2
      <4>3. /\ seg' \in Seq(Chunks) /\ seg' # <<>> /\ Contiguous(seg') /\ Links(seg', NextPiece')
            /\ FNCACHE' = f /\ cache' = [cache EXCEPT ![f] = cache[f] \o seg']
        BY <2>3, <3>2, <4>1 DEF Reads, Passes, writecache
      <4>4. cache[f] \in Seq(Chunks) /\ Contiguous(cache[f])
        BY <1>0 DEF Caching
      <4> DEFINE t == cache[f] \o seg'
      <4>5. /\ Contiguous(t) /\ t # <<>> /\ t[Len(t)] = seg'[Len(seg')]
        BY <4>2, <4>3, <4>4, PiecesJoined
      <4>6. cache' = [cache EXCEPT ![f] = t]
        BY <4>3
      <4> HIDE DEF t
      <4>7. Links(t, NextPiece')
        BY <4>3, <4>5 DEF Links
      <4>8. \A p \in Pages : cache'[p] = IF p = f THEN t ELSE cache[p]
        BY <1>0, <4>6
      <4> QED  BY <4>3, <4>5, <4>7, <4>8 DEF Caching, Pages
    <3> QED  BY <3>1, <3>2
  <2> QED  BY <1>1, <2>1, <2>2, <2>3, AnswerPieces
<1>2. CASE OpenSocket
  <2>1. hp = "socket" /\ connect_state = 0 /\ ~ Queued("free_socket")
    BY <1>2 DEF OpenSocket, OneConnecting, Connecting, SockHeld
  <2>2. Uncached
    BY <2>1 DEF Idle, Begins, Untouched
  <2>3. UNCHANGED <<FNCACHE, cache>>
    BY <1>2 DEF OpenSocket, pageVars
  <2> QED  BY <1>a, <2>2, <2>3
<1>3. CASE bsend
  <2>1. Alive(sock) /\ conns[sock].rd = 0 => Uncached
    BY DEF Early, Begins, Untouched
  <2>2. UNCHANGED <<FNCACHE, cache>>
    BY <1>3 DEF bsend, pageVars
  <2> QED  BY <1>3, <1>a, <2>1, <2>2, SendNext
<1>4. CASE ~ OpenSocket /\ ~ bsend /\ ~ get_answer
  <2>1. NextPiece' = NextPiece \/ NextPiece' = <<>>
    BY <1>4, NextStep
  <2>2. CASE FNCACHE' = NULL /\ UNCHANGED cache
    BY <1>b, <2>2 DEF Caching
  <2>3. CASE /\ FNCACHE' = view_url /\ view_url \in Pages
             /\ cache' = [cache EXCEPT ![view_url] = <<>>]
    <3>1. \A p \in Pages : cache'[p] = IF p = view_url THEN <<>> ELSE cache[p]
      BY <1>0, <2>3
    <3>2. (\A p \in Pages : Contiguous(cache[p]))'
      BY <3>1, PiecesJoined DEF Caching, Pages
    <3>3. cache'[FNCACHE'] = <<>>
      BY <2>3, <3>1
    <3> QED  BY <1>0, <3>2, <3>3 DEF Caching
  <2> QED  BY <1>4, <1>a, <2>1, <2>2, <2>3, CacheChanges
<1> QED  BY <1>1, <1>2, <1>3, <1>4

-----------------------------------------------------------------------------
\* The invariant for the order of what the pages show and cache.
OrderInv == PageInv /\ (Calm => SentOnce /\ Header /\ Begins /\ Passing /\ Caching)

LEMMA OrderInit == Init => OrderInv
BY PageInvInit, SentInit, BeginInit, PassingInit, CachingInit DEF OrderInv

LEMMA OrderStep == OrderInv /\ [Next]_<<vars, world>> => OrderInv'
<1>a. SUFFICES ASSUME OrderInv, [Next]_<<vars, world>> PROVE OrderInv'
  OBVIOUS
<1>0. PageInv'
  BY <1>a, PageInvStep DEF OrderInv
<1>1. CASE Next
  <2>1. Types /\ OneOpening /\ ClosesOnce /\ ViewHeld /\ DataFirst
    BY <1>a DEF OrderInv, PageInv, IInv, ViewInv
  <2>2. Calm' <=> Calm
    BY <1>1 DEF Next, Calm, HostIsNumeric, HurriedUser
  <2>3. Calm => OneConnecting /\ SockHeld /\ Cleaned
    BY <1>a DEF OrderInv, PageInv, IInv
  <2>4. Calm => SentOnce /\ Header /\ Begins /\ Passing /\ Caching
    BY <1>a DEF OrderInv
  <2>5. Calm => SendLone
    <3>1. HostIsNumeric => PostOnce
      BY <1>a DEF OrderInv, PageInv, PostInv
    <3>2. ~ HurriedUser => SendAwaits
      BY <1>a DEF OrderInv, PageInv, IInv, UrlKept
    <3> QED  BY <3>1, <3>2 DEF Calm, PostOnce, SendAwaits, SendLone
  <2>6. Calm => SentOnce'
    BY <1>1, <2>1, <2>3, <2>4, <2>5, SentStep
  <2>7. Calm => Header'
    BY <1>1, <2>1, <2>3, <2>4, HeaderStep
  <2>8. Calm => Begins'
    BY <1>1, <2>1, <2>3, <2>4, BeginStep DEF Passing
  <2>9. Calm => Passing'
    BY <1>1, <2>1, <2>3, <2>4, PassingStep
  <2>10. Calm => Caching'
    BY <1>1, <2>1, <2>3, <2>4, CachingStep
  <2> QED  BY <1>0, <2>2, <2>6, <2>7, <2>8, <2>9, <2>10 DEF OrderInv
<1>2. CASE UNCHANGED <<vars, world>>
  <2>1. UNCHANGED <<connect_state, sock, receive_mode, FNCACHE, recvq, sendq, STOPPED, view,
                    opened, helperq, hp, seg, mmiq, conns, cache, shown, world>>
    BY <1>2 DEF vars, inetVars, viewVars, helperVars, osVars, pageVars
  <2>2. UNCHANGED <<NextPiece, Coming>> /\ (Posting' <=> Posting) /\ (Alive(sock)' <=> Alive(sock))
    BY <2>1 DEF NextPiece, Coming, Posting, Alive
  <2>3. SentOnce => SentOnce'
    BY <2>1, <2>2 DEF SentOnce, Queued
  <2>4. Header => Header'
    BY <2>1, <2>2 DEF Header
  <2>5. Begins => Begins'
    BY <2>1, <2>2 DEF Begins, Idle, Early, Untouched, Blank, Uncached, Queued, Sent
  <2>6. Passing => Passing'
    BY <2>1, <2>2 DEF Passing, Ahead, Pages
  <2>7. Caching => Caching'
    BY <2>1, <2>2 DEF Caching, Pages
  <2>8. Calm' <=> Calm
    BY <2>1 DEF Calm, HostIsNumeric, HurriedUser
  <2> QED  BY <1>a, <1>0, <2>3, <2>4, <2>5, <2>6, <2>7, <2>8 DEF OrderInv
<1> QED  BY <1>a, <1>1, <1>2

\* Whatever is stopped, lost or interleaved, what a page shows and what its cache
\* file holds are consecutive pieces of one answer: get_answer and the queues never
\* tear one.  As for SocketIsOne, when no lookup can be overtaken.
THEOREM AnswersInOrder ==
  (\A w \in Worlds : w.numeric \/ ~ w.hurried) => (Spec => []InOrder)
<1> SUFFICES ASSUME \A w \in Worlds : w.numeric \/ ~ w.hurried
             PROVE  Spec => []InOrder
  OBVIOUS
<1>1. OrderInv => InOrder
  <2> SUFFICES ASSUME OrderInv PROVE InOrder
    OBVIOUS
  <2>1. Calm
    BY DEF OrderInv, PageInv, IInv, Types, Calm, HostIsNumeric, HurriedUser
  <2> QED  BY <2>1 DEF OrderInv, Passing, Caching, InOrder
<1> QED  BY <1>1, OrderInit, OrderStep, PTL DEF Spec

-----------------------------------------------------------------------------
(***************************************************************************)
(* DATA_END is the last thing a page hears.                                *)
(***************************************************************************)

\* In the queue of messages q the ends E of the socket s come after every k.
EndsAfter(q, k, E, s) ==
  \A i, j \in DOMAIN q : q[i].kind = k /\ q[j].kind \in E /\ q[j].arg = s => i < j

LEMMA EndsAfterTaken ==
  ASSUME NEW S, NEW q \in Seq(S), q # <<>>, NEW k, NEW E, NEW s, EndsAfter(q, k, E, s)
  PROVE  /\ EndsAfter(Tail(q), k, E, s)
         /\ Head(q).kind \in E /\ Head(q).arg = s => ~ Has(q, {k})
<1> DEFINE t == Tail(q)  n == Len(q)
<1>1. /\ t \in Seq(S) /\ n \in Nat \ {0} /\ DOMAIN q = 1 .. n /\ DOMAIN t = 1 .. n - 1
      /\ Head(q) = q[1] /\ \A i \in 1 .. n - 1 : t[i] = q[i + 1]
  BY TakenIndices
<1> HIDE DEF t, n
<1>2. EndsAfter(t, k, E, s)
  <2> SUFFICES ASSUME NEW i \in 1 .. n - 1, NEW j \in 1 .. n - 1,
                      t[i].kind = k, t[j].kind \in E, t[j].arg = s
               PROVE  i < j
    BY <1>1 DEF EndsAfter
  <2>1. /\ i + 1 \in DOMAIN q /\ q[i + 1].kind = k
        /\ j + 1 \in DOMAIN q /\ q[j + 1].kind \in E /\ q[j + 1].arg = s
    BY <1>1
  <2>2. i + 1 < j + 1
    BY <2>1 DEF EndsAfter
  <2> QED  BY <2>2
<1>3. Head(q).kind \in E /\ Head(q).arg = s => ~ Has(q, {k})
  BY <1>1 DEF EndsAfter, Has
<1> QED  BY <1>2, <1>3 DEF t

LEMMA EndsAfterAdded ==
  ASSUME NEW S, NEW q \in Seq(S), NEW m \in S, NEW k, NEW E, NEW s, EndsAfter(q, k, E, s),
         m.kind = k => k \notin E /\ \A i \in DOMAIN q : ~ (q[i].kind \in E /\ q[i].arg = s)
  PROVE  EndsAfter(Append(q, m), k, E, s)
<1> DEFINE t == Append(q, m)  n == Len(q)
<1>1. /\ t \in Seq(S) /\ n \in Nat /\ DOMAIN q = 1 .. n /\ DOMAIN t = 1 .. n + 1
      /\ t[n + 1] = m /\ \A i \in 1 .. n : t[i] = q[i]
  BY AddedIndices
<1> HIDE DEF t, n
<1>2. \A i \in 1 .. n + 1 : i # n + 1 => i \in 1 .. n
  BY <1>1
<1> SUFFICES EndsAfter(t, k, E, s)
  BY DEF t
<1> QED  BY <1>1, <1>2 DEF EndsAfter

\* A connection made for a page that was left outlives the opening of the next:
\* what opens the view comes before the events of its end.
Stale ==
  ~ Stopping /\ sock # NoSock =>
    /\ Sent({"GUI_DESTROYED"}) => Alive(sock) /\ ~ Queued("end_socket")
    /\ Queued("GotoLink") => Alive(sock) /\ Before(helperq, "GotoLink", "end_socket")
    /\ EndsAfter(mmiq, "GUI_DESTROYED", Ends, sock)
    /\ EndsAfter(mmiq, "GOTO_URL", {"CLOSED"}, sock)

LEMMA StaleInit == Init => Stale
BY DEF Init, Stale

\* Only a stop takes the socket away, and only end_socket closes it otherwise.
LEMMA SocketStep ==
  ASSUME Types, Next, ~ Stopping', sock' # NoSock
  PROVE  \/ /\ OpenSocket /\ sock' \in Socks /\ Alive(sock)' /\ ~ Undelivered(sock')
            /\ UNCHANGED <<mmiq, helperq>> /\ hp = "socket"
         \/ /\ ~ Stopping /\ UNCHANGED sock /\ sock \in Socks
            /\ Alive(sock) => Alive(sock)' \/ end_socket
<1>1. CASE OpenSocket
  <2>1. /\ hp = "socket" /\ UNCHANGED <<mmiq, helperq>>
        /\ sock' \in Socks /\ Becomes(sock', "new") /\ ~ Undelivered(sock')
    BY <1>1, StatesStep DEF OpenSocket
  <2>2. Alive(sock)'
    BY <2>1 DEF Becomes, Alive
  <2> QED  BY <1>1, <2>1, <2>2
<1>2. CASE StopINET \/ StopINETFrees \/ free_socket
  <2>1. hp' = "StopINET" \/ sock' = NoSock
    BY <1>2 DEF StopINET, StopINETFrees, free_socket, FreeSocket
  <2> QED  BY <2>1 DEF Stopping
<1>3. CASE ~ OpenSocket /\ ~ StopINET /\ ~ StopINETFrees /\ ~ free_socket
  <2>1. UNCHANGED sock
    <3>1. StartINET \/ StartINETQueues \/ create_connect \/ ConnectReturns \/ SendPost
          \/ ResumeSend \/ bsend \/ get_answer \/ PostData \/ end_socket \/ GotoLink \/ OnDNR
          \/ OnConnected \/ OnDataRead \/ OnBufferFree \/ OnClosed \/ OnDataArrived
          \/ OnDataEnd \/ OnGotoUrl \/ OnGuiDestroyed \/ resend \/ Leave \/ PressStop
          \/ Network => sock' = sock
      BY DEF StartINET, StartINETQueues, create_connect, ConnectReturns, SendPost, ResumeSend,
             bsend, get_answer, PostData, end_socket, GotoLink, OnDNR, OnConnected, OnDataRead,
             OnBufferFree, OnClosed, OnDataArrived, OnDataEnd, OnGotoUrl, OnGuiDestroyed,
             resend, Leave, PressStop, Network, NetConnects, NetBufferFree, ServerAnswers,
             RemoteCloses, LocalCloses, DnsAnswers, inetVars
    <3>2. Connect => sock' = sock
      BY DEF Connect
    <3> QED  BY <1>3, <3>1, <3>2 DEF Next, Helper, Mmi, User
  <2>2. sock \in Socks
    BY <2>1 DEF Types, InetTypes
  <2>3. ~ Stopping
    <3>1. KeepsProcs({"StopINET"}) \/ Leave \/ PressStop
      BY <1>3, ProcsKept DEF Next, Helper, Mmi, User
    <3>2. Leave \/ PressStop => Queued("StopINET")'
      BY SubprocStep DEF Leave, PressStop, Queued, Procs
    <3>3. hp = "StopINET" => hp' = "StopINET"
      BY <1>3 DEF Next, Helper, Mmi, User, Network, StartINET, StartINETQueues, create_connect,
             Connect, ConnectReturns, SendPost, ResumeSend, bsend, get_answer, PostData,
             end_socket, GotoLink, OnDNR, OnConnected, OnDataRead, OnBufferFree, OnClosed,
             OnDataArrived, OnDataEnd, OnGotoUrl, OnGuiDestroyed, resend, Leave, PressStop,
             NetConnects, NetBufferFree, ServerAnswers, RemoteCloses, LocalCloses, DnsAnswers,
             helperVars, Starts
    <3> QED  BY <3>1, <3>2, <3>3 DEF Stopping, Queued, KeepsProcs
  <2>4. Alive(sock) => Alive(sock)' \/ end_socket
    <3>1. CASE Connect
      <4>1. Becomes(sock, "connecting")
        <5>1. sock' # NoSock
          OBVIOUS
        <5> QED  BY <3>1, <5>1, StatesStep
      <4> QED  BY <2>1, <2>2, <4>1 DEF Becomes, Alive
    <3>2. CASE UNCHANGED conns \/ bsend \/ get_answer \/ Network
      BY <2>1, <2>2, <3>2, AliveKept DEF Alive
    <3>3. StartINET \/ StartINETQueues \/ create_connect \/ ConnectReturns \/ SendPost
          \/ ResumeSend \/ PostData \/ GotoLink \/ Mmi \/ User => UNCHANGED conns
      BY DEF StartINET, StartINETQueues, create_connect, ConnectReturns, SendPost, ResumeSend,
             PostData, GotoLink, Mmi, User, OnDNR, OnConnected, OnDataRead, OnBufferFree,
             OnClosed, OnDataArrived, OnDataEnd, OnGotoUrl, OnGuiDestroyed, resend, Leave,
             PressStop, osVars
    <3> QED  BY <1>3, <3>1, <3>2, <3>3 DEF Next, Helper
  <2> QED  BY <2>1, <2>2, <2>3, <2>4
<1> QED  BY <1>1, <1>2, <1>3


\* What the end of a connection does.
LEMMA EndStep ==
  ASSUME Types, OnClosed
  PROVE  /\ mmiq # <<>> /\ mmiq \in Seq(Messages) /\ Head(mmiq).kind \in Ends
         /\ UNCHANGED <<hp, sock, conns, STOPPED, FNCACHE, view, opened, ended>>
         /\ \/ Consume /\ UNCHANGED helperq
            \/ Consume /\ Ours /\ connect_state > 0 /\ SUBPROC("end_socket")
            \/ /\ Ours /\ connect_state = -1 /\ SUBPROC("free_socket")
               /\ mmiq' = Append(Tail(mmiq), Msg("DATA_END", NULL))
<1>1. mmiq # <<>> /\ Head(mmiq).kind \in Ends
  BY DEF OnClosed, Handles, Ends
<1>2. mmiq \in Seq(Messages)
  BY DEF Types, OsTypes
<1>3. UNCHANGED <<hp, sock, conns, STOPPED, FNCACHE, view, opened, ended>>
  BY DEF OnClosed, viewVars, pageVars
<1>4. \/ Consume /\ UNCHANGED helperq
      \/ Consume /\ Ours /\ connect_state > 0 /\ SUBPROC("end_socket")
      \/ /\ Ours /\ connect_state = -1 /\ SUBPROC("free_socket")
         /\ mmiq' = Append(Tail(mmiq), Msg("DATA_END", NULL))
  BY Zenon DEF OnClosed
<1> QED  BY <1>1, <1>2, <1>3, <1>4

LEMMA StaleStep ==
  ASSUME Types, OneOpening, ClosesOnce, Stale, hp = "socket" => ~ Queued("end_socket"), Next
  PROVE  Stale'
<1> SUFFICES ASSUME ~ Stopping', sock' # NoSock
             PROVE  /\ Sent({"GUI_DESTROYED"})' => Alive(sock)' /\ ~ Queued("end_socket")'
                    /\ Queued("GotoLink")' =>
                         Alive(sock)' /\ Before(helperq', "GotoLink", "end_socket")
                    /\ EndsAfter(mmiq', "GUI_DESTROYED", Ends, sock')
                    /\ EndsAfter(mmiq', "GOTO_URL", {"CLOSED"}, sock')
  BY DEF Stale
<1>0. mmiq \in Seq(Messages)
  BY DEF Types, OsTypes
<1>1. CASE /\ OpenSocket /\ sock' \in Socks /\ Alive(sock)' /\ ~ Undelivered(sock')
           /\ UNCHANGED <<mmiq, helperq>> /\ hp = "socket"
  <2>1. ~ Queued("end_socket")'
    BY <1>1 DEF Queued
  <2>2. \A i \in DOMAIN mmiq : ~ (mmiq[i].kind \in Ends /\ mmiq[i].arg = sock')
    BY <1>1 DEF Undelivered, Ends, SocketEvents
  <2>3. \A k, E : E \subseteq Ends => EndsAfter(mmiq', k, E, sock')
    BY <1>1, <2>2 DEF EndsAfter
  <2>4. {"CLOSED"} \subseteq Ends
    BY DEF Ends
  <2> QED  BY <1>1, <2>1, <2>3, <2>4 DEF Before, Queued, In
<1>2. CASE /\ ~ Stopping /\ UNCHANGED sock /\ sock \in Socks
           /\ Alive(sock) => Alive(sock)' \/ end_socket
  <2>1. sock # NoSock
    BY <1>2, SocksAssumption DEF NoSock
  <2>2. /\ Sent({"GUI_DESTROYED"}) => Alive(sock) /\ ~ Queued("end_socket")
        /\ Queued("GotoLink") => Alive(sock) /\ Before(helperq, "GotoLink", "end_socket")
        /\ EndsAfter(mmiq, "GUI_DESTROYED", Ends, sock)
        /\ EndsAfter(mmiq, "GOTO_URL", {"CLOSED"}, sock)
    BY <1>2, <2>1 DEF Stale
  <2>3. ~ Leave
    BY SubprocStep DEF Leave, Stopping, Queued, Procs
  <2>4. end_socket => Queued("end_socket") /\ ~ Queued("GotoLink")
    BY <2>2, DequeueStep DEF end_socket, Queued, In
  <2>5. Sent({"GUI_DESTROYED"})' => Sent({"GUI_DESTROYED"})
    <3>1. CASE OnGuiDestroyed
      BY <3>1, ConsumeStep DEF OnGuiDestroyed, Sent
    <3>2. CASE ~ OnGuiDestroyed
      <4>1. KeepsMsgs({"GUI_DESTROYED"})
        BY <2>3, <3>2, MsgsKept DEF Next, Helper, Mmi, User, Ends, SocketEvents
      <4> QED  BY <4>1 DEF KeepsMsgs, Sent
    <3> QED  BY <3>1, <3>2
  <2>6. Sent({"GUI_DESTROYED"}) => ~ Queued("end_socket")'
    <3> SUFFICES ASSUME Sent({"GUI_DESTROYED"}) PROVE ~ Queued("end_socket")'
      OBVIOUS
    <3>1. CASE OnClosed
      <4>1. ~ Ours
        BY <1>0, <2>2, <3>1, EndStep, EndsAfterTaken DEF Ours, Sent
      <4> QED  BY <2>2, <3>1, <4>1, EndStep DEF Queued
    <3>2. CASE end_socket
      BY <2>2, <2>4, <3>2
    <3>3. CASE ~ OnClosed /\ ~ end_socket
      <4>1. KeepsProcs({"end_socket"})
        BY <3>3, ProcsKept DEF Next, Helper, Mmi, User
      <4> QED  BY <2>2, <4>1 DEF KeepsProcs, Queued
    <3> QED  BY <3>1, <3>2, <3>3
  <2>7. Sent({"GUI_DESTROYED"})' => Alive(sock)' /\ ~ Queued("end_socket")'
    BY <1>2, <2>2, <2>4, <2>5, <2>6
  <2>8. Queued("GotoLink")' => Alive(sock)' /\ Before(helperq', "GotoLink", "end_socket")
    <3>1. CASE OnGuiDestroyed
      <4>1. Sent({"GUI_DESTROYED"})
        BY <3>1, ConsumeStep DEF OnGuiDestroyed, Sent
      <4>2. ~ end_socket
        BY <2>2, <2>4, <4>1
      <4> QED  BY <1>2, <2>2, <2>6, <4>1, <4>2 DEF Before, Queued, In
    <3>2. CASE GotoLink
      <4>1. ~ Queued("GotoLink")'
        BY <3>2, DequeueStep DEF GotoLink, OneOpening, Queued
      <4> QED  BY <4>1
    <3>3. CASE ~ OnGuiDestroyed /\ ~ GotoLink
      <4>1. KeepsProcs({"GotoLink"})
        BY <3>3, ProcsKept DEF Next, Helper, Mmi, User
      <4>2. Queued("GotoLink")' => Queued("GotoLink")
        BY <4>1 DEF KeepsProcs, Queued
      <4>3. Before(helperq, "GotoLink", "end_socket") => Before(helperq', "GotoLink", "end_socket")
        BY <4>1 DEF KeepsProcs
      <4> QED  BY <1>2, <2>2, <2>4, <4>2, <4>3
    <3> QED  BY <3>1, <3>2, <3>3
  <2>9. EndsAfter(mmiq', "GUI_DESTROYED", Ends, sock)
    <3>1. CASE mmiq # <<>> /\ mmiq' = Tail(mmiq)
      BY <1>0, <2>2, <3>1, EndsAfterTaken
    <3>2. CASE /\ mmiq # <<>> /\ Tail(mmiq) \in Seq(Messages)
               /\ Msg("DATA_END", NULL) \in Messages
               /\ mmiq' = Append(Tail(mmiq), Msg("DATA_END", NULL))
      <4>1. EndsAfter(Tail(mmiq), "GUI_DESTROYED", Ends, sock)
            /\ Msg("DATA_END", NULL).kind # "GUI_DESTROYED"
        BY <1>0, <2>2, <3>2, EndsAfterTaken DEF Msg
      <4> QED  BY <3>2, <4>1, EndsAfterAdded
    <3>3. ASSUME NEW m \in Messages, mmiq' = Append(mmiq, m),
                 m.kind \in SocketEvents \cup {"DNR", "DATA_ARRIVED", "GOTO_URL"}
          PROVE  EndsAfter(mmiq', "GUI_DESTROYED", Ends, sock)
      <4>1. m.kind # "GUI_DESTROYED"
        BY <3>3 DEF SocketEvents
      <4> QED  BY <1>0, <2>2, <3>3, <4>1, EndsAfterAdded
    <3>4. CASE UNCHANGED mmiq
      BY <2>2, <3>4
    <3> QED  BY <2>3, <3>1, <3>2, <3>3, <3>4, MessagesStep
  <2>10. EndsAfter(mmiq', "GOTO_URL", {"CLOSED"}, sock)
    <3>1. CASE mmiq # <<>> /\ mmiq' = Tail(mmiq)
      BY <1>0, <2>2, <3>1, EndsAfterTaken
    <3>2. CASE /\ mmiq # <<>> /\ Tail(mmiq) \in Seq(Messages)
               /\ Msg("DATA_END", NULL) \in Messages
               /\ mmiq' = Append(Tail(mmiq), Msg("DATA_END", NULL))
      <4>1. EndsAfter(Tail(mmiq), "GOTO_URL", {"CLOSED"}, sock)
            /\ Msg("DATA_END", NULL).kind # "GOTO_URL"
        BY <1>0, <2>2, <3>2, EndsAfterTaken DEF Msg
      <4> QED  BY <3>2, <4>1, EndsAfterAdded
    <3>3. ASSUME NEW m \in Messages, mmiq' = Append(mmiq, m),
                 m.kind \in SocketEvents \cup {"DNR", "DATA_ARRIVED"}
          PROVE  EndsAfter(mmiq', "GOTO_URL", {"CLOSED"}, sock)
      <4>1. m.kind # "GOTO_URL"
        BY <3>3 DEF SocketEvents
      <4> QED  BY <1>0, <2>2, <3>3, <4>1, EndsAfterAdded
    <3>4. ASSUME GotoLink, NEW m \in Messages, mmiq' = Append(mmiq, m), m.kind = "GOTO_URL"
          PROVE  EndsAfter(mmiq', "GOTO_URL", {"CLOSED"}, sock)
      <4>1. Alive(sock)
        BY <2>2, <3>4, DequeueStep DEF GotoLink, Queued
      <4>2. \A i \in DOMAIN mmiq : ~ (mmiq[i].kind \in {"CLOSED"} /\ mmiq[i].arg = sock)
        BY <4>1 DEF Alive, ClosesOnce, ClosesIn
      <4> QED  BY <1>0, <2>2, <3>4, <4>2, EndsAfterAdded
    <3>5. CASE UNCHANGED mmiq
      BY <2>2, <3>5
    <3> QED  BY <2>3, <3>1, <3>2, <3>3, <3>4, <3>5, MessagesStep
  <2> QED  BY <1>2, <2>7, <2>8, <2>9, <2>10
<1> QED  BY <1>1, <1>2, SocketStep


\* The last page opened is the one on screen and the one that is loaded; of the
\* pages to come nothing is cached.
Current ==
  /\ FNCACHE \in {NULL, opened} /\ view \in {0, opened}
  /\ \A p \in Pages : p > opened => ~ ended[p] /\ cache[p] = <<>>
  /\ Posting => Alive(sock)
  /\ Queued("StartGetFile") => cache[opened] = <<>>

LEMMA CurrentInit == Init => Current
BY PagesAssumption DEF Init, Current, Posting, Pages

\* A page that waits to be loaded, or a view that is about to open, has no file.
LEMMA FileFreed ==
  ASSUME Types, OneOpening, UrlFreed, StopsDone, Queued("StartGetFile") \/ Sent({"GOTO_URL"})
  PROVE  FNCACHE = NULL
<1> SUFFICES ASSUME FNCACHE # NULL PROVE FALSE
  OBVIOUS
<1>1. view = 0 \/ Queued("StartGetFile")
  BY DEF OneOpening, Sent, Has, Opening
<1>2. hp # "StopINET"
  BY DEF StopsDone
<1>3. First(helperq, "StopINET", {"GotoLink", "StartGetFile"})
  BY <1>1, <1>2 DEF UrlFreed, Dirty
<1>4. Queued("StopINET")
  BY <1>3 DEF First, Queued, In
<1>5. Queued("StartGetFile") /\ Before(helperq, "StartGetFile", "StopINET")
  BY <1>4 DEF StopsDone
<1>6. PICK i \in DOMAIN helperq :
        helperq[i] = "StopINET" /\ \A j \in DOMAIN helperq : j < i => helperq[j] # "StartGetFile"
  BY <1>3 DEF First
<1>7. PICK j \in DOMAIN helperq : helperq[j] = "StartGetFile"
  BY <1>5 DEF Queued, In
<1> QED  BY <1>5, <1>6, <1>7 DEF Before

\* StartGetFile is asked for by a view that opens, and taken once.
LEMMA LoadAsked ==
  ASSUME Types, OneLoading, Next, Queued("StartGetFile")'
  PROVE  OnGotoUrl \/ (Queued("StartGetFile") /\ ~ StartINET /\ KeepsProcs({"StartGetFile"}))
<1>1. CASE StartINET
  BY <1>1, DequeueStep DEF StartINET, OneLoading, Queued
<1>2. CASE ~ StartINET /\ ~ OnGotoUrl
  <2>1. KeepsProcs({"StartGetFile"})
    BY <1>2, ProcsKept DEF Next, Helper, Mmi, User
  <2> QED  BY <1>2, <2>1 DEF KeepsProcs, Queued
<1> QED  BY <1>1, <1>2

\* A view is told of its end by OnDataEnd alone.
LEMMA EndedChanges ==
  ASSUME Types, Next
  PROVE  /\ OnDataEnd \/ UNCHANGED ended
         /\ OnDataEnd => /\ UNCHANGED <<view, opened>> /\ Sent({"DATA_END"})
                         /\ ended' = IF view = 0 THEN ended ELSE [ended EXCEPT ![view] = TRUE]
<1>1. StartINET \/ StartINETQueues \/ create_connect \/ OpenSocket \/ Connect \/ ConnectReturns
      \/ SendPost \/ ResumeSend \/ bsend \/ get_answer \/ PostData \/ end_socket \/ free_socket
      \/ StopINET \/ StopINETFrees \/ GotoLink => UNCHANGED ended
  BY DEF StartINET, StartINETQueues, create_connect, OpenSocket, Connect, ConnectReturns,
         SendPost, ResumeSend, bsend, get_answer, PostData, end_socket, free_socket, StopINET,
         StopINETFrees, FreeSocket, GotoLink, pageVars
<1>2. OnDNR \/ OnConnected \/ OnDataRead \/ OnBufferFree \/ OnClosed \/ OnDataArrived
      \/ OnGotoUrl \/ OnGuiDestroyed \/ resend \/ Leave \/ PressStop \/ Network
      => UNCHANGED ended
  BY DEF OnDNR, OnConnected, OnDataRead, OnBufferFree, OnClosed, OnDataArrived, OnGotoUrl,
         OnGuiDestroyed, resend, Leave, PressStop, Network, NetConnects, NetBufferFree,
         ServerAnswers, RemoteCloses, LocalCloses, DnsAnswers, pageVars
<1>3. OnDataEnd => Sent({"DATA_END"})
  <2> SUFFICES ASSUME OnDataEnd PROVE Sent({"DATA_END"})
    OBVIOUS
  <2>1. Handles("DATA_END") /\ Consume
    BY DEF OnDataEnd
  <2> QED  BY <2>1, ConsumeStep DEF Sent
<1> QED  BY <1>1, <1>2, <1>3 DEF Next, Helper, Mmi, User, OnDataEnd, viewVars

\* get_answer writes to the file of the page that is loaded, when there are data.
LEMMA WrittenBy ==
  ASSUME Types, get_answer, NEW p \in Pages, cache'[p] # cache[p]
  PROVE  FNCACHE = p /\ Alive(sock)
<1>1. cache \in [Pages -> Seq(Chunks)]
  BY DEF Types, PageTypes
<1>2. Alive(sock)
  BY DEF get_answer
<1>3. \A c : writecache(c) => \/ UNCHANGED cache
                              \/ FNCACHE # NULL /\ cache' = [cache EXCEPT ![FNCACHE] = @ \o c]
  BY DEF writecache
<1>4. \/ UNCHANGED cache
      \/ \E c : writecache(c)
  BY Zenon DEF get_answer
<1>5. FNCACHE = p
  BY <1>1, <1>3, <1>4
<1> QED  BY <1>2, <1>5


LEMMA CurrentStep ==
  ASSUME Types, OneOpening, OneLoading, UrlFreed, SockHeld, ViewHeld, DataFirst, StopsDone,
         Header, Current, Next
  PROVE  Current'
<1>0. /\ cache \in [Pages -> Seq(Chunks)] /\ ended \in [Pages -> BOOLEAN] /\ opened \in Pages
      /\ Pages \subseteq Nat /\ NULL \notin Pages
  BY NullAssumption DEF Types, PageTypes, ViewTypes, Pages
<1>1. view_url \in Pages => view_url = opened
  BY <1>0 DEF ViewHeld, Current
<1>2. OnGotoUrl => FNCACHE = NULL /\ FNCACHE' = NULL /\ UNCHANGED <<cache, ended>>
                   /\ view' = opened + 1 /\ opened' = opened + 1 /\ opened + 1 \in Pages
  <2> SUFFICES ASSUME OnGotoUrl
               PROVE  FNCACHE = NULL /\ FNCACHE' = NULL /\ UNCHANGED <<cache, ended>>
                      /\ view' = opened + 1 /\ opened' = opened + 1 /\ opened + 1 \in Pages
    OBVIOUS
  <2>1. Sent({"GOTO_URL"})
    <3>1. Handles("GOTO_URL") /\ Consume
      BY DEF OnGotoUrl
    <3> QED  BY <3>1, ConsumeStep DEF Sent
  <2>2. FNCACHE = NULL
    BY <2>1, FileFreed
  <2> QED  BY <2>2, OpensBlank DEF OnGotoUrl, pageVars
<1>3. ~ OnGotoUrl => UNCHANGED opened /\ view' \in {view, 0}
  BY ViewChanges DEF viewVars, Leave
<1>4. opened' >= opened
  BY <1>0, <1>2, <1>3
<1>5. FNCACHE' \in {NULL, opened'} /\ view' \in {0, opened'}
  <2>1. CASE OnGotoUrl
    BY <1>2, <2>1
  <2>2. CASE ~ OnGotoUrl
    <3>1. FNCACHE' \in {FNCACHE, NULL, opened}
      BY <1>1, CacheChanges
    <3> QED  BY <1>3, <2>2, <3>1 DEF Current
  <2> QED  BY <2>1, <2>2
<1>6. ASSUME NEW p \in Pages, p > opened' PROVE ~ ended'[p] /\ cache'[p] = <<>>
  <2>1. p > opened /\ p \in Nat /\ opened \in Nat /\ p # opened
    BY <1>0, <1>2, <1>3, <1>6
  <2>2. ~ ended'[p]
    <3>1. p # view
      BY <1>0, <2>1, PagesAssumption DEF Current, Pages
    <3>2. ended'[p] = ended[p]
      BY <1>0, <3>1, EndedChanges
    <3> QED  BY <2>1, <3>2 DEF Current
  <2>3. cache'[p] = <<>>
    <3>1. cache[p] = <<>> /\ FNCACHE # p
      BY <1>0, <2>1 DEF Current
    <3>2. get_answer => cache'[p] = cache[p]
      BY <3>1, WrittenBy
    <3> QED  BY <1>0, <1>1, <2>1, <3>1, <3>2, CacheChanges
  <2> QED  BY <2>2, <2>3
<1>7. Posting' => Alive(sock)'
  <2> SUFFICES ASSUME Posting' PROVE Alive(sock)'
    OBVIOUS
  <2>1. CASE get_answer
    <3>1. hp = "idle"
      BY <2>1 DEF get_answer, Starts
    <3>2. hp' # hp
      BY <3>1 DEF Posting
    <3> QED  BY <2>1, <3>2, AnswerPieces DEF Reads
  <2>2. CASE Posting /\ (Mmi \/ User \/ Network)
    <3>1. Alive(sock) /\ sock \in Socks
      BY <2>2 DEF Current, Alive
    <3>2. UNCHANGED sock /\ (UNCHANGED conns \/ Network)
      BY <2>2 DEF Mmi, User, OnDNR, OnConnected, OnDataRead, OnBufferFree, OnClosed,
             OnDataArrived, OnDataEnd, OnGotoUrl, OnGuiDestroyed, resend, Leave, PressStop,
             Network, NetConnects, NetBufferFree, ServerAnswers, RemoteCloses, LocalCloses,
             DnsAnswers, inetVars, osVars
    <3> QED  BY <3>1, <3>2, AliveKept DEF Alive
  <2> QED  BY <2>1, <2>2, PostingStep
<1>8. Queued("StartGetFile")' => cache'[opened'] = <<>>
  <2>1. CASE OnGotoUrl
    <3>1. opened + 1 > opened
      BY <1>0
    <3> QED  BY <1>2, <2>1, <3>1 DEF Current
  <2>2. CASE ~ OnGotoUrl /\ Queued("StartGetFile") /\ ~ StartINET
    <3>1. FNCACHE = NULL /\ cache[opened] = <<>>
      BY <2>2, FileFreed DEF Current
    <3>2. get_answer => cache'[opened] = cache[opened]
      BY <1>0, <3>1, WrittenBy
    <3> QED  BY <1>3, <2>2, <3>1, <3>2, CacheChanges
  <2> QED  BY <2>1, <2>2, LoadAsked
<1> QED  BY <1>5, <1>6, <1>7, <1>8 DEF Current

\* The second close of a connection comes when nothing is left to read of it, and
\* never while a view is about to open.
LEMMA LastClose ==
  ASSUME Types, ClosesOnce, SockHeld, StopsDone, Current, Stale, OnClosed, Ours,
         connect_state = -1
  PROVE  /\ sock \in Socks /\ ~ Alive(sock) /\ ~ Posting
         /\ ~ Queued("free_socket") /\ ~ Sent({"GOTO_URL"})
<1>1. /\ mmiq # <<>> /\ mmiq \in Seq(Messages) /\ Head(mmiq).kind \in Ends
      /\ Head(mmiq).arg = sock
  BY EndStep DEF Ours
<1>2. sock \in Socks /\ sock # NoSock
  <2>1. Handles("REMOTE_CLOSED") \/ Handles("CLOSED")
    BY DEF OnClosed
  <2> QED  BY <1>1, <2>1, EndsTyped, SocksAssumption DEF NoSock, SocketEvents
<1>3. Head(mmiq).kind # "REMOTE_CLOSED"
  BY <1>1, <1>2, EndsTaken DEF SockHeld, ClosesOnce
<1>4. Head(mmiq).kind = "CLOSED"
  BY <1>1, <1>3 DEF Ends
<1>5. conns[sock].st = "free"
  BY <1>1, <1>4, EndsTaken DEF ClosesOnce
<1>6. ~ Alive(sock) /\ ~ Posting
  BY <1>5 DEF Alive, Current
<1>7. ~ Queued("free_socket") \/ connect_state = 0
  BY DEF SockHeld
<1>8. ~ Sent({"GOTO_URL"})
  <2> SUFFICES ASSUME Sent({"GOTO_URL"}) PROVE FALSE
    OBVIOUS
  <2>1. ~ Stopping
    BY DEF StopsDone, Stopping
  <2>2. EndsAfter(mmiq, "GOTO_URL", {"CLOSED"}, sock)
    BY <1>2, <2>1 DEF Stale
  <2> QED  BY <1>1, <1>4, <2>2, EndsAfterTaken DEF Sent
<1> QED  BY <1>2, <1>6, <1>7, <1>8

\* The last page opened is over, or is about to be told so: what loads it is
\* freed, or is about to be.
Over == (view # 0 /\ Sent({"DATA_END"})) \/ ended[opened]
Freed == STOPPED /\ FNCACHE = NULL /\ ~ Queued("StartGetFile")
Freeing ==
  /\ Queued("free_socket") /\ Before(helperq, "StartGetFile", "free_socket")
  /\ ~ Alive(sock) /\ ~ Posting
Ending ==
  /\ Over => Freed \/ Freeing
  /\ ended[opened] => ~ Sent({"DATA_ARRIVED"})
  /\ Precede(mmiq, {"DATA_ARRIVED"}, {"DATA_END"})
  /\ Precede(mmiq, {"DATA_END"}, {"GOTO_URL"})

LEMMA EndingInit == Init => Ending
<1> SUFFICES ASSUME Init PROVE Ending
  OBVIOUS
<1>1. mmiq = <<>> /\ opened = 1 /\ ended = [p \in Pages |-> FALSE] /\ 1 \in Pages
  BY PagesAssumption DEF Init, Pages
<1>2. ~ ended[opened] /\ \A K : ~ Has(mmiq, K)
  BY <1>1 DEF Has
<1> QED  BY <1>1, <1>2 DEF Ending, Over, Sent, Precede


\* The connection is freed as it was, until HELPER frees it.
LEMMA FreeingStep ==
  ASSUME Types, OneLoading, ClosesOnce, OneConnecting, SockHeld, StopsDone, SentOnce, Next,
         ~ OnGotoUrl, Freeing
  PROVE  Freed' \/ Freeing'
<1>1. CASE free_socket
  <2>1. STOPPED' /\ FNCACHE' = NULL
    BY <1>1 DEF free_socket, FreeSocket, FreeUrl
  <2>2. ~ Queued("StartGetFile") /\ KeepsProcs({"StartGetFile"})
    BY <1>1, DequeueStep, ProcsKept DEF free_socket, Freeing, Queued
  <2> QED  BY <2>1, <2>2 DEF Freed, KeepsProcs, Queued
<1>2. CASE StopINETFrees
  <2>1. STOPPED' /\ FNCACHE' = NULL /\ hp = "StopINET" /\ UNCHANGED helperq
    BY <1>2 DEF StopINETFrees, FreeSocket, FreeUrl
  <2> QED  BY <2>1 DEF Freed, StopsDone, Queued
<1>3. CASE ~ free_socket /\ ~ StopINETFrees
  <2>1. Queued("free_socket")'
    <3>1. CASE OnClosed
      <4>1. connect_state = 0
        BY DEF Freeing, SockHeld
      <4>2. UNCHANGED helperq
        BY <3>1, <4>1, EndStep
      <4> QED  BY <4>2 DEF Freeing, Queued
    <3>2. CASE ~ OnClosed
      <4>1. KeepsProcs({"free_socket"})
        BY <1>3, <3>2, ProcsKept DEF Next, Helper, Mmi, User
      <4> QED  BY <4>1 DEF KeepsProcs, Queued, Freeing
    <3> QED  BY <3>1, <3>2
  <2>2. Before(helperq', "StartGetFile", "free_socket")
    <3>1. CASE StartINET
      BY <3>1, DequeueStep DEF StartINET, Freeing
    <3>2. CASE ~ StartINET
      <4>1. KeepsProcs({"StartGetFile"})
        BY <3>2, ProcsKept DEF Next, Helper, Mmi, User
      <4> QED  BY <4>1 DEF KeepsProcs, Freeing
    <3> QED  BY <3>1, <3>2
  <2>3. get_answer => UNCHANGED <<sock, conns, hp>>
    BY DEF Freeing, get_answer
  <2>4. ~ Alive(sock)'
    <3>1. ~ OpenSocket
      BY DEF OpenSocket, Freeing, SockHeld
    <3>2. get_answer => ~ Alive(sock)'
      BY <2>3 DEF Freeing, Alive
    <3> QED  BY <3>1, <3>2, SockRead DEF Freeing
  <2>5. ~ Posting'
    <3>1. get_answer => ~ Posting'
      BY <2>3 DEF get_answer, Starts, Posting
    <3> QED  BY <3>1, PostingStep DEF Freeing
  <2> QED  BY <2>1, <2>2, <2>4, <2>5 DEF Freeing
<1> QED  BY <1>1, <1>2, <1>3

LEMMA FreedStep ==
  ASSUME Types, OneLoading, Next, ~ OnGotoUrl, Freed
  PROVE  Freed'
<1>1. STOPPED'
  BY ViewChanges DEF Freed, viewVars, Leave
<1>2. ~ Queued("StartGetFile")'
  BY LoadAsked DEF Freed
<1>3. ~ StartINET
  BY DequeueStep DEF StartINET, Freed, Queued
<1>4. FNCACHE' = NULL
  BY <1>3, CacheChanges DEF Freed
<1> QED  BY <1>1, <1>2, <1>4 DEF Freed

\* DATA_END is sent by the second close alone.
LEMMA EndSent ==
  ASSUME Types, Next, Sent({"DATA_END"})'
  PROVE  Sent({"DATA_END"}) \/ (OnClosed /\ Ours /\ connect_state = -1 /\ SUBPROC("free_socket"))
<1>0. mmiq \in Seq(Messages)
  BY DEF Types, OsTypes
<1>1. CASE mmiq # <<>> /\ mmiq' = Tail(mmiq)
  BY <1>0, <1>1, Received DEF Sent
<1>2. CASE OnClosed
  BY <1>1, <1>2, EndStep DEF Consume
<1>3. ASSUME NEW m \in Messages, mmiq' = Append(mmiq, m),
             m.kind \in SocketEvents \cup {"DNR", "DATA_ARRIVED", "GUI_DESTROYED", "GOTO_URL"}
      PROVE  Sent({"DATA_END"})
  <2>1. m.kind \notin {"DATA_END"}
    BY <1>3 DEF SocketEvents
  <2> QED  BY <1>0, <1>3, <2>1, Posted DEF Sent
<1>4. CASE UNCHANGED mmiq
  BY <1>4 DEF Sent
<1> QED  BY <1>1, <1>2, <1>3, <1>4, MessagesStep

\* A view opens with nothing of an earlier page on its way.
LEMMA OpensFresh ==
  ASSUME Types, OneOpening, ViewHeld, DataFirst, Ending, Current, OnGotoUrl
  PROVE  ~ Over' /\ ~ ended'[opened'] /\ ~ Sent({"DATA_END"})'
<1>1. /\ mmiq \in Seq(Messages) /\ mmiq # <<>> /\ Head(mmiq).kind = "GOTO_URL"
      /\ mmiq' = Tail(mmiq) /\ UNCHANGED ended
  BY DEF OnGotoUrl, Handles, Consume, Types, OsTypes, pageVars
<1>2. ~ Has(mmiq, {"DATA_END"})
  BY <1>1, PrecedeTaken DEF Ending
<1>3. ~ Sent({"DATA_END"})'
  BY <1>1, <1>2, Received DEF Sent
<1>4. opened' = opened + 1 /\ opened + 1 \in Pages /\ opened \in Nat
  BY OpensBlank DEF Types, ViewTypes, Pages
<1>5. ~ ended'[opened']
  BY <1>1, <1>4 DEF Current
<1> QED  BY <1>3, <1>5 DEF Over

LEMMA OverStep ==
  ASSUME Types, OneOpening, OneLoading, ClosesOnce, OneConnecting, SockHeld, ViewHeld,
         DataFirst, StopsDone, SentOnce, Current, Stale, Ending, Next, Over'
  PROVE  ~ OnGotoUrl /\ (Freed' \/ Freeing')
<1>1. ~ OnGotoUrl
  BY OpensFresh
<1>2. CASE OnClosed /\ Ours /\ connect_state = -1 /\ SUBPROC("free_socket")
  <2>1. ~ Alive(sock) /\ ~ Posting /\ ~ Queued("free_socket")
    BY <1>2, LastClose
  <2>2. Queued("free_socket")' /\ Before(helperq', "StartGetFile", "free_socket")
    <3>1. Queued("free_socket")' /\ KeepsProcs({"StartGetFile"})
      BY <1>2, SubprocStep DEF Queued, Procs
    <3>2. Before(helperq, "StartGetFile", "free_socket")
      BY <2>1 DEF Before, Queued, In
    <3> QED  BY <3>1, <3>2 DEF KeepsProcs
  <2>3. ~ Alive(sock)' /\ ~ Posting'
    <3>1. UNCHANGED <<hp, sock, conns>>
      BY <1>2, EndStep
    <3> QED  BY <2>1, <3>1 DEF Alive, Posting
  <2> QED  BY <1>1, <2>2, <2>3 DEF Freeing
<1>3. CASE Over
  BY <1>1, <1>3, FreeingStep, FreedStep DEF Ending
<1>4. CASE ~ Over
  <2>1. UNCHANGED opened /\ (view' = 0 \/ UNCHANGED view)
    BY <1>1, ViewChanges DEF viewVars, Leave
  <2>2. ended'[opened] => ended[opened]
    <3>1. CASE OnDataEnd
      BY <1>4, <3>1, EndedChanges DEF Over
    <3>2. CASE UNCHANGED ended
      BY <3>2
    <3> QED  BY <3>1, <3>2, EndedChanges
  <2>3. view' # 0 /\ UNCHANGED view /\ Sent({"DATA_END"})'
    BY <1>4, <2>1, <2>2 DEF Over
  <2> QED  BY <1>2, <1>4, <2>3, EndSent DEF Over
<1> QED  BY <1>3, <1>4


LEMMA EndingStep ==
  ASSUME Types, OneOpening, OneLoading, ClosesOnce, OneConnecting, SockHeld, ViewHeld,
         DataFirst, StopsDone, SentOnce, Current, Stale, Ending, Next
  PROVE  Ending'
<1>0. mmiq \in Seq(Messages)
  BY DEF Types, OsTypes
<1> DEFINE D == {"DATA_ARRIVED"}  E == {"DATA_END"}  G == {"GOTO_URL"}
<1>1. Over' => Freed' \/ Freeing'
  BY OverStep
\* Nothing is posted to a page that is over.
<1>2. PostData /\ ~ STOPPED => view # 0 /\ ~ Over
  BY DEF PostData, ViewHeld, Ending, Freed, Freeing, Posting
<1>3. ended'[opened'] => ~ Sent({"DATA_ARRIVED"})'
  <2> SUFFICES ASSUME ended'[opened'] PROVE ~ Sent({"DATA_ARRIVED"})'
    OBVIOUS
  <2>1. ~ OnGotoUrl /\ UNCHANGED opened
    BY OpensFresh, ViewChanges DEF viewVars, Leave
  <2>2. CASE ended[opened]
    <3>1. ~ Has(mmiq, D) /\ Over
      BY <2>2 DEF Ending, Sent, Over
    <3>2. PostData => UNCHANGED mmiq
      BY <1>2, <3>1 DEF PostData
    <3> QED  BY <3>1, <3>2, NoDataStep DEF Sent
  <2>3. CASE ~ ended[opened]
    <3>1. OnDataEnd
      BY <2>1, <2>3, EndedChanges
    <3>2. mmiq # <<>> /\ Head(mmiq).kind \in E /\ mmiq' = Tail(mmiq)
      BY <3>1 DEF OnDataEnd, Handles, Consume
    <3>3. ~ Has(mmiq, D)
      BY <1>0, <3>2, PrecedeTaken DEF Ending
    <3> QED  BY <1>0, <3>2, <3>3, Received DEF Sent
  <2> QED  BY <2>2, <2>3
<1>4. Precede(mmiq', D, E)
  <2>1. CASE mmiq # <<>> /\ mmiq' = Tail(mmiq)
    BY <1>0, <2>1, PrecedeTaken DEF Ending
  <2>2. CASE /\ mmiq # <<>> /\ Tail(mmiq) \in Seq(Messages)
             /\ Msg("DATA_END", NULL) \in Messages
             /\ mmiq' = Append(Tail(mmiq), Msg("DATA_END", NULL))
    <3>1. Precede(Tail(mmiq), D, E) /\ Msg("DATA_END", NULL).kind \notin D
      BY <1>0, <2>2, PrecedeTaken DEF Ending, Msg
    <3> QED  BY <2>2, <3>1, PrecedeAdded
  <2>3. ASSUME NEW m \in Messages, mmiq' = Append(mmiq, m),
               m.kind \in SocketEvents \cup {"DNR", "GUI_DESTROYED", "GOTO_URL"}
        PROVE  Precede(mmiq', D, E)
    <3>1. m.kind \notin D
      BY <2>3 DEF SocketEvents
    <3> QED  BY <1>0, <2>3, <3>1, PrecedeAdded DEF Ending
  <2>4. ASSUME PostData, ~ STOPPED, NEW m \in Messages, mmiq' = Append(mmiq, m),
               m.kind = "DATA_ARRIVED"
        PROVE  Precede(mmiq', D, E)
    <3>1. ~ Has(mmiq, E) /\ m.kind \notin E
      BY <1>2, <2>4 DEF Over, Sent
    <3> QED  BY <1>0, <2>4, <3>1, PrecedeAdded DEF Ending
  <2>5. CASE UNCHANGED mmiq
    BY <2>5 DEF Ending
  <2> QED  BY <2>1, <2>2, <2>3, <2>4, <2>5, MessagesStep
<1>5. Precede(mmiq', E, G)
  <2>1. CASE mmiq # <<>> /\ mmiq' = Tail(mmiq)
    BY <1>0, <2>1, PrecedeTaken DEF Ending
  <2>2. CASE /\ OnClosed /\ mmiq # <<>> /\ Tail(mmiq) \in Seq(Messages)
             /\ Msg("DATA_END", NULL) \in Messages
             /\ mmiq' = Append(Tail(mmiq), Msg("DATA_END", NULL))
             /\ Ours /\ connect_state = -1
    <3>1. ~ Has(mmiq, G)
      BY <2>2, LastClose DEF Sent
    <3>2. ~ Has(Tail(mmiq), G) /\ Precede(Tail(mmiq), E, G)
      BY <1>0, <2>2, <3>1, Received, PrecedeTaken DEF Ending
    <3>3. Msg("DATA_END", NULL).kind \notin G
      BY DEF Msg
    <3> QED  BY <2>2, <3>2, <3>3, PrecedeAdded
  <2>3. ASSUME NEW m \in Messages, mmiq' = Append(mmiq, m),
               m.kind \in SocketEvents
                           \cup {"DNR", "DATA_ARRIVED", "GUI_DESTROYED", "GOTO_URL"}
        PROVE  Precede(mmiq', E, G)
    <3>1. m.kind \notin E
      BY <2>3 DEF SocketEvents
    <3> QED  BY <1>0, <2>3, <3>1, PrecedeAdded DEF Ending
  <2>4. CASE UNCHANGED mmiq
    BY <2>4 DEF Ending
  <2>5. CASE OnClosed
    BY <2>1, <2>2, <2>5, EndStep, MessagesStep DEF Consume
  <2> QED  BY <2>1, <2>3, <2>4, <2>5, MessagesStep
<1> QED  BY <1>1, <1>3, <1>4, <1>5 DEF Ending

\* The invariant for EndIsLast.
EndInv == OrderInv /\ (Calm => Current /\ Stale /\ Ending)

LEMMA EndInit == Init => EndInv
BY OrderInit, CurrentInit, StaleInit, EndingInit DEF EndInv

\* When a connection is opened no end of an earlier one is queued.
LEMMA OpensQuiet ==
  ASSUME OrderInv, Calm, hp = "socket"
  PROVE  ~ Queued("end_socket")
<1>1. Connecting /\ connect_state = 0
  BY DEF Connecting, OrderInv, PageInv, IInv, OneConnecting
<1>2. CASE HostIsNumeric
  BY <1>1, <1>2 DEF OrderInv, PageInv, PostInv, EndOnce
<1>3. CASE ~ HurriedUser
  BY <1>1, <1>3 DEF OrderInv, PageInv, IInv, UrlKept, UrlAwaits, SendAwaits, Building
<1> QED  BY <1>2, <1>3 DEF Calm

LEMMA EndInvStep == EndInv /\ [Next]_<<vars, world>> => EndInv'
<1>a. SUFFICES ASSUME EndInv, [Next]_<<vars, world>> PROVE EndInv'
  OBVIOUS
<1>0. OrderInv'
  BY <1>a, OrderStep DEF EndInv
<1>1. CASE Next
  <2>1. /\ Types /\ OneOpening /\ OneLoading /\ UrlFreed /\ ClosesOnce
        /\ ViewHeld /\ DataFirst /\ StopsDone
    BY <1>a DEF EndInv, OrderInv, PageInv, IInv, ViewInv
  <2>2. Calm' <=> Calm
    BY <1>1 DEF Next, Calm, HostIsNumeric, HurriedUser
  <2>3. Calm => OneConnecting /\ SockHeld /\ SentOnce /\ Header /\ Current /\ Stale /\ Ending
    BY <1>a DEF EndInv, OrderInv, PageInv, IInv
  <2>4. Calm => (hp = "socket" => ~ Queued("end_socket"))
    BY <1>a, OpensQuiet DEF EndInv
  <2>5. Calm => Current'
    BY <1>1, <2>1, <2>3, CurrentStep
  <2>6. Calm => Stale'
    BY <1>1, <2>1, <2>3, <2>4, StaleStep
  <2>7. Calm => Ending'
    BY <1>1, <2>1, <2>3, EndingStep
  <2> QED  BY <1>0, <2>2, <2>5, <2>6, <2>7 DEF EndInv
<1>2. CASE UNCHANGED <<vars, world>>
  <2>1. UNCHANGED <<sock, FNCACHE, STOPPED, view, opened, helperq, hp, mmiq, conns, cache, ended,
                    world>>
    BY <1>2 DEF vars, inetVars, viewVars, helperVars, osVars, pageVars
  <2>2. /\ (Posting' <=> Posting) /\ (Alive(sock)' <=> Alive(sock))
        /\ \A p : (Queued(p)' <=> Queued(p))
        /\ \A K : (Sent(K)' <=> Sent(K))
        /\ (Stopping' <=> Stopping) /\ (Calm' <=> Calm)
    BY <2>1 DEF Posting, Alive, Queued, Sent, Stopping, Calm, HostIsNumeric, HurriedUser
  <2>3. Current => Current'
    BY <2>1, <2>2 DEF Current, Pages
  <2>4. Stale => Stale'
    BY <2>1, <2>2 DEF Stale
  <2>5. Ending => Ending'
    BY <2>1, <2>2 DEF Ending, Over, Freed, Freeing
  <2> QED  BY <1>a, <1>0, <2>2, <2>3, <2>4, <2>5 DEF EndInv
<1> QED  BY <1>a, <1>1, <1>2

\* The cache file of a page that was told its end stays as it is.
LEMMA FileLasts ==
  ASSUME Types, ViewHeld, Current, Ending, Next, NEW p \in Pages, p = opened => Over
  PROVE  cache'[p] = cache[p]
<1>0. opened \in Pages /\ NULL \notin Pages
  BY NullAssumption DEF Types, ViewTypes
<1>1. CASE get_answer
  <2> SUFFICES ASSUME cache'[p] # cache[p] PROVE FALSE
    OBVIOUS
  <2>1. FNCACHE = p /\ Alive(sock)
    BY <1>1, WrittenBy
  <2>2. Over /\ FNCACHE # NULL
    BY <1>0, <2>1 DEF Current
  <2> QED  BY <2>1, <2>2 DEF Ending, Freed, Freeing
<1>2. CASE StartINET
  <2>1. Queued("StartGetFile")
    BY <1>2, DequeueStep DEF StartINET, Queued
  <2>2. cache[opened] = <<>> /\ (view_url \in Pages => view_url = opened)
    BY <1>0, <2>1 DEF Current, ViewHeld
  <2> QED  BY <1>2, <2>2 DEF StartINET, Types, ViewTypes, PageTypes
<1> QED  BY <1>1, <1>2, CacheChanges

\* A page that has ended is left alone by every step.
LEMMA LastStep ==
  ASSUME Types, OneLoading, UrlFreed, OneOpening, StopsDone, ViewHeld, Current, Ending, Next,
         NEW p \in Pages, ended[p]
  PROVE  shown'[p] = shown[p] /\ cache'[p] = cache[p]
<1>0. /\ cache \in [Pages -> Seq(Chunks)] /\ shown \in [Pages -> Seq(Chunks)]
      /\ opened \in Pages /\ Pages \subseteq Nat /\ NULL \notin Pages
  BY NullAssumption DEF Types, PageTypes, ViewTypes, Pages
<1>1. p = opened => Over
  BY DEF Over
<1>2. shown'[p] = shown[p]
  <2>1. CASE OnDataArrived
    <3>1. view # p
      <4>1. Sent({"DATA_ARRIVED"})
        BY <2>1, ConsumeStep DEF OnDataArrived, Sent
      <4>2. view = p => p = opened
        BY <1>0, PagesAssumption DEF Current, Pages
      <4> QED  BY <4>1, <4>2 DEF Ending
    <3> QED  BY <1>0, <2>1, <3>1 DEF OnDataArrived
  <2>2. OnGotoUrl \/ Leave => UNCHANGED shown
    BY DEF OnGotoUrl, Leave, pageVars
  <2> QED  BY <2>1, <2>2, ViewChanges
<1>3. cache'[p] = cache[p]
  BY <1>1, FileLasts
<1> QED  BY <1>2, <1>3

\* When a page was told that its data have ended, nothing is added to it or to its
\* cache file any more: the answer of a connection in its two closes, or of one that
\* outlived the page before, never comes after DATA_END.  Under the same hypothesis.
THEOREM NothingAfterEnd ==
  (\A w \in Worlds : w.numeric \/ ~ w.hurried) => (Spec => EndIsLast)
<1> SUFFICES ASSUME \A w \in Worlds : w.numeric \/ ~ w.hurried
             PROVE  Spec => EndIsLast
  OBVIOUS
<1>1. EndInv /\ [Next]_<<vars, world>>
      => [\A p \in Pages : ended[p] => shown'[p] = shown[p] /\ cache'[p] = cache[p]]_vars
  <2> SUFFICES ASSUME EndInv, Next, NEW p \in Pages, ended[p]
               PROVE  shown'[p] = shown[p] /\ cache'[p] = cache[p]
    BY DEF vars
  <2>1. Calm
    BY DEF EndInv, OrderInv, PageInv, IInv, Types, Calm, HostIsNumeric, HurriedUser
  <2> QED  BY <2>1, LastStep DEF EndInv, OrderInv, PageInv, IInv, ViewInv
<1> QED  BY <1>1, EndInit, EndInvStep, PTL DEF Spec, EndIsLast
=============================================================================
