-------------------------- MODULE InetCacheProofs ---------------------------
(***************************************************************************)
(* The cache file holds what the page shows, and at the end the whole       *)
(* answer: for a user who waits for the request.                           *)
(***************************************************************************)
EXTENDS InetProofs, FiniteSetTheorems

\* What such a user may count on.
LEMMA Patient ==
  ASSUME EndInv, ~ HurriedUser
  PROVE  /\ Types /\ OneOpening /\ OneLoading /\ UrlFreed /\ ClosesOnce
         /\ OneConnecting /\ SockHeld /\ UrlKept /\ UrlAwaits /\ SendAwaits /\ StopsFirst
         /\ ViewHeld /\ DataFirst /\ StopsDone /\ Cleaned /\ OwnData /\ OwnCache
         /\ SentOnce /\ Header /\ Begins /\ Passing /\ Caching
         /\ Current /\ Stale /\ Ending
BY DEF EndInv, OrderInv, PageInv, IInv, ViewInv, UrlKept, Calm

\* The pieces cs are among those of ds; cs is how ds begins.
Within(cs, ds) == \A i \in DOMAIN cs : \E j \in DOMAIN ds : ds[j] = cs[i]
Leads(cs, ds) == Len(cs) <= Len(ds) /\ \A i \in 1 .. Len(cs) : ds[i] = cs[i]

LEMMA Numbered ==
  ASSUME NEW cs \in Seq(Chunks)
  PROVE  /\ Len(cs) \in Nat /\ DOMAIN cs = 1 .. Len(cs)
         /\ \A i \in 1 .. Len(cs) : cs[i].k \in Nat
         /\ cs = <<>> <=> Len(cs) = 0
<1>1. \A i \in 1 .. Len(cs) : cs[i] \in Chunks
  OBVIOUS
<1>2. \A c \in Chunks : c.k \in Nat
  BY DEF Chunks
<1> QED  BY <1>1, <1>2

\* Pieces that follow each other are numbered on from the first.
LEMMA CountUp ==
  ASSUME NEW cs \in Seq(Chunks), Contiguous(cs)
  PROVE  \A i \in 1 .. Len(cs) : cs[i].k = cs[1].k + i - 1
<1> DEFINE bad == {i \in 1 .. Len(cs) : cs[i].k # cs[1].k + i - 1}
<1>0. Len(cs) \in Nat /\ \A i \in 1 .. Len(cs) : cs[i].k \in Nat
  BY Numbered
<1>1. CASE bad = {}
  BY <1>1
<1>2. CASE bad # {}
  <2>1. bad \in SUBSET Nat
    BY <1>0
  <2>2. PICK m \in bad : \A x \in bad : m <= x
    BY <1>2, <2>1, MinOfNats
  <2>3. m \in 1 .. Len(cs) /\ cs[m].k # cs[1].k + m - 1
    BY <2>2
  <2>4. m # 1
    BY <1>0, <2>3
  <2>5. m - 1 \in 1 .. Len(cs) - 1 /\ m - 1 \in 1 .. Len(cs)
    BY <1>0, <2>3, <2>4
  <2>6. cs[m - 1].k = cs[1].k + (m - 1) - 1
    BY <1>0, <2>2, <2>3, <2>5
  <2>7. cs[(m - 1) + 1].k = cs[m - 1].k + 1
    BY <2>5 DEF Contiguous
  <2>8. m \in Nat /\ (m - 1) + 1 = m /\ 1 \in 1 .. Len(cs)
    BY <1>0, <2>3
  <2>9. cs[1].k \in Nat
    BY <1>0, <2>8
  <2>10. cs[m].k = cs[m - 1].k + 1
    BY <2>7, <2>8
  <2>11. cs[m].k = cs[1].k + m - 1
    BY <2>6, <2>8, <2>9, <2>10
  <2> QED  BY <2>3, <2>11
<1> QED  BY <1>1, <1>2

\* The pieces of a file that follow what is shown of it come next in the file.
LEMMA Continues ==
  ASSUME NEW s \in Seq(Chunks), NEW a \in Seq(Chunks), NEW t \in Seq(Chunks),
         a # <<>>, Contiguous(a), Contiguous(t), Leads(s, t), Within(a, t), Links(s, a),
         s = <<>> => a[1] = t[1]
  PROVE  Leads(s \o a, t)
<1> DEFINE n == Len(s)
<1>0. /\ n \in Nat /\ Len(a) \in Nat \ {0} /\ Len(t) \in Nat /\ Len(s \o a) = n + Len(a)
      /\ DOMAIN a = 1 .. Len(a) /\ DOMAIN t = 1 .. Len(t)
      /\ \A i \in 1 .. Len(a) : a[i].k \in Nat
      /\ \A i \in 1 .. Len(t) : t[i].k \in Nat
      /\ n = 0 => s = <<>>
  BY Numbered
<1>1. 1 \in 1 .. Len(t)
  <2>1. 1 \in DOMAIN a
    BY <1>0
  <2> QED  BY <1>0, <2>1 DEF Within
<1>2. a[1].k = t[1].k + n
  <2>1. CASE n = 0
    BY <1>0, <1>1, <2>1
  <2>2. CASE n # 0
    <3>1. n \in 1 .. n /\ n \in 1 .. Len(t) /\ s # <<>>
      BY <1>0, <2>2 DEF Leads
    <3>2. t[n] = s[n] /\ a[1].k = s[n].k + 1
      BY <3>1 DEF Leads, Links
    <3>3. t[n].k = t[1].k + n - 1
      BY <3>1, CountUp
    <3> QED  BY <1>0, <1>1, <3>1, <3>2, <3>3
  <2> QED  BY <2>1, <2>2
<1>3. ASSUME NEW i \in 1 .. Len(a)
      PROVE  n + i \in 1 .. Len(t) /\ t[n + i] = a[i]
  <2>1. PICK j \in 1 .. Len(t) : t[j] = a[i]
    BY <1>0 DEF Within
  <2>2. t[j].k = t[1].k + j - 1 /\ a[i].k = a[1].k + i - 1
    BY <2>1, CountUp
  <2>3. t[1].k \in Nat
    BY <1>0, <1>1
  <2>4. j = n + i
    BY <1>0, <1>2, <2>1, <2>2, <2>3
  <2> QED  BY <2>1, <2>4
<1>4. n + Len(a) <= Len(t)
  BY <1>0, <1>3
<1>5. ASSUME NEW i \in 1 .. n + Len(a) PROVE t[i] = (s \o a)[i]
  <2>1. CASE i <= n
    <3>1. i \in 1 .. n
      BY <2>1
    <3> QED  BY <3>1, ConcatProperties DEF Leads
  <2>2. CASE i > n
    <3>1. i - n \in 1 .. Len(a) /\ n + (i - n) = i
      BY <1>0, <2>2
    <3>2. (s \o a)[i] = a[i - n]
      BY <1>0, <2>2, <3>1, ConcatProperties
    <3> QED  BY <1>3, <3>1, <3>2
  <2> QED  BY <1>0, <2>1, <2>2
<1> QED  BY <1>0, <1>4, <1>5 DEF Leads

\* What is added to a file changes nothing of what was there.
LEMMA FileGrown ==
  ASSUME NEW t \in Seq(Chunks), NEW c \in Seq(Chunks)
  PROVE  /\ t \o c \in Seq(Chunks) /\ Within(c, t \o c)
         /\ \A cs : Within(cs, t) => Within(cs, t \o c)
         /\ \A cs \in Seq(Chunks) : Leads(cs, t) => Leads(cs, t \o c)
         /\ t # <<>> => (t \o c)[1] = t[1]
         /\ t = <<>> => t \o c = c
<1>0. /\ t \o c \in Seq(Chunks) /\ Len(t) \in Nat /\ Len(c) \in Nat
      /\ Len(t \o c) = Len(t) + Len(c)
      /\ DOMAIN t = 1 .. Len(t) /\ DOMAIN c = 1 .. Len(c) /\ DOMAIN (t \o c) = 1 .. Len(t) + Len(c)
      /\ \A i \in 1 .. Len(t) : (t \o c)[i] = t[i]
      /\ \A i \in 1 .. Len(c) : Len(t) + i \in 1 .. Len(t) + Len(c) /\ (t \o c)[Len(t) + i] = c[i]
  BY ConcatProperties
<1>1. Within(c, t \o c)
  BY <1>0 DEF Within
<1>2. ASSUME NEW cs, Within(cs, t) PROVE Within(cs, t \o c)
  BY <1>0, <1>2 DEF Within
<1>3. ASSUME NEW cs \in Seq(Chunks), Leads(cs, t) PROVE Leads(cs, t \o c)
  <2>1. Len(cs) \in Nat /\ Len(cs) <= Len(t)
    BY <1>3 DEF Leads
  <2> QED  BY <1>0, <1>3, <2>1 DEF Leads
<1>4. t # <<>> => (t \o c)[1] = t[1]
  <2> SUFFICES ASSUME t # <<>> PROVE (t \o c)[1] = t[1]
    OBVIOUS
  <2>1. 1 \in 1 .. Len(t)
    BY <1>0
  <2> QED  BY <1>0, <2>1
<1>5. t = <<>> => t \o c = c
  OBVIOUS
<1> QED  BY <1>0, <1>1, <1>2, <1>3, <1>4, <1>5

\* All data on the way to the view are in the file t; the first of them begin it.
Arriving(q, t) == \A i \in DOMAIN q : q[i].kind = "DATA_ARRIVED" => Within(q[i].arg, t)
Opens(q, t) ==
  \A i \in DOMAIN q :
    q[i].kind = "DATA_ARRIVED" /\ (\A j \in DOMAIN q : j < i => q[j].kind # "DATA_ARRIVED")
      => q[i].arg[1] = t[1]

LEMMA FileTaken ==
  ASSUME NEW q \in Seq(Messages), q # <<>>, NEW t
  PROVE  /\ Arriving(q, t) => Arriving(Tail(q), t)
         /\ Arriving(q, t) /\ Head(q).kind = "DATA_ARRIVED" => Within(Head(q).arg, t)
         /\ Opens(q, t) /\ Head(q).kind # "DATA_ARRIVED" => Opens(Tail(q), t)
         /\ Opens(q, t) /\ Head(q).kind = "DATA_ARRIVED" => Head(q).arg[1] = t[1]
<1> DEFINE n == Len(q)
<1>0. /\ n \in Nat \ {0} /\ DOMAIN q = 1 .. n /\ DOMAIN Tail(q) = 1 .. n - 1 /\ Head(q) = q[1]
      /\ \A i \in 1 .. n - 1 : Tail(q)[i] = q[i + 1] /\ i + 1 \in 1 .. n
  <2>1. n \in Nat
    OBVIOUS
  <2> QED  BY <2>1, TakenIndices
<1>1. Arriving(q, t) => Arriving(Tail(q), t)
  BY <1>0 DEF Arriving
<1>2. Arriving(q, t) /\ Head(q).kind = "DATA_ARRIVED" => Within(Head(q).arg, t)
  BY <1>0 DEF Arriving
<1>3. ASSUME Opens(q, t), Head(q).kind # "DATA_ARRIVED" PROVE Opens(Tail(q), t)
  <2> SUFFICES ASSUME NEW i \in 1 .. n - 1, Tail(q)[i].kind = "DATA_ARRIVED",
                      \A j \in 1 .. n - 1 : j < i => Tail(q)[j].kind # "DATA_ARRIVED"
               PROVE  Tail(q)[i].arg[1] = t[1]
    BY <1>0 DEF Opens
  <2>1. q[i + 1] = Tail(q)[i] /\ i + 1 \in 1 .. n
    BY <1>0
  <2>2. ASSUME NEW j \in 1 .. n, j < i + 1 PROVE q[j].kind # "DATA_ARRIVED"
    <3>1. CASE j = 1
      BY <1>0, <1>3, <3>1
    <3>2. CASE j # 1
      <4>1. j - 1 \in 1 .. n - 1 /\ j - 1 < i /\ (j - 1) + 1 = j
        BY <1>0, <2>2, <3>2
      <4>2. Tail(q)[j - 1] = q[j]
        BY <1>0, <4>1
      <4> QED  BY <4>1, <4>2
    <3> QED  BY <3>1, <3>2
  <2> QED  BY <1>0, <1>3, <2>1, <2>2 DEF Opens
<1>4. Opens(q, t) /\ Head(q).kind = "DATA_ARRIVED" => Head(q).arg[1] = t[1]
  BY <1>0 DEF Opens
<1> QED  BY <1>1, <1>2, <1>3, <1>4

LEMMA FileAdded ==
  ASSUME NEW q \in Seq(Messages), NEW m \in Messages, NEW t
  PROVE  /\ Arriving(q, t) /\ (m.kind = "DATA_ARRIVED" => Within(m.arg, t))
              => Arriving(Append(q, m), t)
         /\ Opens(q, t) /\ (m.kind = "DATA_ARRIVED" /\ ~ Has(q, {"DATA_ARRIVED"}) => m.arg[1] = t[1])
              => Opens(Append(q, m), t)
<1> DEFINE n == Len(q)
<1>0. /\ n \in Nat /\ DOMAIN q = 1 .. n /\ DOMAIN Append(q, m) = 1 .. n + 1
      /\ \A i \in 1 .. n : Append(q, m)[i] = q[i]
      /\ Append(q, m)[n + 1] = m
  BY AddedIndices
<1>1. Arriving(q, t) /\ (m.kind = "DATA_ARRIVED" => Within(m.arg, t)) => Arriving(Append(q, m), t)
  BY <1>0 DEF Arriving
<1>2. ASSUME Opens(q, t), m.kind = "DATA_ARRIVED" /\ ~ Has(q, {"DATA_ARRIVED"}) => m.arg[1] = t[1]
      PROVE  Opens(Append(q, m), t)
  <2> SUFFICES ASSUME NEW i \in 1 .. n + 1, Append(q, m)[i].kind = "DATA_ARRIVED",
                      \A j \in 1 .. n + 1 : j < i => Append(q, m)[j].kind # "DATA_ARRIVED"
               PROVE  Append(q, m)[i].arg[1] = t[1]
    BY <1>0 DEF Opens
  <2>1. CASE i \in 1 .. n
    <3>1. \A j \in 1 .. n : j < i => q[j].kind # "DATA_ARRIVED"
      BY <1>0
    <3> QED  BY <1>0, <1>2, <2>1, <3>1 DEF Opens
  <2>2. CASE i = n + 1
    <3>1. \A j \in 1 .. n : q[j].kind # "DATA_ARRIVED"
      BY <1>0, <2>2
    <3> QED  BY <1>0, <1>2, <2>2, <3>1 DEF Has
  <2> QED  BY <1>0, <2>1, <2>2
<1> QED  BY <1>1, <1>2


\* What a page shows is in its cache file, and so are the data on their way to it.
\* As long as nothing was shown, what comes first is what the file begins with.
Stored ==
  /\ sock # NoSock => FNCACHE # NULL
  /\ \A p \in Pages : Leads(shown[p], cache[p])
  /\ view # 0 => Arriving(mmiq, cache[opened])
  /\ Posting => Within(seg, cache[opened])
  /\ view # 0 /\ shown[opened] = <<>> => Opens(mmiq, cache[opened])
  /\ ~ STOPPED /\ shown[opened] = <<>> /\ ~ Sent({"DATA_ARRIVED"}) =>
       cache[opened] = IF Posting THEN seg ELSE <<>>

LEMMA StoredInit == Init => Stored
<1> SUFFICES ASSUME Init PROVE Stored
  OBVIOUS
<1>1. /\ 1 \in Pages /\ sock = NoSock /\ opened = 1 /\ mmiq = <<>> /\ ~ Posting
      /\ \A p \in Pages : cache[p] = <<>> /\ shown[p] = <<>>
  BY PagesAssumption DEF Init, Pages, Posting
<1>2. Leads(<<>>, <<>>) /\ \A t : Arriving(<<>>, t) /\ Opens(<<>>, t)
  BY DEF Leads, Arriving, Opens
<1> QED  BY <1>1, <1>2 DEF Stored

\* The socket changes when one is opened or given up; the file's name is kept with it.
LEMMA SockSource ==
  ASSUME EndInv, ~ HurriedUser, Next
  PROVE  \/ OpenSocket /\ FNCACHE # NULL /\ UNCHANGED FNCACHE
         \/ sock' = NoSock
         \/ UNCHANGED sock /\ (UNCHANGED FNCACHE \/ FNCACHE' # NULL)
<1>1. OpenSocket => FNCACHE # NULL /\ UNCHANGED FNCACHE
  <2> SUFFICES ASSUME OpenSocket PROVE FNCACHE # NULL /\ UNCHANGED FNCACHE
    OBVIOUS
  <2>1. Building
    BY DEF OpenSocket, Building, Connecting
  <2> QED  BY <2>1, Patient DEF OpenSocket, UrlAwaits, ViewHeld
<1>2. StartINET => UNCHANGED sock /\ (UNCHANGED FNCACHE \/ FNCACHE' # NULL)
  BY DEF StartINET
<1>3. Connect => UNCHANGED FNCACHE /\ (sock' = NoSock \/ UNCHANGED sock)
  BY DEF Connect
<1>4. free_socket \/ StopINETFrees => sock' = NoSock
  BY DEF free_socket, StopINETFrees, FreeSocket
<1>5. StartINETQueues \/ create_connect \/ ConnectReturns \/ SendPost \/ ResumeSend \/ bsend
      \/ get_answer \/ PostData \/ end_socket \/ StopINET \/ GotoLink
      => UNCHANGED <<sock, FNCACHE>>
  BY DEF StartINETQueues, create_connect, ConnectReturns, SendPost, ResumeSend, bsend,
         get_answer, PostData, end_socket, StopINET, GotoLink, inetVars
<1>6. Mmi \/ User \/ Network => UNCHANGED <<sock, FNCACHE>>
  BY DEF Mmi, User, OnDNR, OnConnected, OnDataRead, OnBufferFree, OnClosed,
         OnDataArrived, OnDataEnd, OnGotoUrl, OnGuiDestroyed, resend, Leave, PressStop,
         Network, NetConnects, NetBufferFree, ServerAnswers, RemoteCloses, LocalCloses,
         DnsAnswers, inetVars
<1> QED  BY <1>1, <1>2, <1>3, <1>4, <1>5, <1>6 DEF Next, Helper

\* Files only grow, by the piece get_answer passes on to the view.
LEMMA FileStep ==
  ASSUME EndInv, ~ HurriedUser, sock # NoSock => FNCACHE # NULL, Next
  PROVE  \/ UNCHANGED cache /\ (Posting' => Posting /\ UNCHANGED seg)
         \/ /\ get_answer /\ ~ Posting /\ Posting' /\ UNCHANGED opened
            /\ seg' \in Seq(Chunks) /\ seg' # <<>>
            /\ cache' = [cache EXCEPT ![opened] = cache[opened] \o seg']
<1>0. /\ cache \in [Pages -> Seq(Chunks)] /\ opened \in Pages /\ NULL \notin Pages
      /\ NoSock \notin Socks
  BY Patient, NullAssumption, SocksAssumption DEF Types, PageTypes, ViewTypes, NoSock
<1>1. CASE get_answer
  <2>1. hp = "idle" /\ UNCHANGED opened
    BY <1>1 DEF get_answer, Starts, viewVars
  <2>2. CASE UNCHANGED <<seg, hp, cache>>
    BY <2>2 DEF Posting
  <2>3. CASE Reads /\ Passes
    <3>1. FNCACHE # NULL
      BY <1>0, <2>3 DEF Reads, Alive
    <3>2. FNCACHE = opened
      BY <3>1, Patient DEF Current
    <3> QED  BY <1>1, <2>1, <2>3, <3>1, <3>2 DEF Passes, writecache, Posting
  <2> QED  BY <1>1, <2>2, <2>3, Patient, AnswerPieces
<1>2. CASE ~ get_answer
  <2>1. Posting' => Posting /\ UNCHANGED seg
    BY <1>2, Patient, PostingStep
  <2>2. UNCHANGED cache
    <3>1. CASE StartINET /\ view_url \in Pages /\ cache' = [cache EXCEPT ![view_url] = <<>>]
      <4>1. Queued("StartGetFile")
        BY <3>1, Patient, DequeueStep DEF StartINET, Queued
      <4>2. cache[opened] = <<>> /\ view_url = opened
        BY <1>0, <3>1, <4>1, Patient DEF Current, ViewHeld
      <4> QED  BY <1>0, <3>1, <4>2
    <3> QED  BY <1>2, <3>1, Patient, CacheChanges
  <2> QED  BY <2>1, <2>2
<1> QED  BY <1>1, <1>2


\* Where a message comes from, and who takes it.
Takes(m) == (m.kind = "DATA_READ" => OnDataRead) /\ (m.kind = "DATA_ARRIVED" => OnDataArrived)
Sends(m) ==
  /\ m.kind = "DATA_READ" => m.arg \in Socks /\ ServerAnswers(m.arg)
  /\ m.kind = "DATA_ARRIVED" => PostData
  /\ m.kind = "DNR" => dnr.open # {}

LEMMA MessageSource ==
  ASSUME Types, Next
  PROVE  \/ UNCHANGED mmiq
         \/ /\ mmiq # <<>> /\ Head(mmiq) \in Messages /\ Tail(mmiq) \in Seq(Messages)
            /\ Takes(Head(mmiq))
            /\ \/ mmiq' = Tail(mmiq)
               \/ /\ mmiq' = Append(Tail(mmiq), Msg("DATA_END", NULL))
                  /\ Msg("DATA_END", NULL) \in Messages
         \/ \E m \in Messages : mmiq' = Append(mmiq, m) /\ Sends(m)
<1>0. /\ mmiq \in Seq(Messages) /\ Msg("DATA_END", NULL) \in Messages
      /\ \A q \in dnr.open : q \in Nat
  BY QueueTypes DEF Types, OsTypes
<1>1. mmiq # <<>> => Head(mmiq) \in Messages /\ Tail(mmiq) \in Seq(Messages)
  BY <1>0, TakenIndices
<1>2. OnDataRead \/ OnDataArrived => mmiq # <<>> /\ mmiq' = Tail(mmiq) /\ Takes(Head(mmiq))
  BY DEF OnDataRead, OnDataArrived, Handles, Consume, Takes
<1>3. OnDNR \/ OnConnected \/ OnBufferFree \/ OnDataEnd \/ OnGotoUrl
      \/ OnGuiDestroyed => mmiq # <<>> /\ mmiq' = Tail(mmiq) /\ Takes(Head(mmiq))
  BY DEF OnDNR, OnConnected, OnBufferFree, OnDataEnd, OnGotoUrl, OnGuiDestroyed,
         Handles, Consume, Takes
<1>4. OnClosed => /\ mmiq # <<>> /\ Takes(Head(mmiq))
                  /\ mmiq' = Tail(mmiq) \/ mmiq' = Append(Tail(mmiq), Msg("DATA_END", NULL))
  BY DEF OnClosed, Handles, Consume, Takes
<1>5. StartINET \/ StartINETQueues \/ create_connect \/ OpenSocket \/ Connect
      \/ ConnectReturns \/ SendPost \/ ResumeSend \/ bsend \/ get_answer \/ end_socket
      \/ free_socket \/ StopINET \/ StopINETFrees \/ resend \/ PressStop => UNCHANGED mmiq
  BY DEF StartINET, StartINETQueues, create_connect, OpenSocket, Connect, ConnectReturns,
         SendPost, ResumeSend, bsend, get_answer, end_socket, free_socket, StopINET,
         StopINETFrees, FreeSocket, resend, PressStop, osVars
<1>6. Network \/ Leave \/ GotoLink \/ PostData
        => UNCHANGED mmiq \/ \E m \in Messages : mmiq' = Append(mmiq, m) /\ Sends(m)
  <2>1. ASSUME NEW k, NEW x, Msg(k, x) \in Messages, Sends(Msg(k, x)), Post(Msg(k, x))
        PROVE  \E m \in Messages : mmiq' = Append(mmiq, m) /\ Sends(m)
    BY <2>1 DEF Post
  <2>2. ASSUME NEW s \in Socks, NetConnects(s) \/ NetBufferFree(s) \/ ServerAnswers(s)
                                \/ RemoteCloses(s) \/ LocalCloses(s)
        PROVE  \E k \in SocketEvents : Post(Msg(k, s)) /\ Sends(Msg(k, s))
    BY <2>2 DEF NetConnects, NetBufferFree, ServerAnswers, RemoteCloses, LocalCloses,
                SocketEvents, Sends, Msg
  <2>3. \A s \in Socks, k \in SocketEvents : Msg(k, s) \in Messages
    BY QueueTypes
  <2>4. ASSUME NEW q \in dnr.open, DnsAnswers(q)
        PROVE  Post(Msg("DNR", q)) /\ Sends(Msg("DNR", q)) /\ Msg("DNR", q) \in Messages
    BY <1>0, <2>4, QueueTypes DEF DnsAnswers, Sends, Msg
  <2>5. Network => \E m \in Messages : mmiq' = Append(mmiq, m) /\ Sends(m)
    BY <2>1, <2>2, <2>3, <2>4 DEF Network
  <2>6. Leave => Post(Msg("GUI_DESTROYED", NULL)) /\ Sends(Msg("GUI_DESTROYED", NULL))
    BY DEF Leave, Sends, Msg
  <2>7. GotoLink => Post(Msg("GOTO_URL", NULL)) /\ Sends(Msg("GOTO_URL", NULL))
    BY DEF GotoLink, Sends, Msg
  <2>8. Msg("GUI_DESTROYED", NULL) \in Messages /\ Msg("GOTO_URL", NULL) \in Messages
    BY QueueTypes DEF Opening
  <2>9. PostData => \/ UNCHANGED mmiq
                    \/ Post(Msg("DATA_ARRIVED", seg)) /\ Sends(Msg("DATA_ARRIVED", seg))
    BY DEF PostData, Sends, Msg
  <2>10. Msg("DATA_ARRIVED", seg) \in Messages
    BY QueueTypes DEF Types, HelperTypes
  <2> QED  BY <2>1, <2>5, <2>6, <2>7, <2>8, <2>9, <2>10
<1> QED  BY <1>0, <1>1, <1>2, <1>3, <1>4, <1>5, <1>6 DEF Next, Helper, Mmi, User

\* The data in the queue of the MMI thread are added by PostData and taken by
\* OnDataArrived.
LEMMA QuietData ==
  ASSUME Types, Next, ~ PostData, ~ OnDataArrived
  PROVE  \/ UNCHANGED mmiq
         \/ /\ mmiq # <<>> /\ Head(mmiq).kind # "DATA_ARRIVED" /\ Tail(mmiq) \in Seq(Messages)
            /\ \/ mmiq' = Tail(mmiq)
               \/ /\ mmiq' = Append(Tail(mmiq), Msg("DATA_END", NULL))
                  /\ Msg("DATA_END", NULL) \in Messages
         \/ \E m \in Messages : m.kind # "DATA_ARRIVED" /\ mmiq' = Append(mmiq, m)
BY MessageSource DEF Takes, Sends

\* The piece HELPER holds is held until PostData.
LEMMA PostingHeld ==
  ASSUME Next, Posting, ~ PostData
  PROVE  Posting'
<1>1. ~ Helper
  BY DEF Helper, StartINET, StartINETQueues, create_connect, OpenSocket, Connect,
         ConnectReturns, SendPost, ResumeSend, bsend, get_answer, end_socket, free_socket,
         StopINET, StopINETFrees, GotoLink, Starts, Posting
<1>2. Mmi \/ User \/ Network => UNCHANGED hp
  BY DEF Mmi, User, OnDNR, OnConnected, OnDataRead, OnBufferFree, OnClosed, OnDataArrived,
         OnDataEnd, OnGotoUrl, OnGuiDestroyed, resend, Leave, PressStop, Network,
         NetConnects, NetBufferFree, ServerAnswers, RemoteCloses, LocalCloses, DnsAnswers,
         helperVars
<1> QED  BY <1>1, <1>2 DEF Next, Posting

LEMMA StoredStep ==
  ASSUME EndInv, ~ HurriedUser, Stored, Next
  PROVE  Stored'
<1>0. /\ cache \in [Pages -> Seq(Chunks)] /\ shown \in [Pages -> Seq(Chunks)]
      /\ opened \in Pages /\ Pages \subseteq Nat /\ 0 \notin Pages /\ NoSock \notin Socks
      /\ mmiq \in Seq(Messages) /\ seg \in Seq(Chunks)
      /\ view \in {0, opened} /\ (~ STOPPED => view # 0)
      /\ cache[opened] \in Seq(Chunks) /\ shown[opened] \in Seq(Chunks)
      /\ Types
  BY Patient, SocksAssumption DEF Types, PageTypes, ViewTypes, OsTypes, HelperTypes, Current,
     ViewHeld, NoSock, Pages
<1>1. sock' # NoSock => FNCACHE' # NULL
  BY SockSource DEF Stored
<1>2. CASE OnGotoUrl
  <2>1. sock = NoSock
    <3>1. Handles("GOTO_URL") /\ Consume
      BY <1>2 DEF OnGotoUrl
    <3>2. Sent({"GOTO_URL"})
      BY <1>0, <3>1, ConsumeStep DEF Sent
    <3> QED  BY <3>2, Patient DEF StopsFirst
  <2>2. /\ opened' = opened + 1 /\ opened + 1 \in Pages /\ UNCHANGED <<shown, cache, hp>>
        /\ ~ Has(mmiq', {"DATA_ARRIVED"})
    BY <1>2, Patient, OpensBlank
  <2>3. ~ Posting'
    BY <1>0, <2>1, <2>2, Patient DEF Current, Posting, Alive
  <2>4. opened + 1 > opened
    BY <1>0
  <2>5. cache'[opened'] = <<>>
    BY <2>2, <2>4, Patient DEF Current
  <2>6. \A t : Arriving(mmiq', t) /\ Opens(mmiq', t)
    BY <2>2 DEF Has, Arriving, Opens
  <2>7. (\A p \in Pages : Leads(shown[p], cache[p]))'
    BY <2>2 DEF Stored, Pages
  <2> QED  BY <1>1, <2>3, <2>5, <2>6, <2>7 DEF Stored
<1>3. CASE get_answer /\ cache' # cache
  <2>1. /\ ~ Posting /\ Posting' /\ UNCHANGED opened
        /\ seg' \in Seq(Chunks) /\ seg' # <<>>
        /\ cache' = [cache EXCEPT ![opened] = cache[opened] \o seg']
    BY <1>3, FileStep DEF Stored
  <2>2. UNCHANGED <<shown, view, STOPPED, mmiq>>
    BY <1>3 DEF get_answer, viewVars
  <2> DEFINE t == cache[opened]
             u == t \o seg'
  <2>3. /\ Within(seg', u) /\ t \in Seq(Chunks)
        /\ \A cs : Within(cs, t) => Within(cs, u)
        /\ \A cs \in Seq(Chunks) : Leads(cs, t) => Leads(cs, u)
        /\ t # <<>> => u[1] = t[1]
        /\ t = <<>> => u = seg'
    BY <1>0, <2>1, FileGrown
  <2>4. cache'[opened'] = u /\ \A p \in Pages : p # opened => cache'[p] = cache[p]
    BY <1>0, <2>1
  <2> HIDE DEF u
  <2>5. (\A p \in Pages : Leads(shown[p], cache[p]))'
    <3> SUFFICES ASSUME NEW p \in Pages PROVE Leads(shown[p], cache'[p])
      BY <2>2 DEF Pages
    <3>1. shown[p] \in Seq(Chunks) /\ Leads(shown[p], cache[p])
      BY <1>0 DEF Stored
    <3> QED  BY <2>1, <2>3, <2>4, <3>1
  <2>6. view # 0 => Arriving(mmiq, u)
    BY <2>3 DEF Stored, Arriving
  <2>7. view # 0 /\ shown[opened] = <<>> => Opens(mmiq, u)
    <3> SUFFICES ASSUME view # 0, shown[opened] = <<>>, NEW i \in DOMAIN mmiq,
                        mmiq[i].kind = "DATA_ARRIVED",
                        \A j \in DOMAIN mmiq : j < i => mmiq[j].kind # "DATA_ARRIVED"
                 PROVE  mmiq[i].arg[1] = u[1]
      BY DEF Opens
    <3>1. mmiq[i].arg[1] = t[1] /\ Within(mmiq[i].arg, t)
      BY DEF Stored, Opens, Arriving
    <3>2. mmiq[i].arg # <<>> /\ mmiq[i].arg \in Seq(Chunks)
      <4>1. Joined(mmiq, shown[view], Coming)
        BY Patient DEF Passing
      <4>2. mmiq[i] \in Messages
        BY <1>0
      <4> QED  BY <4>1, <4>2 DEF Joined, Messages, SocketEvents, Opening
    <3>3. t # <<>>
      <4>1. 1 \in DOMAIN mmiq[i].arg
        BY <3>2
      <4> QED  BY <3>1, <4>1 DEF Within
    <3> QED  BY <2>3, <3>1, <3>3
  <2>8. ~ STOPPED /\ shown[opened] = <<>> /\ ~ Sent({"DATA_ARRIVED"}) => u = seg'
    BY <2>1, <2>3 DEF Stored
  <2> QED  BY <1>1, <2>1, <2>2, <2>3, <2>4, <2>5, <2>6, <2>7, <2>8 DEF Stored, Sent
<1>4. CASE ~ OnGotoUrl /\ ~ (get_answer /\ cache' # cache)
  <2>1. UNCHANGED cache /\ (Posting' => Posting /\ UNCHANGED seg)
    <3>1. CASE get_answer /\ UNCHANGED cache
      BY <3>1, FileStep, <1>0, FileGrown DEF Stored
    <3> QED  BY <1>4, <3>1, FileStep DEF Stored
  <2>2. UNCHANGED opened /\ view' \in {0, view}
    BY <1>4, ViewChanges DEF viewVars, Leave
  <2> DEFINE t == cache[opened]
  <2>3. cache'[opened'] = t
    BY <2>1, <2>2
  <2>4. CASE OnDataArrived
    <3>1. /\ mmiq # <<>> /\ Head(mmiq).kind = "DATA_ARRIVED" /\ mmiq' = Tail(mmiq)
          /\ UNCHANGED <<view, STOPPED, hp, seg>>
          /\ shown' = IF view = 0 THEN shown ELSE [shown EXCEPT ![view] = @ \o Head(mmiq).arg]
      BY <2>4 DEF OnDataArrived, Handles, Consume, viewVars, helperVars
    <3>2. CASE view = 0
      <4>1. STOPPED
        BY <1>0, <3>2
      <4> QED  BY <1>1, <2>1, <2>2, <3>1, <3>2, <4>1 DEF Stored, Pages, Posting
    <3>3. CASE view # 0
      <4> DEFINE a == Head(mmiq).arg
                 s == shown[opened]
      <4>1. view = opened /\ shown' = [shown EXCEPT ![opened] = s \o a]
        BY <1>0, <3>1, <3>3
      <4>2. a \in Seq(Chunks) /\ Contiguous(a) /\ Links(s, a)
        BY <1>0, <3>1, <3>3, <4>1, Patient, JoinedTaken DEF Passing
      <4>3. a # <<>>
        <5>1. Joined(mmiq, shown[view], Coming)
          BY <3>3, Patient DEF Passing
        <5>2. 1 \in DOMAIN mmiq /\ Head(mmiq) = mmiq[1]
          BY <1>0, <3>1
        <5> QED  BY <3>1, <5>1, <5>2 DEF Joined
      <4>4. /\ Within(a, t) /\ Arriving(mmiq', t) /\ (s = <<>> => a[1] = t[1])
        BY <1>0, <3>1, <3>3, FileTaken DEF Stored
      <4>5. Leads(s, t) /\ Contiguous(t) /\ t \in Seq(Chunks) /\ s \in Seq(Chunks)
        BY <1>0, Patient DEF Stored, Caching
      <4> HIDE DEF a, s, t
      <4>6. Leads(s \o a, t) /\ s \o a # <<>>
        BY <4>2, <4>3, <4>4, <4>5, Continues
      <4>7. \A p \in Pages : shown'[p] = IF p = opened THEN s \o a ELSE shown[p]
        BY <1>0, <4>1
      <4>8. \A p \in Pages : Leads(shown'[p], cache[p])
        BY <4>6, <4>7 DEF Stored, t
      <4>9. shown'[opened] # <<>>
        BY <1>0, <4>6, <4>7
      <4> QED  BY <1>1, <2>1, <2>2, <2>3, <3>1, <4>4, <4>8, <4>9 DEF Stored, Pages, Posting
    <3> QED  BY <3>2, <3>3
  <2>5. CASE PostData
    <3>1. /\ Posting /\ hp' = "idle" /\ UNCHANGED <<shown, view, STOPPED>>
          /\ IF STOPPED THEN UNCHANGED mmiq ELSE Post(Msg("DATA_ARRIVED", seg))
      BY <2>5 DEF PostData, viewVars, pageVars, Posting
    <3>2. ~ Posting'
      BY <3>1 DEF Posting
    <3>3. CASE STOPPED
      BY <1>1, <2>1, <2>2, <3>1, <3>2, <3>3 DEF Stored, Pages
    <3>4. CASE ~ STOPPED
      <4> DEFINE m == Msg("DATA_ARRIVED", seg)
      <4>1. /\ m \in Messages /\ m.kind = "DATA_ARRIVED" /\ m.arg = seg
            /\ mmiq' = Append(mmiq, m)
        BY <1>0, <3>1, <3>4, QueueTypes DEF Msg, Post
      <4>2. Within(seg, t) /\ Arriving(mmiq, t)
        BY <1>0, <3>1, <3>4 DEF Stored
      <4>3. shown[opened] = <<>> /\ ~ Has(mmiq, {"DATA_ARRIVED"}) => seg[1] = t[1]
        BY <3>1, <3>4 DEF Stored, Sent
      <4>4. shown[opened] = <<>> => Opens(mmiq, t)
        BY <1>0, <3>4 DEF Stored
      <4> HIDE DEF m, t
      <4>5. Arriving(mmiq', t) /\ (shown[opened] = <<>> => Opens(mmiq', t))
        BY <1>0, <4>1, <4>2, <4>3, <4>4, FileAdded
      <4>6. Has(mmiq', {"DATA_ARRIVED"})
        BY <1>0, <4>1, Posted
      <4> QED  BY <1>1, <2>1, <2>2, <2>3, <3>1, <3>2, <4>5, <4>6 DEF Stored, Pages, Sent
    <3> QED  BY <3>3, <3>4
  <2>6. CASE ~ PostData /\ ~ OnDataArrived
    <3>1. UNCHANGED shown /\ (STOPPED' \/ UNCHANGED STOPPED)
      BY <1>4, <2>6, ViewChanges DEF Leave, pageVars
    <3>2. Posting' <=> Posting
      BY <2>1, <2>6, PostingHeld
    <3>3. /\ Arriving(mmiq, t) => Arriving(mmiq', t)
          /\ Opens(mmiq, t) => Opens(mmiq', t)
          /\ Has(mmiq', {"DATA_ARRIVED"}) <=> Has(mmiq, {"DATA_ARRIVED"})
      <4> HIDE DEF t
      <4>1. ASSUME NEW m \in Messages, m.kind # "DATA_ARRIVED", NEW q \in Seq(Messages)
            PROVE  /\ Arriving(q, t) => Arriving(Append(q, m), t)
                   /\ Opens(q, t) => Opens(Append(q, m), t)
                   /\ Has(Append(q, m), {"DATA_ARRIVED"}) <=> Has(q, {"DATA_ARRIVED"})
        BY <4>1, FileAdded, Posted
      <4>2. mmiq # <<>> /\ Head(mmiq).kind # "DATA_ARRIVED" =>
              /\ Arriving(mmiq, t) => Arriving(Tail(mmiq), t)
              /\ Opens(mmiq, t) => Opens(Tail(mmiq), t)
              /\ Has(Tail(mmiq), {"DATA_ARRIVED"}) <=> Has(mmiq, {"DATA_ARRIVED"})
        BY <1>0, FileTaken, Received
      <4>3. Msg("DATA_END", NULL).kind # "DATA_ARRIVED"
        BY DEF Msg
      <4>4. CASE UNCHANGED mmiq
        BY <4>4 DEF Arriving, Opens, Has
      <4>5. CASE mmiq # <<>> /\ Head(mmiq).kind # "DATA_ARRIVED" /\ mmiq' = Tail(mmiq)
        BY <4>2, <4>5 DEF Arriving, Opens, Has
      <4>6. CASE /\ mmiq # <<>> /\ Head(mmiq).kind # "DATA_ARRIVED"
                 /\ Tail(mmiq) \in Seq(Messages) /\ Msg("DATA_END", NULL) \in Messages
                 /\ mmiq' = Append(Tail(mmiq), Msg("DATA_END", NULL))
        <5> DEFINE q == Tail(mmiq)
                   m == Msg("DATA_END", NULL)
        <5>1. /\ Arriving(q, t) => Arriving(Append(q, m), t)
              /\ Opens(q, t) => Opens(Append(q, m), t)
              /\ Has(Append(q, m), {"DATA_ARRIVED"}) <=> Has(q, {"DATA_ARRIVED"})
          BY <4>1, <4>3, <4>6
        <5>2. /\ mmiq' = Append(q, m)
              /\ Arriving(mmiq, t) => Arriving(q, t)
              /\ Opens(mmiq, t) => Opens(q, t)
              /\ Has(q, {"DATA_ARRIVED"}) <=> Has(mmiq, {"DATA_ARRIVED"})
          BY <4>2, <4>6
        <5> HIDE DEF q, m
        <5> QED  BY <5>1, <5>2 DEF Arriving, Opens, Has
      <4>7. ASSUME NEW m \in Messages, m.kind # "DATA_ARRIVED", mmiq' = Append(mmiq, m)
            PROVE  /\ Arriving(mmiq, t) => Arriving(mmiq', t)
                   /\ Opens(mmiq, t) => Opens(mmiq', t)
                   /\ Has(mmiq', {"DATA_ARRIVED"}) <=> Has(mmiq, {"DATA_ARRIVED"})
        <5>1. /\ Arriving(mmiq, t) => Arriving(Append(mmiq, m), t)
              /\ Opens(mmiq, t) => Opens(Append(mmiq, m), t)
              /\ Has(Append(mmiq, m), {"DATA_ARRIVED"}) <=> Has(mmiq, {"DATA_ARRIVED"})
          BY <1>0, <4>1, <4>7
        <5> QED  BY <4>7, <5>1 DEF Arriving, Opens, Has
      <4> QED  BY <1>0, <2>6, <4>4, <4>5, <4>6, <4>7, QuietData
    <3> QED  BY <1>0, <1>1, <2>1, <2>2, <2>3, <3>1, <3>2, <3>3 DEF Stored, Pages, Sent
  <2> QED  BY <2>4, <2>5, <2>6
<1> QED  BY <1>2, <1>3, <1>4


-----------------------------------------------------------------------------
\* How often a is in the queue q.
Count(q, a) == Cardinality({i \in DOMAIN q : q[i] = a})

LEMMA CountIsNat ==
  ASSUME NEW S, NEW q \in Seq(S), NEW a
  PROVE  /\ IsFiniteSet({i \in DOMAIN q : q[i] = a})
         /\ Count(q, a) \in Nat
         /\ Count(q, a) = 0 <=> ~ In(q, a)
<1> DEFINE I == {i \in DOMAIN q : q[i] = a}
<1>1. Len(q) \in Nat /\ DOMAIN q = 1 .. Len(q)
  OBVIOUS
<1>2. IsFiniteSet(1 .. Len(q)) /\ I \in SUBSET (1 .. Len(q))
  BY <1>1, FS_Interval
<1>3. IsFiniteSet(I)
  BY <1>2, FS_Subset
<1>4. Cardinality(I) \in Nat
  BY <1>3, FS_CardinalityType
<1>5. Cardinality(I) = 0 <=> I = {}
  BY <1>3, FS_EmptySet
<1> QED  BY <1>3, <1>4, <1>5 DEF Count, In

LEMMA CountAdded ==
  ASSUME NEW S, NEW q \in Seq(S), NEW b \in S, NEW a
  PROVE  Count(Append(q, b), a) = Count(q, a) + (IF b = a THEN 1 ELSE 0)
<1> DEFINE n == Len(q)
           t == Append(q, b)
           I == {i \in DOMAIN q : q[i] = a}
           J == {i \in DOMAIN t : t[i] = a}
<1>1. /\ n \in Nat /\ DOMAIN q = 1 .. n /\ DOMAIN t = 1 .. n + 1 /\ t[n + 1] = b
      /\ \A i \in 1 .. n : t[i] = q[i]
  BY AddedIndices
<1>2. IsFiniteSet(I) /\ Cardinality(I) \in Nat
  BY CountIsNat DEF Count
<1>0. Count(q, a) = Cardinality(I) /\ Count(t, a) = Cardinality(J)
  BY DEF Count
<1>3. CASE b = a
  <2>1. J = I \cup {n + 1} /\ n + 1 \notin I
    BY <1>1, <1>3
  <2>2. Cardinality(I \cup {n + 1}) = Cardinality(I) + 1
    BY <1>2, <2>1, FS_AddElement
  <2> QED  BY <1>0, <1>3, <2>1, <2>2
<1>4. CASE b # a
  <2>1. J = I
    BY <1>1, <1>4
  <2>2. Count(t, a) = Count(q, a) /\ Count(q, a) \in Nat
    BY <1>0, <1>2, <2>1
  <2> HIDE DEF t
  <2>3. Count(t, a) = Count(q, a) + 0
    BY <2>2
  <2> QED  BY <1>4, <2>3 DEF t
<1> QED  BY <1>3, <1>4

LEMMA CountTaken ==
  ASSUME NEW S, NEW q \in Seq(S), q # <<>>, NEW a
  PROVE  Count(Tail(q), a) = Count(q, a) - (IF Head(q) = a THEN 1 ELSE 0)
<1> DEFINE n == Len(q)
           t == Tail(q)
           I == {i \in DOMAIN q : q[i] = a}
           J == {i \in DOMAIN t : t[i] = a}
           K == I \ {1}
           f == [j \in J |-> j + 1]
<1>1. /\ n \in Nat /\ n # 0 /\ DOMAIN q = 1 .. n /\ DOMAIN t = 1 .. n - 1 /\ Head(q) = q[1]
      /\ \A i \in 1 .. n - 1 : t[i] = q[i + 1]
  BY TakenIndices
<1>2. IsFiniteSet(I) /\ Cardinality(I) \in Nat
  BY CountIsNat DEF Count
<1>3. IsFiniteSet(J)
  <2>1. t \in Seq(S)
    BY TakenIndices
  <2> HIDE DEF t
  <2> QED  BY <2>1, CountIsNat
<1>4. f \in Bijection(J, K)
  <2>1. \A j \in J : j + 1 \in K
    BY <1>1
  <2>2. f \in [J -> K]
    BY <2>1
  <2>3. \A i, j \in J : f[i] = f[j] => i = j
    BY <1>1
  <2>4. \A k \in K : k - 1 \in J /\ f[k - 1] = k
    BY <1>1
  <2> HIDE DEF f, J, K
  <2> QED  BY <2>2, <2>3, <2>4 DEF Bijection, Injection, Surjection, IsInjective
<1>5. Cardinality(K) = Cardinality(J)
  BY <1>3, <1>4, FS_Bijection DEF ExistsBijection
<1>6. Cardinality(K) = IF 1 \in I THEN Cardinality(I) - 1 ELSE Cardinality(I)
  BY <1>2, FS_RemoveElement
<1>7. 1 \in I <=> Head(q) = a
  BY <1>1
<1>8. Count(q, a) = Cardinality(I) /\ Count(t, a) = Cardinality(J)
  BY DEF Count
<1> HIDE DEF I, J, K, t
<1>9. Count(q, a) \in Nat
  BY <1>2, <1>8
<1>10. CASE Head(q) = a
  <2>1. Count(t, a) = Count(q, a) - 1
    BY <1>5, <1>6, <1>7, <1>8, <1>10
  <2> QED  BY <1>10, <2>1 DEF t
<1>11. CASE Head(q) # a
  <2>1. Count(t, a) = Count(q, a)
    BY <1>5, <1>6, <1>7, <1>8, <1>11
  <2>2. Count(t, a) = Count(q, a) - 0
    BY <1>9, <2>1
  <2> QED  BY <1>11, <2>2 DEF t
<1> QED  BY <1>10, <1>11

\* The end of the header is the first there is; what comes behind it is body.
LEMMA HeaderFound ==
  ASSUME NEW q \in Seq(Chunks)
  PROVE  SelectInSeq(q, HeaderEnds) = 0 <=> \A i \in 1 .. Len(q) : ~ HeaderEnds(q[i])
<1> DEFINE I == {i \in 1 .. Len(q) : HeaderEnds(q[i])}
<1>1. Len(q) \in Nat
  OBVIOUS
<1>2. SelectInSeq(q, HeaderEnds) = (IF I # {} THEN Min(I) ELSE 0)
  BY DEF SelectInSeq
<1>3. I # {} => Min(I) \in I
  <2> HIDE DEF I
  <2>1. I \in SUBSET Nat
    BY DEF I
  <2> QED  BY <2>1, MinOfNats
<1>4. I # {} => Min(I) # 0
  BY <1>1, <1>3
<1>5. I = {} <=> \A i \in 1 .. Len(q) : ~ HeaderEnds(q[i])
  OBVIOUS
<1> QED  BY <1>2, <1>4, <1>5

LEMMA BodyGrows ==
  ASSUME NEW q \in Seq(Chunks), NEW c \in Chunks, SelectInSeq(q, HeaderEnds) # 0
  PROVE  /\ SelectInSeq(Append(q, c), HeaderEnds) # 0
         /\ AfterHeader(Append(q, c)) = AfterHeader(q) \o <<c>>
<1> DEFINE n == Len(q)
           t == Append(q, c)
           I == {i \in 1 .. Len(q) : HeaderEnds(q[i])}
           J == {i \in 1 .. Len(t) : HeaderEnds(t[i])}
<1>1. /\ n \in Nat /\ t \in Seq(Chunks) /\ Len(t) = n + 1 /\ t[n + 1] = c
      /\ \A i \in 1 .. n : t[i] = q[i]
  BY AppendProperties
<1>2. /\ SelectInSeq(q, HeaderEnds) = (IF I # {} THEN Min(I) ELSE 0)
      /\ SelectInSeq(t, HeaderEnds) = (IF J # {} THEN Min(J) ELSE 0)
  BY DEF SelectInSeq
<1>3. I # {} /\ I \in SUBSET Nat /\ J \in SUBSET Nat
  BY <1>1, <1>2
<1>4. I \subseteq J /\ \A j \in J : j \in I \/ j = n + 1
  BY <1>1
<1> HIDE DEF I, J
<1>5. PICK e : e = Min(I) /\ e \in I /\ \A i \in I : e <= i
  BY <1>3, MinOfNats
<1>6. PICK d : d = Min(J) /\ d \in J /\ \A j \in J : d <= j
  <2>1. J # {}
    BY <1>3, <1>4
  <2> QED  BY <1>3, <2>1, MinOfNats
<1>7. d = e /\ e \in 1 .. n
  <2>1. d <= e /\ e \in 1 .. n
    BY <1>4, <1>5, <1>6 DEF I
  <2>2. d \in Nat /\ e \in Nat /\ (d \in I \/ d = n + 1)
    BY <1>3, <1>4, <1>5, <1>6
  <2>3. d \in I
    BY <1>1, <2>1, <2>2
  <2>4. e <= d
    BY <1>5, <2>3
  <2> QED  BY <2>1, <2>2, <2>4
<1>8. SelectInSeq(q, HeaderEnds) = e /\ SelectInSeq(t, HeaderEnds) = e
  BY <1>2, <1>3, <1>4, <1>5, <1>6, <1>7
<1> DEFINE m == IF q[e].kind = "hdrBody" THEN e ELSE e + 1
<1>9. AfterHeader(q) = SubSeq(q, m, n) /\ AfterHeader(t) = SubSeq(t, m, n + 1)
  BY <1>1, <1>7, <1>8 DEF AfterHeader
<1>10. m \in 1 .. n + 1 /\ e # 0
  BY <1>1, <1>7
<1> HIDE DEF m
<1>11. SubSeq(t, m, n + 1) = SubSeq(q, m, n) \o <<c>>
  <2> DEFINE a == SubSeq(t, m, n + 1)
             b == SubSeq(q, m, n)
  <2>1. /\ a \in Seq(Chunks) /\ Len(a) = n + 2 - m
        /\ \A i \in 1 .. n + 2 - m : a[i] = t[m + i - 1]
    BY <1>1, <1>10, SubSeqProperties
  <2>2. /\ b \in Seq(Chunks) /\ Len(b) = n + 1 - m
        /\ \A i \in 1 .. n + 1 - m : b[i] = q[m + i - 1]
    BY <1>1, <1>10, SubSeqProperties
  <2> HIDE DEF a, b
  <2> DEFINE z == b \o <<c>>
  <2>3. /\ z \in Seq(Chunks) /\ Len(z) = n + 2 - m
        /\ \A i \in 1 .. n + 1 - m : z[i] = b[i]
        /\ z[n + 2 - m] = c
    <3>1. <<c>> \in Seq(Chunks) /\ Len(<<c>>) = 1 /\ <<c>>[1] = c
      OBVIOUS
    <3>2. /\ z \in Seq(Chunks) /\ Len(z) = (n + 1 - m) + 1
          /\ \A i \in 1 .. n + 1 - m : z[i] = b[i]
          /\ z[(n + 1 - m) + 1] = c
      BY <2>2, <3>1, ConcatProperties
    <3>3. (n + 1 - m) + 1 = n + 2 - m
      BY <1>1, <1>10
    <3> QED  BY <3>2, <3>3
  <2>4. ASSUME NEW i \in 1 .. n + 2 - m PROVE a[i] = z[i]
    <3>1. CASE i \in 1 .. n + 1 - m
      <4>1. m + i - 1 \in 1 .. n
        BY <1>1, <1>10, <3>1
      <4> QED  BY <1>1, <2>1, <2>2, <2>3, <3>1, <4>1
    <3>2. CASE i = n + 2 - m
      <4>1. m + i - 1 = n + 1
        BY <1>1, <1>10, <3>2
      <4> QED  BY <1>1, <2>1, <2>3, <3>2, <4>1
    <3>3. n \in Int /\ m \in Int
      BY <1>1, <1>10
    <3>4. i \in 1 .. n + 1 - m \/ i = n + 2 - m
      BY <3>3
    <3> QED  BY <3>1, <3>2, <3>4
  <2> HIDE DEF z
  <2> QED  BY <2>1, <2>3, <2>4, SeqEqual DEF a, b, z
<1> QED  BY <1>8, <1>9, <1>10, <1>11

-----------------------------------------------------------------------------
\* Who asks HELPER for what, and who does it.
Asks(p) ==
  /\ p = "get_answer" => OnDataRead /\ Ours /\ connect_state >= 2
  /\ p = "end_socket" => OnClosed /\ Ours /\ connect_state > 0
  /\ p = "create_connect" => hp = "StartINET" \/ Sent({"DNR"})
  /\ p = "StopINET" => Leave \/ PressStop
Does(p) ==
  /\ p = "get_answer" => get_answer
  /\ p = "end_socket" => end_socket

LEMMA HelperSource ==
  ASSUME Types, Next
  PROVE  \/ UNCHANGED helperq
         \/ \E p \in Procs : Starts(p) /\ helperq' = Tail(helperq) /\ Does(p)
         \/ \E p \in Procs : helperq' = Append(helperq, p) /\ Asks(p)
<1>1. OpenSocket \/ Connect \/ ConnectReturns \/ bsend \/ PostData \/ StopINETFrees
      \/ OnDataArrived \/ OnDataEnd \/ Network => UNCHANGED helperq
  BY DEF OpenSocket, Connect, ConnectReturns, bsend, PostData, StopINETFrees, OnDataArrived,
         OnDataEnd, Network, NetConnects, NetBufferFree, ServerAnswers, RemoteCloses,
         LocalCloses, DnsAnswers, helperVars
<1> DEFINE Taking == \E p \in Procs : Starts(p) /\ helperq' = Tail(helperq) /\ Does(p)
           Adding == \E p \in Procs : helperq' = Append(helperq, p) /\ Asks(p)
<1>2. ASSUME NEW p \in Procs, Starts(p), Dequeue, Does(p) PROVE Taking
  BY <1>2 DEF Dequeue
<1>3. StartINET \/ create_connect \/ SendPost \/ ResumeSend \/ free_socket \/ StopINET
      \/ GotoLink => Taking
  <2>1. \A p \in Procs : p \notin {"get_answer", "end_socket"} => Does(p)
    BY DEF Does
  <2> QED  BY <1>2, <2>1 DEF StartINET, create_connect, SendPost, ResumeSend, free_socket,
              StopINET, GotoLink, Procs
<1>4. get_answer \/ end_socket => Taking
  BY <1>2 DEF get_answer, end_socket, Procs, Does
<1>5. ASSUME NEW p \in Procs, SUBPROC(p), Asks(p) PROVE Adding
  BY <1>5 DEF SUBPROC
<1>6. OnConnected \/ OnBufferFree \/ OnGotoUrl \/ OnGuiDestroyed \/ resend
        => UNCHANGED helperq \/ Adding
  <2>1. \A p \in {"SendPost", "bsend", "StartGetFile", "GotoLink"} : p \in Procs /\ Asks(p)
    BY DEF Asks, Procs
  <2> QED  BY <1>5, <2>1 DEF OnConnected, OnBufferFree, OnGotoUrl, OnGuiDestroyed, resend
<1>7. StartINETQueues \/ OnDNR => UNCHANGED helperq \/ Adding
  <2>1. OnDNR => Sent({"DNR"})
    BY DEF OnDNR, Handles, Sent, Has, Types, OsTypes
  <2>2. hp = "StartINET" \/ Sent({"DNR"}) =>
          "create_connect" \in Procs /\ Asks("create_connect")
    BY DEF Asks, Procs
  <2> QED  BY <1>5, <2>1, <2>2 DEF StartINETQueues, OnDNR
<1>8. OnDataRead => UNCHANGED helperq \/ Adding
  <2>1. OnDataRead /\ Ours /\ connect_state >= 2 => "get_answer" \in Procs /\ Asks("get_answer")
    BY DEF Asks, Procs
  <2> QED  BY <1>5, <2>1 DEF OnDataRead
<1>9. OnClosed => UNCHANGED helperq \/ Adding
  <2>1. OnClosed /\ Ours /\ connect_state > 0 => "end_socket" \in Procs /\ Asks("end_socket")
    BY DEF Asks, Procs
  <2>2. "free_socket" \in Procs /\ Asks("free_socket")
    BY DEF Asks, Procs
  <2>3. OnClosed => \/ UNCHANGED helperq
                    \/ Ours /\ connect_state > 0 /\ SUBPROC("end_socket")
                    \/ SUBPROC("free_socket")
    BY EndStep
  <2> QED  BY <1>5, <2>1, <2>2, <2>3
<1>10. Leave \/ PressStop => Adding
  <2>1. Leave \/ PressStop => "StopINET" \in Procs /\ Asks("StopINET") /\ SUBPROC("StopINET")
    BY DEF Asks, Procs, Leave, PressStop
  <2> QED  BY <1>5, <2>1
<1> QED  BY <1>1, <1>3, <1>4, <1>6, <1>7, <1>8, <1>9, <1>10 DEF Next, Helper, Mmi, User

\* Where HELPER goes next.
LEMMA PcSource ==
  ASSUME Types, Next
  PROVE  /\ Connecting' => Connecting \/ StartINET \/ Queued("create_connect")
         /\ hp' = "socket" => create_connect \/ UNCHANGED hp
         /\ hp' = "StopINET" => hp = "StopINET" \/ Queued("StopINET")
         /\ dnr'.open # {} => dnr.open # {} \/ Queued("create_connect")
<1>1. CASE StartINET
  BY <1>1 DEF StartINET, Connecting, osVars
<1>2. CASE create_connect
  <2>1. Queued("create_connect") /\ hp' # "StopINET"
    <3>1. Queued("create_connect")
      BY <1>2, DequeueStep DEF create_connect, Queued
    <3> QED  BY <1>2, <3>1 DEF create_connect, WaitDNR
  <2> QED  BY <1>2, <2>1
<1>3. CASE OpenSocket \/ Connect \/ ConnectReturns \/ StartINETQueues
  BY <1>3 DEF OpenSocket, Connect, ConnectReturns, StartINETQueues, Connecting, osVars
<1>4. CASE SendPost \/ ResumeSend \/ bsend \/ get_answer \/ PostData \/ StopINETFrees
  BY <1>4 DEF SendPost, ResumeSend, bsend, get_answer, PostData, StopINETFrees, FreeSocket,
              Connecting, Starts, osVars
<1>5. CASE StopINET
  BY <1>5, DequeueStep DEF StopINET, Queued, Connecting
<1>6. CASE end_socket \/ free_socket \/ GotoLink
  BY <1>6 DEF end_socket, free_socket, FreeSocket, GotoLink, Connecting
<1>7. CASE Mmi \/ User
  BY <1>7 DEF Mmi, User, OnDNR, OnConnected, OnDataRead, OnBufferFree, OnClosed, OnDataArrived,
         OnDataEnd, OnGotoUrl, OnGuiDestroyed, resend, Leave, PressStop, helperVars, osVars,
         Connecting
<1>8. CASE Network
  BY <1>8 DEF Network, NetConnects, NetBufferFree, ServerAnswers, RemoteCloses, LocalCloses,
         DnsAnswers, helperVars, Connecting
<1> QED  BY <1>1, <1>2, <1>3, <1>4, <1>5, <1>6, <1>7, <1>8 DEF Next, Helper

\* Nothing but StartINET begins a connection.
Preparing == Connecting \/ LookingUp \/ Queued("create_connect")

LEMMA PreparingStep ==
  ASSUME Types, Next, Preparing'
  PROVE  Preparing \/ StartINET
<1> SUFFICES ASSUME ~ Preparing, ~ StartINET PROVE FALSE
  OBVIOUS
<1>0. mmiq \in Seq(Messages) /\ helperq \in Seq(Procs)
  BY DEF Types, OsTypes, HelperTypes
<1>1. ~ Connecting' /\ dnr'.open = {}
  BY PcSource DEF Preparing, LookingUp
<1>2. ~ Sent({"DNR"})'
  <2>1. ASSUME NEW m \in Messages, Sends(m), NEW q \in Seq(Messages), ~ Has(q, {"DNR"})
        PROVE  ~ Has(Append(q, m), {"DNR"})
    BY <2>1, Posted DEF Sends, Preparing, LookingUp
  <2>2. mmiq # <<>> => ~ Has(Tail(mmiq), {"DNR"})
    BY <1>0, Received DEF Preparing, LookingUp, Sent
  <2>3. Sends(Msg("DATA_END", NULL))
    BY DEF Sends, Msg
  <2>4. ~ Has(mmiq', {"DNR"})
    BY <1>0, <2>1, <2>2, <2>3, MessageSource DEF Preparing, LookingUp, Sent
  <2> QED  BY <2>4 DEF Sent
<1>3. ~ Queued("create_connect")'
  <2>1. ASSUME NEW p \in Procs, Asks(p) PROVE ~ In(Append(helperq, p), "create_connect")
    BY <1>0, <2>1, Added DEF Asks, Preparing, LookingUp, Connecting, Queued
  <2>2. helperq # <<>> => ~ In(Tail(helperq), "create_connect")
    BY <1>0, Taken DEF Preparing, Queued
  <2>3. ~ In(helperq', "create_connect")
    BY <2>1, <2>2, HelperSource DEF Starts, Preparing, Queued
  <2> QED  BY <2>3 DEF Queued
<1> QED  BY <1>1, <1>2, <1>3 DEF Preparing, LookingUp

\* HELPER has no answer to read before the next connection is made, and the page
\* of a user who waits is not being stopped.
Quiet ==
  /\ Before(helperq, "get_answer", "StartGetFile")
  /\ Preparing => ~ Queued("get_answer")
  /\ hp = "socket" => ~ receive_mode
  /\ Posting => receive_mode
  /\ view # 0 /\ stops = 0 => ~ Stopping

LEMMA QuietInit == Init => Quiet
<1> SUFFICES ASSUME Init PROVE Quiet
  OBVIOUS
<1>1. helperq = <<"StartGetFile">> /\ hp = "idle"
  BY DEF Init
<1>2. \A p : In(helperq, p) => p = "StartGetFile"
  BY <1>1 DEF In
<1>3. Before(helperq, "get_answer", "StartGetFile")
  BY <1>2 DEF In, Before
<1> QED  BY <1>1, <1>2, <1>3 DEF Quiet, Queued, Posting, Stopping

\* The page is stopped by the user alone.
LEMMA StoppingStep ==
  ASSUME Types, Next, Stopping'
  PROVE  Stopping \/ Leave \/ PressStop
<1>0. helperq \in Seq(Procs)
  BY DEF Types, HelperTypes
<1>1. hp' = "StopINET" => Stopping
  BY PcSource DEF Stopping
<1>2. CASE Queued("StopINET")' /\ ~ Leave /\ ~ PressStop
  <2>1. ASSUME NEW p \in Procs, Asks(p), In(Append(helperq, p), "StopINET")
        PROVE  In(helperq, "StopINET")
    BY <1>0, <1>2, <2>1, Added DEF Asks
  <2>2. helperq # <<>> /\ In(Tail(helperq), "StopINET") => In(helperq, "StopINET")
    BY <1>0, Taken
  <2>3. In(helperq', "StopINET")
    BY <1>2 DEF Queued
  <2>4. In(helperq, "StopINET")
    BY <2>1, <2>2, <2>3, HelperSource DEF Starts
  <2> QED  BY <2>4 DEF Stopping, Queued
<1> QED  BY <1>1, <1>2 DEF Stopping

LEMMA StopsSource ==
  ASSUME Types, Next, stops' = 0
  PROVE  stops = 0 /\ ~ PressStop
<1>1. stops \in Nat
  BY DEF Types, ViewTypes
<1>2. PressStop => stops' = stops + 1
  BY DEF PressStop
<1>3. ~ PressStop => UNCHANGED stops
  BY DEF Next, Helper, Mmi, User, Network, StartINET, StartINETQueues, create_connect,
         OpenSocket, Connect, ConnectReturns, SendPost, ResumeSend, bsend, get_answer,
         PostData, end_socket, free_socket, StopINET, StopINETFrees, FreeSocket, GotoLink,
         OnDNR, OnConnected, OnDataRead, OnBufferFree, OnClosed, OnDataArrived,
         OnDataEnd, OnGotoUrl, OnGuiDestroyed, resend, Leave, NetConnects,
         NetBufferFree, ServerAnswers, RemoteCloses, LocalCloses, DnsAnswers
<1> QED  BY <1>1, <1>2, <1>3

LEMMA QuietStep ==
  ASSUME EndInv, ~ HurriedUser, Quiet, Next
  PROVE  Quiet'
<1>0. /\ Types /\ OneConnecting /\ SockHeld /\ StopsFirst /\ StopsDone /\ Header
      /\ helperq \in Seq(Procs) /\ connect_state \in Int
  BY Patient DEF Types, HelperTypes, InetTypes
<1>1. (view # 0 /\ stops = 0 => ~ Stopping)'
  <2> SUFFICES ASSUME view' # 0, stops' = 0, Stopping' PROVE FALSE
    OBVIOUS
  <2>1. CASE OnGotoUrl
    <3>1. Sent({"GOTO_URL"}) /\ SUBPROC("StartGetFile") /\ hp' = hp
      <4>1. Handles("GOTO_URL") /\ Consume
        BY <2>1 DEF OnGotoUrl
      <4> QED  BY <1>0, <2>1, <4>1, ConsumeStep DEF OnGotoUrl, Sent
    <3>2. ~ Stopping
      BY <1>0, <3>1 DEF StopsDone, Stopping
    <3>3. ~ Leave /\ ~ PressStop
      <4>1. "StartGetFile" \in Procs /\ "StopINET" \in Procs
        BY DEF Procs
      <4>2. In(helperq', "StopINET") => In(helperq, "StopINET")
        BY <1>0, <3>1, <4>1, Added DEF SUBPROC
      <4>3. Leave \/ PressStop => In(helperq', "StopINET")
        BY <1>0, <4>1, SubprocStep DEF Leave, PressStop
      <4> QED  BY <3>2, <4>2, <4>3 DEF Stopping, Queued
    <3> QED  BY <1>0, <3>2, <3>3, StoppingStep
  <2>2. CASE ~ OnGotoUrl
    <3>1. view # 0 /\ ~ Leave
      BY <2>2, ViewChanges DEF viewVars, Leave
    <3>2. stops = 0 /\ ~ PressStop
      BY <1>0, StopsSource
    <3> QED  BY <1>0, <3>1, <3>2, StoppingStep DEF Quiet
  <2> QED  BY <2>1, <2>2
<1>2. (hp = "socket" => ~ receive_mode)'
  <2> SUFFICES ASSUME hp' = "socket" PROVE ~ receive_mode'
    OBVIOUS
  <2>1. CASE create_connect
    BY <2>1 DEF create_connect, AwaitHeader
  <2>2. CASE UNCHANGED hp /\ ~ create_connect
    <3>1. ~ get_answer
      BY <2>2 DEF get_answer, Starts
    <3> QED  BY <1>0, <2>2, <3>1, ReceiveKept DEF Quiet
  <2> QED  BY <1>0, <2>1, <2>2, PcSource
<1>3. (Posting => receive_mode)'
  <2> SUFFICES ASSUME Posting' PROVE receive_mode'
    OBVIOUS
  <2>1. CASE get_answer
    <3>1. hp = "idle"
      BY <2>1 DEF get_answer, Starts
    <3>2. ~ UNCHANGED hp
      BY <3>1 DEF Posting
    <3> QED  BY <1>0, <2>1, <3>2, AnswerPieces DEF Passes
  <2>2. CASE Posting /\ ~ get_answer
    <3>1. ~ create_connect
      BY <2>2 DEF create_connect, Starts, Posting
    <3> QED  BY <1>0, <2>2, <3>1, ReceiveKept DEF Quiet
  <2> QED  BY <1>0, <2>1, <2>2, PostingStep
<1>4. Before(helperq', "get_answer", "StartGetFile") /\ (Preparing' => ~ In(helperq', "get_answer"))
  <2>1. ASSUME NEW p \in Procs, helperq' = Append(helperq, p), Asks(p)
        PROVE  /\ Before(helperq', "get_answer", "StartGetFile")
               /\ Preparing' => ~ In(helperq', "get_answer")
    <3>1. CASE p = "get_answer"
      <4>1. OnDataRead /\ Ours /\ connect_state >= 2
        BY <2>1, <3>1 DEF Asks
      <4>2. sock # NoSock
        <5>1. Handles("DATA_READ")
          BY <4>1 DEF OnDataRead
        <5>2. Head(mmiq).arg \in Socks
          BY <1>0, <5>1, EndsTyped DEF SocketEvents
        <5> QED  BY <4>1, <5>2, SocksAssumption DEF Ours, NoSock
      <4>3. ~ In(helperq, "StartGetFile")
        BY <1>0, <4>2 DEF StopsFirst, Queued
      <4>4. ~ Preparing
        BY <1>0, <4>1 DEF OneConnecting, Preparing
      <4>5. ~ StartINET
        <5>1. StartINET => Queued("StartGetFile")
          BY <1>0, DequeueStep DEF StartINET, Queued
        <5> QED  BY <4>3, <5>1 DEF Queued
      <4> QED  BY <1>0, <2>1, <3>1, <4>3, <4>4, <4>5, Added, PreparingStep DEF Quiet
    <3>2. CASE p # "get_answer"
      <4>1. Before(helperq', "get_answer", "StartGetFile")
        BY <1>0, <2>1, <3>2, Added DEF Quiet
      <4>2. StartINET => ~ In(helperq, "get_answer")
        BY <1>0, DequeueStep DEF StartINET, Quiet
      <4>3. In(helperq', "get_answer") <=> In(helperq, "get_answer")
        BY <1>0, <2>1, <3>2, Added
      <4> QED  BY <1>0, <4>1, <4>2, <4>3, PreparingStep DEF Quiet, Queued
    <3> QED  BY <3>1, <3>2
  <2>2. ASSUME UNCHANGED helperq \/ (helperq # <<>> /\ helperq' = Tail(helperq))
        PROVE  /\ Before(helperq', "get_answer", "StartGetFile")
               /\ Preparing' => ~ In(helperq', "get_answer")
    <3>1. Before(helperq', "get_answer", "StartGetFile")
      <4>1. Before(helperq, "get_answer", "StartGetFile")
        BY DEF Quiet
      <4>2. helperq # <<>> => Before(Tail(helperq), "get_answer", "StartGetFile")
        BY <1>0, <4>1, Taken
      <4> QED  BY <2>2, <4>1, <4>2
    <3>2. StartINET => ~ In(helperq, "get_answer")
      BY <1>0, DequeueStep DEF StartINET, Quiet
    <3>3. In(helperq', "get_answer") => In(helperq, "get_answer")
      BY <1>0, <2>2, Taken
    <3> QED  BY <1>0, <3>1, <3>2, <3>3, PreparingStep DEF Quiet, Queued
  <2> QED  BY <1>0, <2>1, <2>2, HelperSource DEF Starts
<1> QED  BY <1>1, <1>2, <1>3, <1>4 DEF Quiet, Queued

-----------------------------------------------------------------------------
\* The connection s is new or gone, takes a piece of the answer, or keeps what it has.
LEMMA ConnSource ==
  ASSUME Types, Next, NEW s \in Socks
  PROVE  \/ conns'[s].resp = <<>> /\ conns'[s].st # "remoteClosed" /\ (Alive(s)' => OpenSocket)
         \/ ServerAnswers(s)
         \/ /\ conns'[s].resp = conns[s].resp /\ conns'[s].sent = conns[s].sent
            /\ \/ conns'[s].st # "remoteClosed" \/ conns[s].st = "remoteClosed"
               \/ RemoteCloses(s)
<1>0. conns \in [Socks -> SoundConns] /\ \A t \in Socks : conns[t] \in Conns
  BY DEF Types, OsTypes, SoundConns
<1> DEFINE Blank2 == /\ conns'[s].resp = <<>> /\ conns'[s].st # "remoteClosed"
                     /\ Alive(s)' => OpenSocket
           Same == /\ conns'[s].resp = conns[s].resp /\ conns'[s].sent = conns[s].sent
                   /\ \/ conns'[s].st # "remoteClosed" \/ conns[s].st = "remoteClosed"
                      \/ RemoteCloses(s)
<1>1. CASE UNCHANGED conns
  BY <1>1
<1>2. ASSUME NEW t, NEW c, conns' = [conns EXCEPT ![t] = c],
             t \in Socks => c.resp = conns[t].resp /\ c.sent = conns[t].sent,
             t = s => \/ c.st # "remoteClosed" \/ conns[t].st = "remoteClosed"
                      \/ RemoteCloses(s)
      PROVE  Same
  <2>1. conns'[s] = IF s = t THEN c ELSE conns[s]
    BY <1>0, <1>2
  <2> QED  BY <1>2, <2>1
<1>3. ASSUME NEW t, NEW x, conns' = [conns EXCEPT ![t].st = x],
             x # "remoteClosed" \/ (t = s => RemoteCloses(s))
      PROVE  Same
  <2> DEFINE c == [conns[t] EXCEPT !.st = x]
  <2>1. conns' = [conns EXCEPT ![t] = c]
    BY <1>3
  <2>2. t \in Socks => c.resp = conns[t].resp /\ c.sent = conns[t].sent /\ c.st = x
    BY <1>0 DEF Conns
  <2> HIDE DEF c, Same
  <2> QED  BY <1>2, <1>3, <2>1, <2>2
<1>4. ASSUME NEW c, conns' = [conns EXCEPT ![sock] = c],
             sock \in Socks => /\ c.resp = conns[sock].resp /\ c.sent = conns[sock].sent
                               /\ c.st = conns[sock].st
      PROVE  Same
  BY <1>2, <1>4
<1>5. CASE bsend
  <2>1. CASE \E full \in BOOLEAN :
               conns' = [conns EXCEPT ![sock].req = sendq.req, ![sock].got = @ + 1,
                                      ![sock].full = full]
    <3>1. PICK full \in BOOLEAN :
            conns' = [conns EXCEPT ![sock].req = sendq.req, ![sock].got = @ + 1,
                                   ![sock].full = full]
      BY <2>1
    <3> DEFINE c == [conns[sock] EXCEPT !.req = sendq.req, !.got = @ + 1, !.full = full]
    <3>2. conns' = [conns EXCEPT ![sock] = c]
      BY <1>0, <3>1
    <3>3. sock \in Socks => /\ c.resp = conns[sock].resp /\ c.sent = conns[sock].sent
                            /\ c.st = conns[sock].st
      BY <1>0 DEF Conns
    <3> HIDE DEF c, Same
    <3> QED  BY <1>4, <3>2, <3>3
  <2> QED  BY <1>1, <1>5, <2>1 DEF bsend
<1>6. CASE get_answer
  <2>1. CASE conns' = [conns EXCEPT ![sock].rd = @ + 1]
    <3> DEFINE c == [conns[sock] EXCEPT !.rd = @ + 1]
    <3>1. conns' = [conns EXCEPT ![sock] = c]
      BY <2>1
    <3>2. sock \in Socks => /\ c.resp = conns[sock].resp /\ c.sent = conns[sock].sent
                            /\ c.st = conns[sock].st
      BY <1>0 DEF Conns
    <3> HIDE DEF c, Same
    <3> QED  BY <1>4, <3>1, <3>2
  <2> QED  BY <1>1, <1>6, <2>1 DEF get_answer
<1>7. CASE conns' = Closed(sock)
  BY <1>1, <1>3, <1>7 DEF Closed
<1>8. CASE Connect
  BY <1>3, <1>7, <1>8 DEF Connect
<1>9. CASE end_socket \/ StopINET
  BY <1>7, <1>9 DEF end_socket, StopINET
<1>10. CASE OpenSocket
  <2>1. CASE \E t \in Socks : conns' = [conns EXCEPT ![t] = [NoConn EXCEPT !.st = "new"]]
    <3> DEFINE c == [NoConn EXCEPT !.st = "new"]
    <3>1. PICK t \in Socks : conns' = [conns EXCEPT ![t] = c]
      BY <2>1
    <3>2. c.resp = <<>> /\ c.st = "new"
      BY DEF NoConn
    <3> HIDE DEF c
    <3>3. conns'[s] = IF s = t THEN c ELSE conns[s]
      BY <1>0, <3>1
    <3> QED  BY <1>10, <3>2, <3>3
  <2> QED  BY <1>1, <1>10, <2>1 DEF OpenSocket
<1>11. ASSUME NEW t \in Socks, NetConnects(t) \/ RemoteCloses(t) PROVE Same
  BY <1>3, <1>11 DEF NetConnects, RemoteCloses
<1>12. ASSUME NEW t \in Socks, NetBufferFree(t) PROVE Same
  <2> DEFINE c == [conns[t] EXCEPT !.full = FALSE]
  <2>1. conns' = [conns EXCEPT ![t] = c]
    BY <1>12 DEF NetBufferFree
  <2>2. c.resp = conns[t].resp /\ c.sent = conns[t].sent /\ c.st = conns[t].st
    BY <1>0 DEF Conns
  <2> HIDE DEF c, Same
  <2> QED  BY <1>2, <2>1, <2>2
<1>13. ASSUME NEW t \in Socks, LocalCloses(t) PROVE Same \/ Blank2
  <2>1. conns'[s] = IF s = t THEN NoConn ELSE conns[s]
    BY <1>0, <1>13 DEF LocalCloses
  <2>2. NoConn.resp = <<>> /\ NoConn.st = "free"
    BY DEF NoConn
  <2> QED  BY <2>1, <2>2 DEF Alive
<1>14. ASSUME NEW t \in Socks, ServerAnswers(t), t # s PROVE Same
  <2>1. conns'[s] = conns[s]
    BY <1>0, <1>14 DEF ServerAnswers
  <2> QED  BY <2>1
<1>15. CASE Network
  <2>1. ASSUME NEW q, DnsAnswers(q) PROVE UNCHANGED conns
    BY <2>1 DEF DnsAnswers
  <2> HIDE DEF Same, Blank2
  <2>2. Same \/ Blank2 \/ ServerAnswers(s)
    BY <1>1, <1>11, <1>12, <1>13, <1>14, <1>15, <2>1 DEF Network, Same
  <2> QED  BY <2>2 DEF Same, Blank2
<1>16. StartINET \/ StartINETQueues \/ create_connect \/ ConnectReturns \/ SendPost
       \/ ResumeSend \/ PostData \/ free_socket \/ StopINETFrees \/ GotoLink => UNCHANGED conns
  BY DEF StartINET, StartINETQueues, create_connect, ConnectReturns, SendPost, ResumeSend,
         PostData, free_socket, StopINETFrees, GotoLink, osVars
<1>17. Mmi \/ User => UNCHANGED conns
  BY DEF Mmi, User, OnDNR, OnConnected, OnDataRead, OnBufferFree, OnClosed, OnDataArrived,
         OnDataEnd, OnGotoUrl, OnGuiDestroyed, resend, Leave, PressStop, osVars
<1> HIDE DEF Same, Blank2
<1>18. Same \/ Blank2 \/ ServerAnswers(s)
  BY <1>1, <1>5, <1>6, <1>8, <1>9, <1>10, <1>15, <1>16, <1>17 DEF Next, Helper, Same, Blank2
<1> QED  BY <1>18 DEF Same, Blank2

\* A connection the peer has closed has sent the whole of one answer.
Served ==
  \A s \in Socks :
    /\ conns[s].resp \in Responses \cup {<<>>}
    /\ "peer" \notin Faults /\ conns[s].st = "remoteClosed" =>
         conns[s].resp # <<>> /\ conns[s].sent = Len(conns[s].resp)

LEMMA ServedInit == Init => Served
BY DEF Init, Served, NoConn

LEMMA ServedStep ==
  ASSUME Types, Served, Next
  PROVE  Served'
<1> SUFFICES ASSUME NEW s \in Socks
             PROVE  /\ conns'[s].resp \in Responses \cup {<<>>}
                    /\ "peer" \notin Faults /\ conns'[s].st = "remoteClosed" =>
                         conns'[s].resp # <<>> /\ conns'[s].sent = Len(conns'[s].resp)
  BY DEF Served, Next, Responses, Faults
<1>0. conns \in [Socks -> SoundConns] /\ conns[s] \in Conns
  BY DEF Types, OsTypes, SoundConns
<1>1. CASE ServerAnswers(s)
  <2>1. PICK r \in Responses : conns' = [conns EXCEPT ![s].resp = r, ![s].sent = @ + 1]
    BY <1>1 DEF ServerAnswers
  <2>2. conns'[s].resp = r /\ conns'[s].st = conns[s].st /\ conns[s].st = "open"
    BY <1>0, <1>1, <2>1 DEF ServerAnswers, Conns
  <2> QED  BY <2>2
<1>2. ASSUME conns'[s].resp = conns[s].resp, conns'[s].sent = conns[s].sent,
             \/ conns'[s].st # "remoteClosed" \/ conns[s].st = "remoteClosed"
             \/ RemoteCloses(s)
      PROVE  /\ conns'[s].resp \in Responses \cup {<<>>}
             /\ "peer" \notin Faults /\ conns'[s].st = "remoteClosed" =>
                  conns'[s].resp # <<>> /\ conns'[s].sent = Len(conns'[s].resp)
  <2>1. "peer" \notin Faults /\ RemoteCloses(s) =>
          conns[s].resp # <<>> /\ conns[s].sent = Len(conns[s].resp)
    BY DEF RemoteCloses, CanFail
  <2> QED  BY <1>2, <2>1 DEF Served
<1> QED  BY <1>1, <1>2, ConnSource

-----------------------------------------------------------------------------
\* The user waits for the page that is open, nothing was stopped and no peer fails.
Watching == "peer" \notin Faults /\ view # 0 /\ stops = 0

\* Under the eyes of this user the socket is only opened, or closed by end_socket.
LEMMA Watched ==
  ASSUME EndInv, ~ HurriedUser, Quiet, Next, Watching', sock' # NoSock
  PROVE  \/ /\ OpenSocket /\ sock' \in Socks /\ Alive(sock)' /\ ~ Undelivered(sock')
            /\ UNCHANGED <<mmiq, helperq>> /\ hp = "socket"
         \/ /\ Watching /\ UNCHANGED <<sock, opened>> /\ sock \in Socks /\ ~ Stopping
            /\ ~ OpenSocket /\ ~ OnGotoUrl /\ ~ StartINET
            /\ Alive(sock) => Alive(sock)' \/ end_socket
<1>0. Types /\ StopsFirst
  BY Patient
<1>1. CASE OpenSocket
  <2>1. /\ sock' \in Socks /\ Becomes(sock', "new") /\ ~ Undelivered(sock')
    BY <1>0, <1>1, StatesStep
  <2>2. Alive(sock)'
    BY <2>1 DEF Becomes, Alive
  <2> QED  BY <1>1, <2>1, <2>2 DEF OpenSocket
<1>2. CASE ~ OpenSocket
  <2>1. ~ Stopping'
    BY QuietStep DEF Quiet, Watching
  <2>2. /\ ~ Stopping /\ UNCHANGED sock /\ sock \in Socks
        /\ Alive(sock) => Alive(sock)' \/ end_socket
    BY <1>0, <1>2, <2>1, SocketStep
  <2>3. ~ OnGotoUrl
    <3>1. OnGotoUrl => Sent({"GOTO_URL"})
      <4>1. OnGotoUrl => Handles("GOTO_URL") /\ Consume
        BY DEF OnGotoUrl
      <4> QED  BY <1>0, <4>1, ConsumeStep DEF Sent
    <3> QED  BY <1>0, <2>2, <3>1 DEF StopsFirst
  <2>4. ~ StartINET
    <3>1. StartINET => Queued("StartGetFile")
      BY <1>0, DequeueStep DEF StartINET, Queued
    <3> QED  BY <1>0, <2>2, <3>1 DEF StopsFirst
  <2>5. view # 0 /\ UNCHANGED opened
    BY <2>3, ViewChanges DEF Watching, viewVars, Leave
  <2>6. stops = 0
    BY <1>0, StopsSource DEF Watching
  <2>7. "peer" \notin Faults
    BY DEF Watching, Next, Faults
  <2> QED  BY <1>2, <2>2, <2>3, <2>4, <2>5, <2>6, <2>7 DEF Watching
<1> QED  BY <1>1, <1>2

\* What the server sent is read, is being read, or is still announced; and it is
\* announced before its end.
ReadMsg == Msg("DATA_READ", sock)
CloseMsg == Msg("REMOTE_CLOSED", sock)
Unread == Count(mmiq, ReadMsg) + Count(helperq, "get_answer")
Counted ==
  Watching /\ Alive(sock) =>
    /\ Unread + conns[sock].rd = conns[sock].sent
    /\ connect_state = -1 => ~ In(mmiq, ReadMsg)
    /\ Queued("end_socket") => connect_state = -1
    /\ Before(helperq, "get_answer", "end_socket")
    /\ Before(mmiq, ReadMsg, CloseMsg)

LEMMA CountedInit == Init => Counted
BY SocksAssumption DEF Init, Counted, Alive, NoSock

LEMMA UnreadTypes ==
  ASSUME Types
  PROVE  /\ Count(mmiq, ReadMsg) \in Nat /\ Count(helperq, "get_answer") \in Nat
         /\ Unread \in Nat
         /\ Count(mmiq, ReadMsg) = 0 <=> ~ In(mmiq, ReadMsg)
         /\ Count(helperq, "get_answer") = 0 <=> ~ Queued("get_answer")
         /\ \A s \in Socks : conns[s].rd \in Nat /\ conns[s].sent \in Nat
<1>1. mmiq \in Seq(Messages) /\ helperq \in Seq(Procs)
  BY DEF Types, OsTypes, HelperTypes
<1>2. /\ Count(mmiq, ReadMsg) \in Nat /\ Count(helperq, "get_answer") \in Nat
      /\ Count(mmiq, ReadMsg) = 0 <=> ~ In(mmiq, ReadMsg)
      /\ Count(helperq, "get_answer") = 0 <=> ~ In(helperq, "get_answer")
  BY <1>1, CountIsNat
<1>3. \A s \in Socks : conns[s].rd \in Nat /\ conns[s].sent \in Nat
  BY DEF Types, OsTypes, SoundConns, Conns
<1> QED  BY <1>2, <1>3 DEF Unread, Queued

\* A new connection has nothing to be read.
LEMMA OpensUnread ==
  ASSUME EndInv, ~ HurriedUser, Quiet, OpenSocket, sock' # NoSock
  PROVE  /\ Unread' = 0 /\ conns'[sock'].rd = 0 /\ conns'[sock'].sent = 0
         /\ conns'[sock'].resp = <<>>
         /\ ~ In(mmiq, ReadMsg)' /\ ~ Queued("end_socket")' /\ ~ Queued("get_answer")'
<1>0. Types /\ hp = "socket" /\ UNCHANGED <<mmiq, helperq>>
  BY Patient DEF OpenSocket
<1>1. /\ sock' \in Socks /\ ~ Undelivered(sock')
      /\ conns' = [conns EXCEPT ![sock'] = [NoConn EXCEPT !.st = "new"]]
  BY DEF OpenSocket
<1>2. conns'[sock'] = [NoConn EXCEPT !.st = "new"]
  BY <1>0, <1>1 DEF Types, OsTypes
<1>3. conns'[sock'].rd = 0 /\ conns'[sock'].sent = 0 /\ conns'[sock'].resp = <<>>
  BY <1>2 DEF NoConn
<1>4. ~ In(mmiq', Msg("DATA_READ", sock'))
  BY <1>0, <1>1 DEF In, Undelivered, Msg, SocketEvents
<1>5. ~ In(helperq', "get_answer")
  BY <1>0 DEF Quiet, Preparing, Connecting, Queued
<1>6. ~ In(helperq', "end_socket")
  BY <1>0, OpensQuiet DEF EndInv, Calm, Queued
<1>7. mmiq' \in Seq(Messages) /\ helperq' \in Seq(Procs)
  BY <1>0 DEF Types, OsTypes, HelperTypes
<1>8. Count(mmiq', Msg("DATA_READ", sock')) = 0 /\ Count(helperq', "get_answer") = 0
  BY <1>4, <1>5, <1>7, CountIsNat
<1>9. Unread' = 0
  BY <1>8 DEF Unread, ReadMsg, Msg, Count
<1> QED  BY <1>3, <1>4, <1>5, <1>6, <1>9 DEF ReadMsg, Msg, In, Queued

LEMMA CountOthers ==
  ASSUME NEW S, NEW q \in Seq(S), NEW a
  PROVE  /\ \A b \in S : b # a => Count(Append(q, b), a) = Count(q, a)
         /\ q # <<>> /\ Head(q) # a => Count(Tail(q), a) = Count(q, a)
<1>1. Count(q, a) \in Nat
  BY CountIsNat
<1>2. ASSUME NEW b \in S, b # a PROVE Count(Append(q, b), a) = Count(q, a)
  <2>1. Count(Append(q, b), a) = Count(q, a) + (IF b = a THEN 1 ELSE 0)
    BY CountAdded
  <2> QED  BY <1>1, <1>2, <2>1
<1>3. ASSUME q # <<>>, Head(q) # a PROVE Count(Tail(q), a) = Count(q, a)
  <2>1. Count(Tail(q), a) = Count(q, a) - (IF Head(q) = a THEN 1 ELSE 0)
    BY <1>3, CountTaken
  <2> QED  BY <1>1, <1>3, <2>1
<1> QED  BY <1>2, <1>3

LEMMA UnreadKept ==
  ASSUME Types, Next, sock \in Socks, UNCHANGED sock,
         ~ OnDataRead, ~ get_answer, ~ ServerAnswers(sock)
  PROVE  Unread' = Unread
<1>0. mmiq \in Seq(Messages) /\ helperq \in Seq(Procs)
  BY DEF Types, OsTypes, HelperTypes
<1> DEFINE a == Msg("DATA_READ", sock)
<1>1. a.kind = "DATA_READ" /\ a.arg = sock
  BY DEF Msg
<1> HIDE DEF a
<1>2. Count(mmiq', a) = Count(mmiq, a)
  <2>1. ASSUME NEW q \in Seq(Messages), NEW m \in Messages, m # a
        PROVE  Count(Append(q, m), a) = Count(q, a)
    BY <2>1, CountOthers
  <2>2. mmiq # <<>> /\ Head(mmiq) # a => Count(Tail(mmiq), a) = Count(mmiq, a)
    BY <1>0, CountOthers
  <2>3. \A m : Takes(m) => m # a
    BY <1>1 DEF Takes
  <2>4. \A m : Sends(m) => m # a
    BY <1>1 DEF Sends
  <2>5. Msg("DATA_END", NULL) # a
    BY <1>1 DEF Msg
  <2>6. CASE mmiq # <<>> /\ Takes(Head(mmiq)) /\ Tail(mmiq) \in Seq(Messages)
              /\ mmiq' = Append(Tail(mmiq), Msg("DATA_END", NULL))
              /\ Msg("DATA_END", NULL) \in Messages
    <3>1. Count(Tail(mmiq), a) = Count(mmiq, a)
      BY <2>2, <2>3, <2>6
    <3>2. Count(mmiq', a) = Count(Tail(mmiq), a)
      BY <2>1, <2>5, <2>6
    <3> QED  BY <3>1, <3>2
  <2>7. CASE mmiq # <<>> /\ Takes(Head(mmiq)) /\ mmiq' = Tail(mmiq)
    BY <2>2, <2>3, <2>7
  <2>8. ASSUME NEW m \in Messages, mmiq' = Append(mmiq, m), Sends(m)
        PROVE  Count(mmiq', a) = Count(mmiq, a)
    BY <1>0, <2>1, <2>4, <2>8
  <2>9. UNCHANGED mmiq => Count(mmiq', a) = Count(mmiq, a)
    OBVIOUS
  <2> QED  BY <2>6, <2>7, <2>8, <2>9, MessageSource
<1>3. Count(helperq', "get_answer") = Count(helperq, "get_answer")
  <2>1. ASSUME NEW p \in Procs, p # "get_answer"
        PROVE  Count(Append(helperq, p), "get_answer") = Count(helperq, "get_answer")
    BY <1>0, <2>1, CountOthers
  <2>2. ASSUME NEW p \in Procs, p # "get_answer", Starts(p)
        PROVE  Count(Tail(helperq), "get_answer") = Count(helperq, "get_answer")
    BY <1>0, <2>2, CountOthers DEF Starts
  <2>3. \A p : Asks(p) \/ Does(p) => p # "get_answer"
    BY DEF Asks, Does
  <2>4. ASSUME NEW p \in Procs, Starts(p), helperq' = Tail(helperq), Does(p)
        PROVE  Count(helperq', "get_answer") = Count(helperq, "get_answer")
    BY <2>2, <2>3, <2>4
  <2>5. ASSUME NEW p \in Procs, helperq' = Append(helperq, p), Asks(p)
        PROVE  Count(helperq', "get_answer") = Count(helperq, "get_answer")
    BY <2>1, <2>3, <2>5
  <2>6. UNCHANGED helperq => Count(helperq', "get_answer") = Count(helperq, "get_answer")
    OBVIOUS
  <2> QED  BY <2>4, <2>5, <2>6, HelperSource
<1>4. Count(mmiq', Msg("DATA_READ", sock')) = Count(mmiq', a)
  BY DEF a
<1>5. Unread' = Count(mmiq', Msg("DATA_READ", sock')) + Count(helperq', "get_answer")
  BY DEF Unread, ReadMsg, Count, Msg
<1>6. Unread = Count(mmiq, a) + Count(helperq, "get_answer")
  BY DEF Unread, ReadMsg, a
<1> QED  BY <1>2, <1>3, <1>4, <1>5, <1>6

LEMMA UnreadStep ==
  ASSUME Types, ClosesOnce, SentOnce, Next, UNCHANGED sock, Alive(sock), Alive(sock)',
         ~ OpenSocket, Unread + conns[sock].rd = conns[sock].sent,
         In(mmiq, ReadMsg) => connect_state >= 2
  PROVE  Unread' + conns'[sock].rd = conns'[sock].sent
<1>0. /\ sock \in Socks /\ mmiq \in Seq(Messages) /\ helperq \in Seq(Procs)
      /\ conns \in [Socks -> SoundConns] /\ conns[sock] \in Conns
      /\ "get_answer" \in Procs
  BY DEF Types, OsTypes, HelperTypes, Alive, SoundConns, Procs
<1> DEFINE a == Msg("DATA_READ", sock)
           x == Count(mmiq, a)
           y == Count(helperq, "get_answer")
<1>1. a.kind = "DATA_READ" /\ a.arg = sock /\ a \in Messages /\ a = ReadMsg
  BY <1>0, QueueTypes DEF Msg, SocketEvents, ReadMsg
<1>2. Unread' = Count(mmiq', a) + Count(helperq', "get_answer")
  <2>1. Unread' = Count(mmiq', Msg("DATA_READ", sock')) + Count(helperq', "get_answer")
    BY DEF Unread, ReadMsg, Count, Msg
  <2> QED  BY <2>1
<1>3. Unread = x + y
  BY DEF Unread, ReadMsg
<1>4. /\ x \in Nat /\ y \in Nat /\ (x = 0 <=> ~ In(mmiq, a)) /\ (y = 0 <=> ~ Queued("get_answer"))
      /\ conns[sock].rd \in Nat /\ conns[sock].sent \in Nat
  BY <1>0, UnreadTypes DEF ReadMsg
<1> HIDE DEF a, x, y
<1>5. CASE ServerAnswers(sock)
  <2>1. mmiq' = Append(mmiq, a) /\ UNCHANGED helperq
    BY <1>5 DEF ServerAnswers, Post, a, helperVars
  <2>2. conns'[sock].sent = conns[sock].sent + 1 /\ conns'[sock].rd = conns[sock].rd
    BY <1>0, <1>5 DEF ServerAnswers, Conns
  <2>3. Count(mmiq', a) = x + 1
    BY <1>0, <1>1, <2>1, CountAdded DEF x
  <2>4. Count(helperq', "get_answer") = y
    BY <2>1 DEF y
  <2> QED  BY <1>2, <1>3, <1>4, <2>2, <2>3, <2>4
<1>6. CASE OnDataRead
  <2>1. /\ mmiq # <<>> /\ mmiq' = Tail(mmiq) /\ Head(mmiq).kind = "DATA_READ"
        /\ UNCHANGED conns
        /\ IF Ours /\ connect_state >= 2 THEN SUBPROC("get_answer") ELSE UNCHANGED helperq
    BY <1>6 DEF OnDataRead, Handles, Consume
  <2>2. Head(mmiq) \in Messages /\ In(mmiq, Head(mmiq))
    BY <1>0, <2>1, TakenIndices, Taken
  <2>3. Ours <=> Head(mmiq) = a
    BY <1>1, <2>1, <2>2 DEF Ours, Messages, SocketEvents, Opening
  <2>4. CASE Ours
    <3>1. connect_state >= 2
      BY <1>1, <2>2, <2>3, <2>4
    <3>2. Count(mmiq', a) = x - 1
      BY <1>0, <2>1, <2>3, <2>4, CountTaken DEF x
    <3>3. helperq' = Append(helperq, "get_answer")
      BY <2>1, <2>4, <3>1 DEF SUBPROC
    <3>4. Count(helperq', "get_answer") = y + 1
      BY <1>0, <3>3, CountAdded DEF y
    <3>5. conns'[sock] = conns[sock]
      BY <2>1
    <3> QED  BY <1>2, <1>3, <1>4, <3>2, <3>4, <3>5
  <2>5. CASE ~ Ours
    <3>1. Count(mmiq', a) = x - 0
      BY <1>0, <2>1, <2>3, <2>5, CountTaken DEF x
    <3>2. Count(helperq', "get_answer") = y
      BY <2>1, <2>5 DEF y
    <3>3. conns'[sock] = conns[sock]
      BY <2>1
    <3> QED  BY <1>2, <1>3, <1>4, <3>1, <3>2, <3>3
  <2> QED  BY <2>4, <2>5
<1>7. CASE get_answer
  <2>1. /\ helperq # <<>> /\ Head(helperq) = "get_answer" /\ helperq' = Tail(helperq)
        /\ UNCHANGED mmiq
        /\ IF conns[sock].rd < conns[sock].sent
           THEN conns' = [conns EXCEPT ![sock].rd = @ + 1] ELSE UNCHANGED conns
    BY <1>7 DEF get_answer, Starts, Dequeue
  <2>2. In(helperq, "get_answer")
    BY <1>0, <2>1, Taken
  <2>3. y # 0
    BY <1>4, <2>2 DEF Queued
  <2>4. conns[sock].rd < conns[sock].sent
    BY <1>3, <1>4, <2>3
  <2>5. conns'[sock].rd = conns[sock].rd + 1 /\ conns'[sock].sent = conns[sock].sent
    BY <1>0, <2>1, <2>4 DEF Conns
  <2>6. Count(helperq', "get_answer") = y - 1
    BY <1>0, <2>1, CountTaken DEF y
  <2>7. Count(mmiq', a) = x
    BY <2>1 DEF x
  <2> QED  BY <1>2, <1>3, <1>4, <2>5, <2>6, <2>7
<1>8. CASE ~ ServerAnswers(sock) /\ ~ OnDataRead /\ ~ get_answer
  <2>1. Unread' = Unread
    BY <1>0, <1>8, UnreadKept
  <2>2. conns'[sock].rd = conns[sock].rd
    BY <1>8, SockRead
  <2>3. conns'[sock].sent = conns[sock].sent
    BY <1>0, <1>8, ConnSource
  <2> QED  BY <2>1, <2>2, <2>3
<1> QED  BY <1>5, <1>6, <1>7, <1>8

LEMMA StateSource ==
  ASSUME Types, OneConnecting, Next, sock' # NoSock
  PROVE  \/ UNCHANGED connect_state
         \/ OnClosed
         \/ connect_state >= 0 /\ connect_state' > 0
<1>0. connect_state \in -1 .. 3
  BY DEF Types, InetTypes
<1>1. create_connect => UNCHANGED connect_state
  <2>1. create_connect => Queued("create_connect")
    BY DequeueStep DEF create_connect, Queued
  <2>2. create_connect => connect_state' = 0
    BY DEF create_connect
  <2> QED  BY <2>1, <2>2 DEF OneConnecting
<1>2. ConnectReturns => connect_state = 0 /\ connect_state' = 1
  BY DEF ConnectReturns, OneConnecting, Connecting
<1>3. OnConnected \/ OnDataRead => UNCHANGED connect_state \/ (connect_state >= 0 /\ connect_state' > 0)
  BY <1>0 DEF OnConnected, OnDataRead
<1>4. ~ free_socket /\ ~ StopINETFrees
  BY DEF free_socket, StopINETFrees, FreeSocket
<1>5. StartINET \/ StartINETQueues \/ OpenSocket \/ Connect \/ SendPost \/ ResumeSend \/ bsend
      \/ get_answer \/ PostData \/ end_socket \/ StopINET \/ GotoLink => UNCHANGED connect_state
  BY DEF StartINET, StartINETQueues, OpenSocket, Connect, SendPost, ResumeSend, bsend,
         get_answer, PostData, end_socket, StopINET, GotoLink, inetVars
<1>6. OnDNR \/ OnBufferFree \/ OnDataArrived \/ OnDataEnd \/ OnGotoUrl \/ OnGuiDestroyed
      \/ resend \/ User \/ Network => UNCHANGED connect_state
  BY DEF OnDNR, OnBufferFree, OnDataArrived, OnDataEnd, OnGotoUrl, OnGuiDestroyed, resend,
         User, Leave, PressStop, Network, NetConnects, NetBufferFree, ServerAnswers,
         RemoteCloses, LocalCloses, DnsAnswers, inetVars
<1> QED  BY <1>1, <1>2, <1>3, <1>4, <1>5, <1>6, <1>0 DEF Next, Helper, Mmi

\* The first close of the socket is that of the peer; the second is not reported as
\* long as the socket is open.
LEMMA FirstClose ==
  ASSUME Types, ClosesOnce, Alive(sock), OnClosed
  PROVE  /\ Ours /\ connect_state > 0 =>
              /\ connect_state' = -1 /\ mmiq # <<>> /\ mmiq' = Tail(mmiq)
              /\ Head(mmiq) = CloseMsg
         /\ Ours \/ UNCHANGED connect_state
         /\ connect_state = 0 => UNCHANGED connect_state
<1>0. connect_state \in -1 .. 3 /\ mmiq \in Seq(Messages) /\ sock \in Socks
  BY DEF Types, InetTypes, OsTypes, Alive
<1>1. mmiq # <<>> /\ Head(mmiq).kind \in Ends
  BY EndStep
<1>2. Ours => Head(mmiq) = CloseMsg
  <2> SUFFICES ASSUME Ours PROVE Head(mmiq) = CloseMsg
    OBVIOUS
  <2>1. Head(mmiq).kind = "CLOSED" => conns[Head(mmiq).arg].st = "free"
    BY <1>0, <1>1, EndsTaken DEF ClosesOnce
  <2>2. Head(mmiq).kind = "REMOTE_CLOSED"
    BY <1>1, <2>1 DEF Ours, Alive, Ends
  <2>3. Head(mmiq) \in Messages
    BY <1>0, <1>1, TakenIndices
  <2> QED  BY <2>2, <2>3 DEF Ours, Messages, SocketEvents, Opening, CloseMsg, Msg
<1>3. CASE Ours /\ connect_state > 0
  <2>1. ~ (Ours /\ connect_state = -1)
    BY <1>0, <1>3
  <2>2. connect_state' = -1 /\ Consume
    BY <1>3, <2>1, Zenon DEF OnClosed
  <2>3. connect_state # 0
    BY <1>3
  <2> QED  BY <1>1, <1>2, <1>3, <2>2, <2>3 DEF Consume
<1>4. CASE ~ (Ours /\ connect_state > 0)
  <2>1. ~ Ours => UNCHANGED connect_state
    BY Zenon DEF OnClosed
  <2>2. connect_state = 0 => ~ (Ours /\ connect_state = -1)
    OBVIOUS
  <2>3. connect_state = 0 => UNCHANGED connect_state
    BY <1>4, <2>2, Zenon DEF OnClosed
  <2> QED  BY <1>4, <2>1, <2>3
<1> QED  BY <1>3, <1>4

LEMMA CountedStep ==
  ASSUME EndInv, ~ HurriedUser, Quiet, Counted, Next
  PROVE  Counted'
<1> SUFFICES ASSUME Watching', Alive(sock)'
             PROVE  /\ Unread' + conns'[sock'].rd = conns'[sock'].sent
                    /\ connect_state' = -1 => ~ In(mmiq, ReadMsg)'
                    /\ Queued("end_socket")' => connect_state' = -1
                    /\ Before(helperq', "get_answer", "end_socket")
                    /\ Before(mmiq, ReadMsg, CloseMsg)'
  BY DEF Counted
<1>0. /\ Types /\ OneConnecting /\ SockHeld /\ ClosesOnce /\ SentOnce /\ Cleaned
      /\ StopsDone /\ Current /\ Stale
      /\ mmiq \in Seq(Messages) /\ helperq \in Seq(Procs) /\ connect_state \in -1 .. 3
      /\ conns \in [Socks -> SoundConns] /\ sock' \in Socks /\ sock' # NoSock
  BY Patient, SocksAssumption DEF Types, InetTypes, OsTypes, HelperTypes, Alive, NoSock
<1>1. CASE OpenSocket
  <2>1. /\ Unread' = 0 /\ conns'[sock'].rd = 0 /\ conns'[sock'].sent = 0
        /\ ~ In(mmiq, ReadMsg)' /\ ~ Queued("end_socket")' /\ ~ Queued("get_answer")'
    BY <1>0, <1>1, OpensUnread
  <2>2. Before(helperq', "get_answer", "end_socket") /\ Before(mmiq, ReadMsg, CloseMsg)'
    BY <2>1 DEF Before, In, Queued
  <2> QED  BY <2>1, <2>2
<1>2. CASE ~ OpenSocket
  <2>1. Watching /\ UNCHANGED sock /\ sock \in Socks
    BY <1>0, <1>2, Watched
  <2>2. Alive(sock)
    BY <1>0, <1>2, <2>1, SockRead, AliveKept
  <2> DEFINE a == Msg("DATA_READ", sock)
             b == Msg("REMOTE_CLOSED", sock)
  <2>3. /\ a = ReadMsg /\ a = ReadMsg' /\ b = CloseMsg /\ b = CloseMsg'
        /\ a \in Messages /\ b \in Messages /\ a # b
        /\ a.kind = "DATA_READ" /\ a.arg = sock /\ b.kind = "REMOTE_CLOSED" /\ b.arg = sock
    BY <1>0, <2>1, QueueTypes DEF ReadMsg, CloseMsg, Msg, SocketEvents
  <2> HIDE DEF a, b
  <2>4. /\ Unread + conns[sock].rd = conns[sock].sent
        /\ connect_state = -1 => ~ In(mmiq, a)
        /\ Queued("end_socket") => connect_state = -1
        /\ Before(helperq, "get_answer", "end_socket")
        /\ Before(mmiq, a, b)
    BY <2>1, <2>2, <2>3 DEF Counted
  <2>5. In(mmiq, a) => connect_state >= 2
    <3> SUFFICES ASSUME In(mmiq, a) PROVE connect_state >= 2
      OBVIOUS
    <3>1. /\ Count(mmiq, ReadMsg) \in Nat /\ Count(mmiq, ReadMsg) # 0
          /\ Count(helperq, "get_answer") \in Nat
          /\ conns[sock].rd \in Nat /\ conns[sock].sent \in Nat
      BY <1>0, <2>1, <2>3, UnreadTypes
    <3>2. conns[sock].sent > 0
      BY <2>4, <3>1 DEF Unread
    <3>3. conns[sock].got > 0
      BY <1>0, <2>1, <3>2 DEF SoundConns
    <3>4. connect_state # 1 /\ hp \notin {"connect", "connecting"}
      BY <1>0, <2>2, <3>3 DEF Cleaned
    <3>5. connect_state # 0 /\ connect_state # -1
      BY <1>0, <2>1, <2>2, <2>4, <3>4 DEF SockHeld
    <3> QED  BY <1>0, <3>4, <3>5
  <2>6. Unread' + conns'[sock'].rd = conns'[sock'].sent
    BY <1>0, <1>2, <2>1, <2>2, <2>3, <2>4, <2>5, UnreadStep
  <2>7. ServerAnswers(sock) => ~ In(mmiq, b) /\ connect_state # -1
    <3> SUFFICES ASSUME ServerAnswers(sock) PROVE ~ In(mmiq, b) /\ connect_state # -1
      OBVIOUS
    <3>1. conns[sock].st = "open"
      BY DEF ServerAnswers
    <3> QED  BY <1>0, <2>1, <2>3, <3>1 DEF ClosesOnce, ClosesIn, Ended, In, SockHeld
  <2>8. connect_state' = -1 => ~ In(mmiq', a)
    <3>1. CASE connect_state = -1
      <4>1. ASSUME NEW q \in Seq(Messages), ~ In(q, a), NEW m \in Messages, m # a
            PROVE  ~ In(Append(q, m), a)
        BY <4>1, Added
      <4>2. ASSUME NEW m \in Messages, Sends(m) PROVE m # a
        BY <2>3, <2>7, <3>1, <4>2 DEF Sends
      <4>3. Msg("DATA_END", NULL) # a
        BY <2>3 DEF Msg
      <4>4. ~ In(mmiq, a) /\ (mmiq # <<>> => ~ In(Tail(mmiq), a))
        BY <1>0, <2>4, <3>1, Taken
      <4> QED  BY <1>0, <4>1, <4>2, <4>3, <4>4, MessageSource
    <3>2. CASE connect_state # -1
      <4> SUFFICES ASSUME connect_state' = -1 PROVE ~ In(mmiq', a)
        OBVIOUS
      <4>1. OnClosed
        BY <1>0, <3>2, StateSource
      <4>2. connect_state > 0 /\ Ours
        BY <1>0, <2>2, <3>2, <4>1, FirstClose
      <4>3. mmiq # <<>> /\ mmiq' = Tail(mmiq) /\ Head(mmiq) = b
        BY <1>0, <2>2, <2>3, <4>1, <4>2, FirstClose
      <4> QED  BY <1>0, <2>4, <4>3, Taken
    <3> QED  BY <3>1, <3>2
  <2>9. Queued("end_socket")' => connect_state' = -1
    <3>1. CASE Queued("end_socket")
      <4> SUFFICES ASSUME connect_state' # -1 PROVE FALSE
        BY <3>1
      <4>1. connect_state = -1
        BY <2>4, <3>1
      <4>2. OnClosed
        BY <1>0, <4>1, StateSource
      <4>3. Ours
        BY <1>0, <2>2, <4>1, <4>2, FirstClose
      <4> QED  BY <1>0, <2>2, <4>1, <4>2, <4>3, LastClose
    <3>2. CASE ~ Queued("end_socket")
      <4> SUFFICES ASSUME In(helperq', "end_socket") PROVE connect_state' = -1
        BY DEF Queued
      <4>1. Asks("end_socket")
        <5>1. ASSUME NEW p \in Procs, helperq' = Append(helperq, p)
              PROVE  p = "end_socket"
          BY <1>0, <3>2, <5>1, Added DEF Queued
        <5>2. ASSUME helperq # <<>>, helperq' = Tail(helperq) PROVE FALSE
          BY <1>0, <3>2, <5>2, Taken DEF Queued
        <5>3. ~ UNCHANGED helperq
          BY <3>2 DEF Queued
        <5>4. ASSUME NEW p \in Procs, Starts(p), helperq' = Tail(helperq) PROVE FALSE
          BY <5>2, <5>4 DEF Starts
        <5>5. PICK p \in Procs : helperq' = Append(helperq, p) /\ Asks(p)
          BY <1>0, <5>3, <5>4, HelperSource
        <5> QED  BY <5>1, <5>5
      <4> QED  BY <1>0, <2>2, <4>1, FirstClose DEF Asks
    <3> QED  BY <3>1, <3>2
  <2>10. Before(helperq', "get_answer", "end_socket")
    <3>1. ASSUME NEW p \in Procs, helperq' = Append(helperq, p), Asks(p)
          PROVE  Before(helperq', "get_answer", "end_socket")
      <4>1. p = "get_answer" => ~ In(helperq, "end_socket")
        BY <2>4, <3>1 DEF Asks, Queued
      <4>2. CASE p = "get_answer"
        <5>1. Before(helperq, p, "end_socket") /\ ~ In(helperq, "end_socket") /\ "end_socket" # p
          BY <2>4, <4>1, <4>2
        <5>2. Before(Append(helperq, p), p, "end_socket")
          BY <1>0, <5>1, Added
        <5> QED  BY <3>1, <4>2, <5>2
      <4>3. CASE p # "get_answer"
        <5>1. Before(Append(helperq, p), "get_answer", "end_socket")
          BY <1>0, <2>4, <4>3, Added
        <5> QED  BY <3>1, <5>1
      <4> QED  BY <4>2, <4>3
    <3>2. helperq # <<>> => Before(Tail(helperq), "get_answer", "end_socket")
      BY <1>0, <2>4, Taken
    <3>3. ASSUME NEW p \in Procs, Starts(p), helperq' = Tail(helperq)
          PROVE  Before(helperq', "get_answer", "end_socket")
      BY <3>2, <3>3 DEF Starts
    <3>4. UNCHANGED helperq => Before(helperq', "get_answer", "end_socket")
      BY <2>4
    <3> QED  BY <1>0, <3>1, <3>3, <3>4, HelperSource
  <2>11. Before(mmiq', a, b)
    <3>1. ASSUME NEW q \in Seq(Messages), Before(q, a, b), NEW m \in Messages,
                 m = a => ~ In(q, b)
          PROVE  Before(Append(q, m), a, b)
      BY <2>3, <3>1, Added
    <3>2. ASSUME NEW m \in Messages, Sends(m), m = a PROVE ~ In(mmiq, b)
      BY <2>3, <2>7, <3>2 DEF Sends
    <3>3. Msg("DATA_END", NULL) # a
      BY <2>3 DEF Msg
    <3>4. mmiq # <<>> => Before(Tail(mmiq), a, b)
      BY <1>0, <2>4, Taken
    <3> QED  BY <1>0, <2>4, <3>1, <3>2, <3>3, <3>4, MessageSource
  <2>12. ReadMsg' = a /\ CloseMsg' = b
    BY <2>3
  <2> QED  BY <2>6, <2>8, <2>9, <2>10, <2>11, <2>12 DEF In, Before
<1> QED  BY <1>1, <1>2

-----------------------------------------------------------------------------
\* The first n pieces of the answer r to the request of the page p.
Answer(p, r, n) == [i \in 1 .. n |-> [req |-> p, k |-> i, kind |-> r[i]]]

LEMMA AnswerGrows ==
  ASSUME NEW p \in Pages, NEW r \in Seq(SegKinds), NEW n \in Nat, n <= Len(r)
  PROVE  /\ Answer(p, r, n) \in Seq(Chunks) /\ Len(Answer(p, r, n)) = n
         /\ n < Len(r) =>
              /\ [req |-> p, k |-> n + 1, kind |-> r[n + 1]] \in Chunks
              /\ Answer(p, r, n + 1) = Append(Answer(p, r, n),
                                              [req |-> p, k |-> n + 1, kind |-> r[n + 1]])
<1> DEFINE c(i) == [req |-> p, k |-> i, kind |-> r[i]]
<1>0. Len(r) \in Nat
  OBVIOUS
<1>1. ASSUME NEW i \in 1 .. Len(r) PROVE c(i) \in Chunks
  <2>1. i \in Nat \ {0} /\ r[i] \in SegKinds
    OBVIOUS
  <2> QED  BY <2>1 DEF Chunks
<1>2. \A i \in 1 .. n : c(i) \in Chunks
  BY <1>0, <1>1
<1>3. Answer(p, r, n) = [i \in 1 .. n |-> c(i)]
  BY DEF Answer
<1>4. Answer(p, r, n) \in Seq(Chunks) /\ Len(Answer(p, r, n)) = n
  <2> HIDE DEF c
  <2> QED  BY <1>2, <1>3
<1>5. ASSUME n < Len(r)
      PROVE  c(n + 1) \in Chunks /\ Answer(p, r, n + 1) = Append(Answer(p, r, n), c(n + 1))
  <2>1. n + 1 \in 1 .. Len(r)
    BY <1>0, <1>5
  <2>2. c(n + 1) \in Chunks
    BY <1>1, <2>1
  <2>3. Answer(p, r, n + 1) = [i \in 1 .. n + 1 |-> c(i)]
    BY DEF Answer
  <2> HIDE DEF c
  <2> DEFINE t == Append(Answer(p, r, n), c(n + 1))
             u == Answer(p, r, n + 1)
  <2>4. /\ t \in Seq(Chunks) /\ Len(t) = n + 1 /\ t[n + 1] = c(n + 1)
        /\ \A i \in 1 .. n : t[i] = Answer(p, r, n)[i]
    BY <1>4, <2>2, AppendProperties
  <2>5. u \in Seq(Chunks) /\ Len(u) = n + 1 /\ \A i \in 1 .. n + 1 : u[i] = c(i)
    BY <1>2, <2>2, <2>3
  <2>6. \A i \in 1 .. n : t[i] = c(i)
    BY <1>3, <2>4
  <2>7. \A i \in 1 .. n + 1 : t[i] = u[i]
    BY <2>4, <2>5, <2>6
  <2> HIDE DEF t, u
  <2>8. t = u
    BY <2>4, <2>5, <2>7, SeqEqual
  <2> QED  BY <2>2, <2>8 DEF t, u
<1> QED  BY <1>4, <1>5

LEMMA AnswerBlank ==
  ASSUME NEW p, NEW r
  PROVE  Answer(p, r, 0) = <<>> /\ SelectInSeq(<<>>, HeaderEnds) = 0
<1>1. Answer(p, r, 0) = <<>>
  BY DEF Answer
<1>2. <<>> \in Seq(Chunks) /\ \A i \in 1 .. Len(<<>>) : FALSE
  OBVIOUS
<1> QED  BY <1>1, <1>2, HeaderFound

LEMMA WholeAnswer ==
  ASSUME NEW p, NEW r \in Seq(SegKinds)
  PROVE  BodyOf(p, r) = AfterHeader(Answer(p, r, Len(r)))
<1>1. DOMAIN r = 1 .. Len(r)
  OBVIOUS
<1>2. Answer(p, r, Len(r)) = [i \in DOMAIN r |-> [req |-> p, k |-> i, kind |-> r[i]]]
  BY <1>1 DEF Answer
<1> QED  BY <1>2 DEF BodyOf

\* The cache file of the page holds the body of all that was read; until the header
\* has ended it is empty, and recvq holds all.
AllRead == Answer(opened, conns[sock].resp, conns[sock].rd)
Content ==
  Watching /\ Alive(sock) =>
    IF receive_mode
    THEN SelectInSeq(AllRead, HeaderEnds) # 0 /\ cache[opened] = AfterHeader(AllRead)
    ELSE SelectInSeq(AllRead, HeaderEnds) = 0 /\ cache[opened] = <<>> /\ recvq = AllRead

LEMMA ContentInit == Init => Content
BY SocksAssumption DEF Init, Content, Alive, NoSock

LEMMA RecvqSource ==
  ASSUME Next
  PROVE  get_answer \/ UNCHANGED recvq \/ (PostData /\ Posting) \/ sock' = NoSock
<1>1. PostData => Posting
  BY DEF PostData, Posting
<1>2. free_socket \/ StopINETFrees => sock' = NoSock
  BY DEF free_socket, StopINETFrees, FreeSocket
<1>3. StartINET \/ StartINETQueues \/ create_connect \/ OpenSocket \/ Connect \/ ConnectReturns
      \/ SendPost \/ ResumeSend \/ bsend \/ end_socket \/ StopINET \/ GotoLink => UNCHANGED recvq
  BY DEF StartINET, StartINETQueues, create_connect, OpenSocket, Connect, ConnectReturns,
         SendPost, ResumeSend, bsend, end_socket, StopINET, GotoLink, inetVars
<1>4. Mmi \/ User \/ Network => UNCHANGED recvq
  BY DEF Mmi, User, OnDNR, OnConnected, OnDataRead, OnBufferFree, OnClosed,
         OnDataArrived, OnDataEnd, OnGotoUrl, OnGuiDestroyed, resend, Leave, PressStop,
         Network, NetConnects, NetBufferFree, ServerAnswers, RemoteCloses, LocalCloses,
         DnsAnswers, inetVars
<1> QED  BY <1>1, <1>2, <1>3, <1>4 DEF Next, Helper

\* A new connection finds an empty file, and nothing received before.
LEMMA OpensBlankFile ==
  ASSUME EndInv, ~ HurriedUser, Quiet, OpenSocket, sock' # NoSock, opened \in Pages
  PROVE  Content'
<1>0. /\ Types /\ hp = "socket" /\ sock' \in Socks
      /\ UNCHANGED <<receive_mode, cache, recvq, opened, FNCACHE>>
  BY Patient DEF OpenSocket, viewVars, pageVars
<1>1. conns'[sock'].rd = 0
  BY OpensUnread
<1>2. AllRead' = <<>>
  <2>1. AllRead' = Answer(opened', conns'[sock'].resp, conns'[sock'].rd)
    BY DEF AllRead, Answer
  <2> QED  BY <1>1, <2>1, AnswerBlank
<1>3. ~ receive_mode
  BY <1>0 DEF Quiet
<1>4. connect_state = 0 /\ ~ Queued("free_socket")
  BY <1>0, Patient DEF OneConnecting, SockHeld, Connecting
<1>5. recvq = <<>>
  BY <1>4, Patient DEF Cleaned
<1>6. FNCACHE = opened
  <2>1. URL # NULL
    BY <1>0, Patient DEF UrlAwaits, Building, Connecting
  <2> QED  BY <2>1, Patient DEF ViewHeld, Current
<1>7. cache[opened] = <<>>
  <2>1. FNCACHE # NULL
    BY <1>6, NullAssumption
  <2> QED  BY <1>4, <1>6, <2>1, Patient DEF Begins, Idle, Untouched, Uncached
<1>8. SelectInSeq(AllRead, HeaderEnds)' = 0
  BY <1>2, AnswerBlank DEF SelectInSeq, SelectInSubSeq
<1> QED  BY <1>0, <1>2, <1>3, <1>5, <1>7, <1>8 DEF Content

\* Without get_answer nothing of this changes.
LEMMA ContentKept ==
  ASSUME EndInv, ~ HurriedUser, Quiet, Content, Watching, Next, UNCHANGED <<sock, opened>>,
         sock \in Socks, Alive(sock), Alive(sock)', ~ OpenSocket, ~ StartINET, ~ get_answer
  PROVE  Content'
<1>0. /\ Types /\ ClosesOnce /\ SentOnce /\ OneConnecting /\ SockHeld
      /\ conns[sock] \in SoundConns /\ sock' # NoSock
  BY Patient, SocksAssumption DEF Types, OsTypes, NoSock
<1>1. conns'[sock].rd = conns[sock].rd
  BY <1>0, SockRead
<1>2. UNCHANGED receive_mode
  BY <1>0, ReceiveKept
<1>3. UNCHANGED cache
  BY <1>0, CacheChanges
<1>4. UNCHANGED recvq \/ receive_mode
  BY <1>0, RecvqSource DEF Quiet
<1>5. conns'[sock].resp = conns[sock].resp \/ conns[sock].rd = 0
  <2>1. CASE ServerAnswers(sock)
    <3>1. PICK r \in Responses :
            /\ conns[sock].resp \in {<<>>, r}
            /\ conns' = [conns EXCEPT ![sock].resp = r, ![sock].sent = @ + 1]
      BY <2>1 DEF ServerAnswers
    <3>2. conns'[sock].resp = r
      BY <1>0, <3>1 DEF Types, OsTypes, SoundConns, Conns
    <3>3. conns[sock].resp = <<>> => conns[sock].rd = 0
      BY <1>0 DEF SoundConns, Conns
    <3> QED  BY <3>1, <3>2, <3>3
  <2> QED  BY <1>0, <2>1, ConnSource
<1>6. AllRead' = AllRead
  <2>1. AllRead' = Answer(opened, conns'[sock].resp, conns'[sock].rd)
    BY DEF AllRead, Answer
  <2>2. CASE conns'[sock].resp = conns[sock].resp
    BY <1>1, <2>1, <2>2 DEF AllRead
  <2>3. CASE conns[sock].rd = 0
    BY <1>1, <2>1, <2>3, AnswerBlank DEF AllRead
  <2> QED  BY <1>5, <2>2, <2>3
<1>7. SelectInSeq(AllRead, HeaderEnds)' = SelectInSeq(AllRead, HeaderEnds)
  BY <1>6 DEF SelectInSeq
<1>8. AfterHeader(AllRead)' = AfterHeader(AllRead)
  BY <1>6 DEF AfterHeader
<1> QED  BY <1>2, <1>3, <1>4, <1>6, <1>7, <1>8 DEF Content

\* get_answer adds the next piece of the answer to the page.
LEMMA ContentRead ==
  ASSUME EndInv, ~ HurriedUser, Stored, Content, Watching, get_answer, Alive(sock)
  PROVE  Content'
<1>0. /\ Types /\ sock \in Socks /\ opened \in Pages /\ receive_mode \in BOOLEAN
      /\ conns \in [Socks -> SoundConns] /\ conns[sock] \in Conns /\ conns[sock] \in SoundConns
      /\ cache \in [Pages -> Seq(Chunks)] /\ UNCHANGED <<sock, opened>>
  BY Patient DEF get_answer, viewVars, Types, InetTypes, ViewTypes, OsTypes, PageTypes, Alive,
     SoundConns
<1>1. CASE ~ (conns[sock].rd < conns[sock].sent)
  <2>1. UNCHANGED <<conns, receive_mode, cache, recvq>>
    BY <1>1 DEF get_answer
  <2> QED  BY <1>0, <2>1 DEF Content, AllRead, Answer, AfterHeader, SelectInSeq
<1>2. CASE conns[sock].rd < conns[sock].sent
  <2> DEFINE r == conns[sock].resp
             n == conns[sock].rd
             c == [req |-> opened, k |-> n + 1, kind |-> r[n + 1]]
             all == Answer(opened, r, n)
             q == Append(recvq, c)
             inHeader == ~receive_mode /\ SelectInSeq(q, HeaderEnds) = 0
             body == IF receive_mode THEN <<c>>
                     ELSE IF inHeader THEN <<>> ELSE AfterHeader(q)
  <2>1. /\ r \in Seq(SegKinds) /\ n \in Nat /\ n < Len(r) /\ conns[sock].got > 0
    BY <1>0, <1>2 DEF SoundConns, Conns
  <2>2. FNCACHE = opened /\ FNCACHE # NULL
    <3>1. sock # NoSock
      BY <1>0, SocksAssumption DEF NoSock
    <3> QED  BY <3>1, Patient DEF Stored, Current
  <2>3. conns[sock].req = opened
    <3>1. conns[sock].req \in {NULL, opened}
      BY <2>2, Patient DEF OwnCache, SockData
    <3>2. conns[sock].req # NULL
      BY <1>0, <2>1, NullAssumption DEF SoundConns
    <3> QED  BY <3>1, <3>2
  <2>4. Chunk(sock) = c
    BY <2>3 DEF Chunk
  <2>5. /\ conns' = [conns EXCEPT ![sock].rd = @ + 1]
        /\ receive_mode' = ~ inHeader
        /\ recvq' = IF receive_mode THEN recvq ELSE q
        /\ IF body = <<>> THEN UNCHANGED cache ELSE writecache(body)
    <3>1. /\ conns' = [conns EXCEPT ![sock].rd = @ + 1]
          /\ receive_mode' = ~(~receive_mode /\ SelectInSeq(Append(recvq, Chunk(sock)), HeaderEnds) = 0)
          /\ recvq' = IF receive_mode THEN recvq ELSE Append(recvq, Chunk(sock))
          /\ IF (IF receive_mode THEN <<Chunk(sock)>>
                 ELSE IF ~receive_mode /\ SelectInSeq(Append(recvq, Chunk(sock)), HeaderEnds) = 0
                      THEN <<>> ELSE AfterHeader(Append(recvq, Chunk(sock)))) = <<>>
             THEN UNCHANGED cache
             ELSE writecache(IF receive_mode THEN <<Chunk(sock)>>
                 ELSE IF ~receive_mode /\ SelectInSeq(Append(recvq, Chunk(sock)), HeaderEnds) = 0
                      THEN <<>> ELSE AfterHeader(Append(recvq, Chunk(sock))))
      BY <1>2 DEF get_answer
    <3> QED  BY <2>4, <3>1
  <2>6. /\ all \in Seq(Chunks) /\ c \in Chunks /\ Answer(opened, r, n + 1) = Append(all, c)
    <3>1. r \in Seq(SegKinds) /\ n \in Nat /\ n <= Len(r) /\ n < Len(r)
      BY <2>1
    <3> HIDE DEF r, n
    <3>2. /\ Answer(opened, r, n) \in Seq(Chunks)
          /\ [req |-> opened, k |-> n + 1, kind |-> r[n + 1]] \in Chunks
          /\ Answer(opened, r, n + 1) = Append(Answer(opened, r, n),
                                             [req |-> opened, k |-> n + 1, kind |-> r[n + 1]])
      BY <1>0, <3>1, AnswerGrows
    <3> QED  BY <3>2
  <2>7. conns'[sock].rd = n + 1 /\ conns'[sock].resp = r
    BY <1>0, <2>5 DEF Conns
  <2>8. AllRead' = Append(all, c)
    BY <1>0, <2>6, <2>7 DEF AllRead, Answer
  <2>9. AllRead = all
    BY DEF AllRead
  <2> HIDE DEF r, n, c, all
  <2>10. cache[opened] \in Seq(Chunks)
    BY <1>0
  <2>11. CASE receive_mode
    <3>1. SelectInSeq(all, HeaderEnds) # 0 /\ cache[opened] = AfterHeader(all)
      BY <2>9, <2>11 DEF Content, Watching
    <3>2. receive_mode' /\ writecache(<<c>>)
      <4>1. body = <<c>> /\ <<c>> # <<>>
        BY <2>11
      <4> QED  BY <2>5, <2>11, <4>1
    <3>3. cache'[opened] = cache[opened] \o <<c>>
      BY <1>0, <2>2, <3>2 DEF writecache
    <3>4. /\ SelectInSeq(Append(all, c), HeaderEnds) # 0
          /\ AfterHeader(Append(all, c)) = AfterHeader(all) \o <<c>>
      BY <2>6, <3>1, BodyGrows
    <3>5. SelectInSeq(AllRead, HeaderEnds)' # 0 /\ cache'[opened] = AfterHeader(AllRead)'
      BY <2>8, <3>1, <3>3, <3>4 DEF SelectInSeq, AfterHeader
    <3> QED  BY <1>0, <3>2, <3>5 DEF Content
  <2>12. CASE ~ receive_mode
    <3>1. cache[opened] = <<>> /\ recvq = all
      BY <2>9, <2>12 DEF Content, Watching
    <3>2. q = Append(all, c) /\ recvq' = q /\ q \in Seq(Chunks)
      BY <2>5, <2>6, <2>12, <3>1
    <3>3. CASE inHeader
      <4>1. ~ receive_mode' /\ UNCHANGED cache
        BY <2>5, <2>12, <3>3
      <4>2. SelectInSeq(AllRead, HeaderEnds)' = 0
        BY <2>8, <3>2, <3>3 DEF SelectInSeq
      <4> QED  BY <1>0, <2>8, <3>1, <3>2, <4>1, <4>2 DEF Content
    <3>4. CASE ~ inHeader
      <4>1. receive_mode' /\ SelectInSeq(q, HeaderEnds) # 0 /\ body = AfterHeader(q)
        BY <2>5, <2>12, <3>4
      <4>2. AfterHeader(q) \in Seq(Chunks)
        BY <3>2, <4>1, HeaderEnd
      <4>3. cache'[opened] = AfterHeader(q)
        <5>1. CASE AfterHeader(q) = <<>>
          BY <2>5, <3>1, <4>1, <5>1
        <5>2. CASE AfterHeader(q) # <<>>
          <6>1. writecache(AfterHeader(q))
            BY <2>5, <4>1, <5>2
          <6>2. cache'[opened] = cache[opened] \o AfterHeader(q)
            BY <1>0, <2>2, <6>1 DEF writecache
          <6>3. \A s \in Seq(Chunks) : <<>> \o s = s
            OBVIOUS
          <6> QED  BY <3>1, <4>2, <6>2, <6>3
        <5> QED  BY <5>1, <5>2
      <4>4. SelectInSeq(AllRead, HeaderEnds)' # 0 /\ cache'[opened] = AfterHeader(AllRead)'
        BY <2>8, <3>2, <4>1, <4>3 DEF SelectInSeq, AfterHeader
      <4> QED  BY <1>0, <4>1, <4>4 DEF Content
    <3> QED  BY <3>3, <3>4
  <2> QED  BY <2>11, <2>12
<1> QED  BY <1>1, <1>2

LEMMA ContentStep ==
  ASSUME EndInv, ~ HurriedUser, Stored, Quiet, Content, Next
  PROVE  Content'
<1> SUFFICES ASSUME Watching', Alive(sock)' PROVE Content'
  BY DEF Content
<1>0. /\ Types /\ ClosesOnce /\ SentOnce /\ sock' \in Socks /\ sock' # NoSock
      /\ opened \in Pages
  BY Patient, SocksAssumption DEF Types, ViewTypes, Alive, NoSock
<1>1. CASE OpenSocket
  BY <1>0, <1>1, OpensBlankFile
<1>2. CASE ~ OpenSocket
  <2>1. Watching /\ UNCHANGED <<sock, opened>> /\ sock \in Socks /\ ~ StartINET
    BY <1>0, <1>2, Watched
  <2>2. Alive(sock)
    BY <1>0, <1>2, <2>1, SockRead, AliveKept
  <2> QED  BY <1>2, <2>1, <2>2, ContentKept, ContentRead
<1> QED  BY <1>1, <1>2

-----------------------------------------------------------------------------
\* The cache file of the page p holds the body of an answer, to its end.
Complete(p) == \E r \in Responses : cache[p] = BodyOf(p, r)

\* Every answer has a header that ends.
HeadersEnd ==
  \A w \in Worlds : \A r \in w.responses : \E i \in DOMAIN r : r[i] \in {"hdrEnd", "hdrBody"}

\* The page is complete when its socket is closed, when the view is about to be told
\* so, and when it was told.
Done == Watching /\ sock \in Socks /\ ~ Alive(sock) => Complete(opened)
Finished == Watching /\ Sent({"DATA_END"}) => Complete(opened)
EndedWhole == "peer" \notin Faults /\ stops = 0 => \A p \in Pages : ended[p] => Complete(p)

LEMMA DoneInit == Init => Done /\ Finished /\ EndedWhole
<1> SUFFICES ASSUME Init PROVE Done /\ Finished /\ EndedWhole
  OBVIOUS
<1>1. sock \notin Socks
  BY SocksAssumption DEF Init, NoSock
<1>2. ~ Sent({"DATA_END"}) /\ \A p \in Pages : ~ ended[p]
  BY DEF Init, Sent, Has
<1> QED  BY <1>1, <1>2 DEF Done, Finished, EndedWhole

\* end_socket comes when all was read.
LEMMA AllIsRead ==
  ASSUME EndInv, ~ HurriedUser, Served, Counted, Content, HeadersEnd,
         Watching, Alive(sock), end_socket
  PROVE  Complete(opened)
<1>0. /\ Types /\ SockHeld /\ sock \in Socks /\ conns[sock] \in SoundConns /\ opened \in Pages
      /\ world \in Worlds
  BY Patient DEF Types, OsTypes, ViewTypes, Alive
<1>1. In(helperq, "end_socket") /\ ~ In(helperq, "get_answer")
  <2>1. Before(helperq, "get_answer", "end_socket")
    BY DEF Counted
  <2> QED  BY <1>0, <2>1, DequeueStep DEF end_socket
<1>2. connect_state = -1 /\ ~ In(mmiq, ReadMsg) /\ Unread + conns[sock].rd = conns[sock].sent
  BY <1>1 DEF Counted, Queued
<1>3. Unread = 0
  <2>1. Count(mmiq, ReadMsg) = 0 /\ Count(helperq, "get_answer") = 0
    BY <1>0, <1>1, <1>2, UnreadTypes DEF Queued
  <2> QED  BY <2>1 DEF Unread
<1>4. conns[sock].rd = conns[sock].sent
  BY <1>0, <1>2, <1>3, UnreadTypes
<1>5. conns[sock].st = "remoteClosed"
  BY <1>0, <1>2 DEF SockHeld, Alive
<1> DEFINE r == conns[sock].resp
<1>6. r \in Responses /\ conns[sock].sent = Len(r) /\ r \in Seq(SegKinds)
  BY <1>0, <1>5 DEF Served, Watching, SoundConns, Conns
<1>7. AllRead = Answer(opened, r, Len(r))
  BY <1>4, <1>6 DEF AllRead
<1> HIDE DEF r
<1>8. PICK i \in DOMAIN r : r[i] \in {"hdrEnd", "hdrBody"}
  BY <1>0, <1>6 DEF HeadersEnd, Responses
<1>9. SelectInSeq(AllRead, HeaderEnds) # 0
  <2>1. AllRead \in Seq(Chunks) /\ Len(AllRead) = Len(r)
    <3>1. Len(r) \in Nat /\ Len(r) <= Len(r)
      BY <1>6
    <3> QED  BY <1>0, <1>6, <1>7, <3>1, AnswerGrows
  <2>2. i \in 1 .. Len(r)
    BY <1>6, <1>8
  <2>3. HeaderEnds(AllRead[i])
    BY <1>7, <1>8, <2>2 DEF Answer, HeaderEnds
  <2> QED  BY <2>1, <2>2, <2>3, HeaderFound
<1>10. cache[opened] = AfterHeader(AllRead)
  BY <1>9 DEF Content
<1> QED  BY <1>6, <1>7, <1>10, WholeAnswer DEF Complete

LEMMA CompleteKept ==
  ASSUME Next, NEW p, Complete(p), cache'[p] = cache[p]
  PROVE  \E r \in Responses' : cache'[p] = BodyOf(p, r)
BY DEF Complete, Next, Responses

LEMMA DoneStep ==
  ASSUME EndInv, ~ HurriedUser, Quiet, Served, Counted, Content, HeadersEnd, Done, Next
  PROVE  Done'
<1> SUFFICES ASSUME Watching', sock' \in Socks, ~ Alive(sock)'
             PROVE  \E r \in Responses' : cache'[opened'] = BodyOf(opened', r)
  BY DEF Done, Complete, BodyOf, AfterHeader, SelectInSeq, HeaderEnds
<1>0. Types /\ sock' # NoSock /\ opened \in Pages
  BY Patient, SocksAssumption DEF NoSock, Types, ViewTypes
<1>1. /\ Watching /\ UNCHANGED <<sock, opened>> /\ sock \in Socks /\ ~ StartINET
      /\ Alive(sock) => end_socket
  BY <1>0, Watched
<1>2. Complete(opened)
  BY <1>1, AllIsRead DEF Done
<1>3. cache'[opened] = cache[opened]
  <2>1. CASE get_answer
    <3>1. ~ Alive(sock)
      <4>1. get_answer => Starts("get_answer")
        BY DEF get_answer
      <4>2. end_socket => Starts("end_socket")
        BY DEF end_socket
      <4> QED  BY <1>1, <2>1, <4>1, <4>2 DEF Starts
    <3> QED  BY <1>0, <2>1, <3>1, WrittenBy
  <2> QED  BY <1>0, <1>1, <2>1, CacheChanges
<1> QED  BY <1>1, <1>2, <1>3, CompleteKept

LEMMA FinishedStep ==
  ASSUME EndInv, ~ HurriedUser, Done, Finished, Next
  PROVE  Finished'
<1> SUFFICES ASSUME Watching', Sent({"DATA_END"})'
             PROVE  \E r \in Responses' : cache'[opened'] = BodyOf(opened', r)
  BY DEF Finished, Complete, BodyOf, AfterHeader, SelectInSeq, HeaderEnds
<1>0. /\ Types /\ OneOpening /\ ViewHeld /\ DataFirst /\ Ending /\ Current /\ ClosesOnce
      /\ SockHeld /\ StopsDone /\ Stale /\ opened \in Pages
  BY Patient DEF Types, ViewTypes
<1>1. ~ OnGotoUrl
  BY <1>0, OpensFresh
<1>2. UNCHANGED opened /\ view # 0
  BY <1>1, ViewChanges DEF viewVars, Leave, Watching
<1>3. Watching
  BY <1>0, <1>2, StopsSource DEF Watching, Next, Faults
<1>4. CASE Sent({"DATA_END"})
  <2>1. Complete(opened)
    BY <1>3, <1>4 DEF Finished
  <2>2. cache'[opened] = cache[opened]
    BY <1>0, <1>2, <1>4, FileLasts DEF Over
  <2> QED  BY <1>2, <2>1, <2>2, CompleteKept
<1>5. CASE ~ Sent({"DATA_END"})
  <2>1. OnClosed /\ Ours /\ connect_state = -1
    BY <1>0, <1>5, EndSent
  <2>2. sock \in Socks /\ ~ Alive(sock)
    BY <1>0, <2>1, LastClose
  <2>3. Complete(opened)
    BY <1>3, <2>2 DEF Done
  <2>4. UNCHANGED cache
    BY <2>1 DEF OnClosed, pageVars
  <2> QED  BY <1>2, <2>3, <2>4, CompleteKept
<1> QED  BY <1>4, <1>5

LEMMA EndedWholeStep ==
  ASSUME EndInv, ~ HurriedUser, Finished, EndedWhole, Next
  PROVE  EndedWhole'
<1> SUFFICES ASSUME "peer" \notin Faults', stops' = 0, NEW p \in Pages, ended'[p]
             PROVE  \E r \in Responses' : cache'[p] = BodyOf(p, r)
  BY DEF EndedWhole, Complete, Pages, BodyOf, AfterHeader, SelectInSeq, HeaderEnds
<1>0. /\ Types /\ OneLoading /\ UrlFreed /\ OneOpening /\ StopsDone /\ ViewHeld /\ Current
      /\ Ending /\ ended \in [Pages -> BOOLEAN]
  BY Patient DEF Types, PageTypes
<1>1. "peer" \notin Faults /\ stops = 0
  BY <1>0, StopsSource DEF Next, Faults
<1>2. CASE ended[p]
  <2>1. Complete(p)
    BY <1>1, <1>2 DEF EndedWhole
  <2>2. cache'[p] = cache[p]
    BY <1>0, <1>2, LastStep
  <2> QED  BY <2>1, <2>2, CompleteKept
<1>3. CASE ~ ended[p]
  <2>1. OnDataEnd /\ Sent({"DATA_END"})
    BY <1>0, <1>3, EndedChanges
  <2>2. view = p /\ view # 0
    <3>1. ended' = IF view = 0 THEN ended ELSE [ended EXCEPT ![view] = TRUE]
      BY <1>0, <2>1, EndedChanges
    <3> QED  BY <1>0, <1>3, <3>1
  <2>3. p = opened
    BY <1>0, <2>2 DEF Current
  <2>4. Complete(p)
    BY <1>1, <2>1, <2>2, <2>3 DEF Finished, Watching
  <2>5. UNCHANGED cache
    BY <2>1 DEF OnDataEnd
  <2> QED  BY <2>4, <2>5, CompleteKept
<1> QED  BY <1>2, <1>3


CompleteInv ==
  /\ EndInv /\ Served
  /\ ~ HurriedUser => Stored /\ Quiet /\ Counted /\ Content /\ Done /\ Finished /\ EndedWhole

LEMMA CompleteInit == Init => CompleteInv
BY EndInit, ServedInit, StoredInit, QuietInit, CountedInit, ContentInit, DoneInit DEF CompleteInv

\* Nothing of this is about what a step that changes nothing does.
LEMMA CompleteStays ==
  ASSUME CompleteInv, UNCHANGED <<vars, world>>
  PROVE  CompleteInv'
<1>1. UNCHANGED <<connect_state, sock, receive_mode, URL, FNCACHE, recvq, sendq, send_tmr, DNR_ID,
                  DNR_TRIES, STOPPED, view, view_url, opened, helperq, hp, seg, mmiq, conns, dnr,
                  cache, shown, ended, stops, crashed, world>>
  BY DEF vars, inetVars, viewVars, helperVars, osVars, pageVars
<1>2. /\ (Posting' <=> Posting) /\ (Alive(sock)' <=> Alive(sock)) /\ (Preparing' <=> Preparing)
      /\ \A p : (Queued(p)' <=> Queued(p))
      /\ \A K : (Sent(K)' <=> Sent(K))
      /\ (Stopping' <=> Stopping) /\ (Watching' <=> Watching) /\ (HurriedUser' <=> HurriedUser)
      /\ Unread' = Unread /\ ReadMsg' = ReadMsg /\ CloseMsg' = CloseMsg /\ AllRead' = AllRead
      /\ Responses' = Responses /\ Faults' = Faults
  BY <1>1 DEF Posting, Alive, Preparing, Connecting, LookingUp, Queued, Sent, Stopping, Watching,
     HurriedUser, Unread, ReadMsg, CloseMsg, AllRead, Responses, Faults
<1>3. EndInv'
  BY EndInvStep DEF CompleteInv
<1>4. Served => Served'
  BY <1>1, <1>2 DEF Served
<1>5. Stored => Stored'
  BY <1>1, <1>2 DEF Stored, Pages
<1>6. Quiet => Quiet'
  BY <1>1, <1>2 DEF Quiet
<1>7. Counted => Counted'
  BY <1>1, <1>2 DEF Counted
<1>8. Content => Content'
  BY <1>1, <1>2 DEF Content
<1>9. \A p : (Complete(p)' <=> Complete(p))
  BY <1>1, <1>2 DEF Complete
<1>10. Done /\ Finished /\ EndedWhole => (Done /\ Finished /\ EndedWhole)'
  BY <1>1, <1>2, <1>9 DEF Done, Finished, EndedWhole, Pages
<1> QED  BY <1>2, <1>3, <1>4, <1>5, <1>6, <1>7, <1>8, <1>10 DEF CompleteInv

LEMMA CompleteStep ==
  ASSUME HeadersEnd, CompleteInv, [Next]_<<vars, world>>
  PROVE  CompleteInv'
<1>1. CASE Next
  <2>1. EndInv /\ Types /\ Served
    BY DEF CompleteInv, EndInv, OrderInv, PageInv, IInv
  <2>2. EndInv' /\ Served'
    BY <1>1, <2>1, EndInvStep, ServedStep
  <2>3. HurriedUser' <=> HurriedUser
    BY <1>1 DEF Next, HurriedUser
  <2>4. CASE ~ HurriedUser
    <3>1. Stored /\ Quiet /\ Counted /\ Content /\ Done /\ Finished /\ EndedWhole
      BY <2>4 DEF CompleteInv
    <3>2. Stored' /\ Quiet' /\ Counted' /\ Content'
      BY <1>1, <2>1, <2>4, <3>1, StoredStep, QuietStep, CountedStep, ContentStep
    <3>3. Done' /\ Finished' /\ EndedWhole'
      BY <1>1, <2>1, <2>4, <3>1, DoneStep, FinishedStep, EndedWholeStep
    <3> QED  BY <2>2, <3>2, <3>3 DEF CompleteInv
  <2> QED  BY <2>2, <2>3, <2>4 DEF CompleteInv
<1>2. CASE UNCHANGED <<vars, world>>
  BY <1>2, CompleteStays
<1> QED  BY <1>1, <1>2

LEMMA CompleteShows ==
  ASSUME CompleteInv
  PROVE  CacheComplete
<1> SUFFICES ASSUME ~ HurriedUser, "peer" \notin Faults, NEW p \in Pages
             PROVE  /\ shown[p] # <<>> => IsPrefix(shown[p], cache[p])
                    /\ ended[p] /\ stops = 0 => \E r \in Responses : cache[p] = BodyOf(p, r)
  BY DEF CacheComplete
<1>1. shown[p] \in Seq(Chunks) /\ cache[p] \in Seq(Chunks)
  BY DEF CompleteInv, EndInv, OrderInv, PageInv, IInv, Types, PageTypes
<1>2. IsPrefix(shown[p], cache[p])
  <2> DEFINE s == shown[p]
             t == cache[p]
             u == SubSeq(t, 1, Len(s))
             v == SubSeq(s, 1, Len(s))
  <2>1. s \in Seq(Chunks) /\ t \in Seq(Chunks) /\ Len(s) \in Nat /\ Len(t) \in Nat
    BY <1>1
  <2>2. Len(s) <= Len(t) /\ \A i \in 1 .. Len(s) : t[i] = s[i]
    BY DEF CompleteInv, Stored, Leads
  <2> HIDE DEF s, t
  <2>3. v \in Seq(Chunks) /\ Len(v) = Len(s) /\ \A i \in 1 .. Len(s) : v[i] = s[i]
    BY <2>1
  <2>4. u \in Seq(Chunks) /\ Len(u) = Len(s) /\ \A i \in 1 .. Len(s) : u[i] = t[i]
    BY <2>1, <2>2
  <2> HIDE DEF u, v
  <2>5. u = v
    BY <2>1, <2>2, <2>3, <2>4
  <2>6. IsPrefix(s, t)
    BY <2>2, <2>5 DEF IsPrefix, u, v
  <2> QED  BY <2>6 DEF s, t
<1>3. ended[p] /\ stops = 0 => \E r \in Responses : cache[p] = BodyOf(p, r)
  BY DEF CompleteInv, EndedWhole, Complete
<1> QED  BY <1>2, <1>3

\* For a user who waits for each request: every byte a page shows is in its cache file,
\* and when nobody pressed Stop a page that was told DATA_END has the whole body of an
\* answer in it, although inet.c learns of the end by two closes that overtake the
\* reading (OnClosed, get_answer).  For every world whose server sends headers that end.
THEOREM CacheIsWhole == HeadersEnd => (Spec => []CacheComplete)
<1> SUFFICES ASSUME HeadersEnd PROVE Spec => []CacheComplete
  OBVIOUS
<1>1. CompleteInv /\ [Next]_<<vars, world>> => CompleteInv'
  BY CompleteStep
<1> QED  BY <1>1, CompleteInit, CompleteShows, PTL DEF Spec
=============================================================================
