-------------------------------- MODULE AnswerProofs --------------------------------
(***************************************************************************)
(* What happens to a request and to its answer. The segments of a request  *)
(* wait in the kernel and in the buffer of a Connection, in their order,   *)
(* and are cut off once; a request is dispatched when none of it is coming *)
(* any more. From then on its answer is in one place: the pipe of its CGI  *)
(* program and the buffer of that pipe, the queue of a Connection, the     *)
(* hands of a client. It is handed out once because it leaves each place   *)
(* for the next, though descriptors and entries of connections_ pass from  *)
(* client to client underneath it; and static resources never overtake     *)
(* each other on the way.                                                  *)
(***************************************************************************)
EXTENDS ConnectionProofs

-----------------------------------------------------------------------------
(* Segments on their way: those in the kernel and those in the buffer of the socket. *)

\* Segment a was sent before segment b.
Before(a, b) == a.req[2] <= b.req[2] /\ (a.last => a.req[2] < b.req[2])

Ordered(q)   == \A i, j \in DOMAIN q : i < j => Before(q[i], q[j])
Behind(p, q) == \A i \in DOMAIN p, j \in DOMAIN q : Before(p[i], q[j])
Among(g, q)  == \E i \in DOMAIN q : q[i] = g

Buffer(fd) == BufOf(conn[Home[sock[fd]]][fd])

Coming(c, g) == \/ Among(g, inbuf[c])
                \/ \E fd \in Fds : sock[fd] = c /\ Among(g, Buffer(fd))

\* What the client has announced of the request a segment belongs to.
WellSent(c, g) ==
    /\ g.req[1] = c /\ g.req[2] \in 1..Len(sent[c])
    /\ g.last => g.req[2] <= Whole(c)
    /\ g.kind = sent[c][g.req[2]]

StreamInv ==
    /\ \A c \in Clients : Ordered(inbuf[c])
    /\ \A fd \in Fds : sock[fd] # None => /\ Ordered(Buffer(fd))
                                          /\ Behind(Buffer(fd), inbuf[sock[fd]])
    /\ \A c \in Clients : \A g : Coming(c, g) => WellSent(c, g)

-----------------------------------------------------------------------------
(* Sequences of segments. *)

\* A part of a sequence, h places further on.
PartOf(r, q, h) == \A i \in DOMAIN r : i \in Nat /\ h + i \in DOMAIN q /\ r[i] = q[h + i]

LEMMA Parts ==
    ASSUME NEW q, NEW r, NEW h \in Int, PartOf(r, q, h)
    PROVE  /\ Ordered(q) => Ordered(r)
           /\ \A p : Behind(p, q) => Behind(p, r)
           /\ \A p : Behind(q, p) => Behind(r, p)
           /\ \A g : Among(g, r) => Among(g, q)
<1>1. ASSUME Ordered(q), NEW i \in DOMAIN r, NEW j \in DOMAIN r, i < j
      PROVE  Before(r[i], r[j])
  <2>1. /\ h + i \in DOMAIN q /\ h + j \in DOMAIN q /\ r[i] = q[h + i] /\ r[j] = q[h + j]
        /\ h + i < h + j
    BY <1>1 DEF PartOf
  <2>2. Before(q[h + i], q[h + j])
    BY <1>1, <2>1 DEF Ordered
  <2>3. QED
    BY <2>1, <2>2
<1>2. QED
  BY <1>1 DEF PartOf, Ordered, Behind, Among

\* recv moves the first segments from the kernel to the end of the buffer.
LEMMA RecvOrder ==
    ASSUME NEW b \in Seq(Segments), NEW q \in Seq(Segments), NEW k \in 1..Len(q),
           Ordered(q)
    PROVE  LET t == b \o SubSeq(q, 1, k)
               r == SubSeq(q, k + 1, Len(q))
           IN  /\ t \in Seq(Segments) /\ r \in Seq(Segments)
               /\ Ordered(r)
               /\ Ordered(b) /\ Behind(b, q) => Ordered(t) /\ Behind(t, r)
               /\ \A g : Among(g, r) => Among(g, q)
               /\ \A g : Among(g, t) => Among(g, b) \/ Among(g, q)
<1> DEFINE a == SubSeq(q, 1, k)
           t == b \o a
           r == SubSeq(q, k + 1, Len(q))
           m == Len(b)
<1>1. /\ a \in Seq(Segments) /\ Len(a) = k /\ \A i \in 1..k : a[i] = q[i]
      /\ Len(q) \in Nat /\ k \in Nat /\ k <= Len(q) /\ DOMAIN q = 1..Len(q)
  BY SubSeqProperties
<1>2. r \in Seq(Segments) /\ DOMAIN r = 1..(Len(q) - k) /\ PartOf(r, q, k)
  <2>0. r \in Seq(Segments) /\ Len(r) = Len(q) - k /\ \A i \in 1..Len(r) : r[i] = q[k + i]
    BY SubSeqProperties
  <2>1. r \in Seq(Segments) /\ Len(r) = Len(q) - k /\ \A i \in 1..(Len(q) - k) : r[i] = q[k + i]
    BY <2>0
  <2> HIDE DEF r
  <2>2. DOMAIN r = 1..(Len(q) - k)
    BY <2>1
  <2>3. \A i \in 1..(Len(q) - k) : i \in Nat /\ k + i \in 1..Len(q)
    BY <1>1
  <2>4. QED
    BY <1>1, <2>1, <2>2, <2>3 DEF PartOf
<1>3. /\ t \in Seq(Segments) /\ m \in Nat /\ DOMAIN b = 1..m
      /\ \A i \in DOMAIN t : /\ i \in Nat
                             /\ i <= m => i \in DOMAIN b /\ t[i] = b[i]
                             /\ i > m => i - m \in 1..k /\ t[i] = q[i - m]
  <2>1. t \in Seq(Segments) /\ m \in Nat /\ DOMAIN b = 1..m /\ Len(t) = m + k /\ DOMAIN t = 1..(m + k)
    BY <1>1
  <2>2. \A i \in 1..(m + k) : t[i] = IF i <= m THEN b[i] ELSE a[i - m]
    BY <1>1
  <2> HIDE DEF a, t, m
  <2>3. QED
    BY <1>1, <2>1, <2>2
<1> HIDE DEF a, r, t, m
<1>4. \A i \in 1..k : i \in DOMAIN q
  BY <1>1
<1>5. ASSUME Ordered(b), Behind(b, q)
      PROVE  Ordered(t) /\ Behind(t, r)
  <2>1. ASSUME NEW i \in DOMAIN t, NEW j \in DOMAIN t, i < j
        PROVE  Before(t[i], t[j])
    <3>0. i \in Nat /\ j \in Nat
      BY <1>3
    <3>1. CASE j <= m
      <4>1. i \in DOMAIN b /\ j \in DOMAIN b /\ t[i] = b[i] /\ t[j] = b[j]
        BY <1>3, <2>1, <3>0, <3>1
      <4>2. QED
        BY <1>5, <2>1, <4>1 DEF Ordered
    <3>2. CASE i <= m /\ j > m
      <4>1. i \in DOMAIN b /\ j - m \in DOMAIN q /\ t[i] = b[i] /\ t[j] = q[j - m]
        BY <1>3, <1>4, <3>2
      <4>2. QED
        BY <1>5, <4>1 DEF Behind
    <3>3. CASE i > m /\ j > m
      <4>1. /\ i - m \in DOMAIN q /\ j - m \in DOMAIN q /\ i - m < j - m
            /\ t[i] = q[i - m] /\ t[j] = q[j - m]
        BY <1>3, <1>4, <2>1, <3>0, <3>3
      <4>2. QED
        BY <4>1 DEF Ordered
    <3>4. QED
      BY <1>3, <2>1, <3>0, <3>1, <3>2, <3>3
  <2>2. ASSUME NEW i \in DOMAIN t, NEW j \in DOMAIN r
        PROVE  Before(t[i], r[j])
    <3>0. i \in Nat /\ j \in Nat /\ j > 0 /\ k + j \in DOMAIN q /\ r[j] = q[k + j]
      BY <1>1, <1>2, <1>3 DEF PartOf
    <3>1. CASE i <= m
      <4>1. i \in DOMAIN b /\ t[i] = b[i]
        BY <1>3, <3>1
      <4>2. QED
        BY <1>5, <3>0, <4>1 DEF Behind
    <3>2. CASE i > m
      <4>1. i - m \in DOMAIN q /\ t[i] = q[i - m] /\ i - m < k + j
        BY <1>1, <1>3, <1>4, <3>0, <3>2
      <4>2. QED
        BY <3>0, <4>1 DEF Ordered
    <3>3. QED
      BY <1>3, <3>0, <3>1, <3>2
  <2>3. QED
    BY <2>1, <2>2 DEF Ordered, Behind
<1>6. \A g : Among(g, t) => Among(g, b) \/ Among(g, q)
  <2>1. \A i \in DOMAIN t : \/ i \in DOMAIN b /\ t[i] = b[i]
                            \/ i - m \in DOMAIN q /\ t[i] = q[i - m]
    BY <1>3, <1>4
  <2>2. QED
    BY <2>1 DEF Among
<1>7. QED
  BY <1>1, <1>2, <1>3, <1>5, <1>6, Parts DEF t, r, a

\* getRequest leaves only segments of later requests.
LEMMA CutOrder ==
    ASSUME NEW b \in Seq(Segments), NEW q \in Seq(Segments), hasRequest(b),
           Ordered(b), Behind(b, q)
    PROVE  LET r == RestOf(b)
               n == b[1].req[2]
           IN  /\ Ordered(r) /\ Behind(r, q)
               /\ Among(b[1], b)
               /\ \A g : Among(g, r) => Among(g, b) /\ n < g.req[2]
               /\ \A g : Among(g, q) => n < g.req[2]
               /\ \E g : Among(g, b) /\ g.last /\ n <= g.req[2]
<1> DEFINE e == RequestEnd(b)
           r == RestOf(b)
           n == b[1].req[2]
<1>1. e \in 1..Len(b) /\ b[e].last
  BY RequestEndType
<1>2. /\ DOMAIN b = 1..Len(b) /\ 1 \in DOMAIN b /\ e \in DOMAIN b
      /\ Len(b) \in Nat /\ e \in Nat /\ 1 <= e
  BY <1>1
<1>3. PartOf(r, b, e) /\ \A i \in DOMAIN r : e < e + i
  <2>1. /\ r \in Seq(Segments) /\ Len(r) = Len(b) - e
        /\ \A i \in 1..(Len(b) - e) : r[i] = b[e + i]
    BY <1>1, <1>2, SubSeqProperties, SMTT(30) DEF RestOf
  <2> HIDE DEF r, e
  <2>2. DOMAIN r = 1..(Len(b) - e)
    BY <2>1
  <2>3. \A i \in 1..(Len(b) - e) : i \in Nat /\ e + i \in 1..Len(b) /\ e < e + i
    BY <1>2
  <2>4. QED
    BY <1>2, <2>1, <2>2, <2>3 DEF PartOf
<1>4. /\ \A i \in DOMAIN b : b[i].req[2] \in Int
      /\ \A i \in DOMAIN q : q[i].req[2] \in Int
  <2>1. \A g \in Segments : g.req[2] \in Int
    BY WebserverAssumption DEF Segments, Origins
  <2>2. QED
    BY <2>1
<1> HIDE DEF e, r
<1>5. n <= b[e].req[2]
  <2>1. CASE e = 1
    BY <1>2, <1>4, <2>1
  <2>2. CASE e # 1
    <3>1. 1 < e
      BY <1>2, <2>2
    <3>2. Before(b[1], b[e])
      BY <1>2, <3>1 DEF Ordered
    <3>3. QED
      BY <3>2 DEF Before
  <2>3. QED
    BY <2>1, <2>2
<1>6. ASSUME NEW i \in DOMAIN r
      PROVE  n < r[i].req[2]
  <2>1. e + i \in DOMAIN b /\ e < e + i /\ r[i] = b[e + i]
    BY <1>3 DEF PartOf
  <2>2. b[e].req[2] < r[i].req[2]
    BY <1>1, <1>2, <2>1 DEF Ordered, Before
  <2>3. QED
    BY <1>2, <1>4, <1>5, <2>1, <2>2
<1>7. ASSUME NEW i \in DOMAIN q
      PROVE  n < q[i].req[2]
  <2>1. b[e].req[2] < q[i].req[2]
    BY <1>1, <1>2 DEF Behind, Before
  <2>2. QED
    BY <1>2, <1>4, <1>5, <2>1
<1>8. e \in Int
  BY <1>2
<1>9. /\ Ordered(r) /\ Behind(r, q)
      /\ \A g : Among(g, r) => Among(g, b)
  BY <1>3, <1>8, Parts
<1>10. /\ Among(b[1], b) /\ Among(b[e], b)
       /\ \A g : Among(g, r) => n < g.req[2]
       /\ \A g : Among(g, q) => n < g.req[2]
  BY <1>2, <1>6, <1>7 DEF Among
<1>11. QED
  BY <1>1, <1>5, <1>9, <1>10 DEF r
-----------------------------------------------------------------------------
(* How a pass of the loop changes the streams. *)

\* Nothing is received, and a socket keeps its buffer or has an empty one.
Flows ==
    /\ UNCHANGED inbuf
    /\ \A fd \in Fds : sock'[fd] # None =>
          \/ Buffer(fd)' = <<>>
          \/ sock'[fd] = sock[fd] /\ Buffer(fd)' = Buffer(fd)

\* What is received is kept, cut or, when the socket is closed, dropped.
Receives(k, fd) ==
    /\ recv(k) /\ fd = Fd
    /\ \A g \in Fds : g # fd =>
          sock'[g] = sock[g] /\ (sock[g] # None => Buffer(g)' = Buffer(g))
    /\ \/ sock'[fd] = None
       \/ /\ sock'[fd] = sock[fd] /\ Buffer(fd)' = Appended(k).buf
          /\ hasRequest(Appended(k).buf) => TooLarge(Appended(k).buf)
       \/ /\ sock'[fd] = sock[fd] /\ hasRequest(Appended(k).buf)
          /\ Buffer(fd)' = RestOf(Appended(k).buf)

\* A request is read by the server of its socket.
LEMMA ReadsOwn ==
    ASSUME IInv, LoopInv, NEW k, recv(k)
    PROVE  /\ Srv = Home[sock[Fd]] /\ Entry = conn[Home[sock[Fd]]][Fd]
           /\ Appended(k).buf = Buffer(Fd) \o SubSeq(inbuf[sock[Fd]], 1, k)
           /\ Buffer(Fd) \in Seq(Segments)
<1>1. kq.polled # None /\ kq.polled.info.type = REQUEST /\ up = "up" /\ pc = "process"
      /\ sock[Fd] # None
  BY RecvEntry
<1>2. Srv = Home[sock[Fd]]
  BY <1>1 DEF LoopInv, PolledKnown, Holding
<1>3. conn[Srv][Fd] \in Entries
  BY RecvEntry
<1>4. Appended(k).buf = BufOf(conn[Srv][Fd]) \o SubSeq(inbuf[sock[Fd]], 1, k)
  BY RecvEntry
<1>5. QED
  BY <1>2, <1>3, <1>4, EntryTypes DEF Buffer, Entry

\* A segment that is read goes to the buffer of its socket, and a request leaves it.
LEMMA TakesIn ==
    ASSUME IInv, LoopInv, NEW k \in Nat, Reads(k) \/ Dispatches(k), NEW fd \in Fds, fd = Fd
    PROVE  /\ Receives(k, fd) /\ sock'[fd] = sock[fd] /\ Srv = Home[sock[fd]]
           /\ Dispatches(k) => /\ hasRequest(Appended(k).buf)
                               /\ Buffer(fd)' = RestOf(Appended(k).buf)
<1>0. /\ sock \in [Fds -> Clients \cup {None}] /\ conn \in Tables
      /\ \A g \in Fds : sock[g] # None => Home[sock[g]] \in Servers
  BY WebserverAssumption DEF IInv, RegistryInv, TableInv
<1>1. recv(k) /\ UNCHANGED sock
  BY DEF Reads, Dispatches, Cuts, Refuses, Opens, Sends, kernelVars
<1>2. Srv = Home[sock[fd]] /\ sock[fd] # None
  BY <1>1, ReadsOwn, RecvEntry
<1>3. SameTableBut(conn, conn', Srv, fd)
  BY DEF Reads, Dispatches, Cuts, Becomes
<1>4. \A g \in Fds : g # fd => sock'[g] = sock[g] /\ (sock[g] # None => Buffer(g)' = Buffer(g))
  BY <1>0, <1>1, <1>3 DEF SameTableBut, SameEntry, Buffer
<1>5. \/ /\ BufOf(conn'[Srv][fd]) = Appended(k).buf
         /\ hasRequest(Appended(k).buf) => TooLarge(Appended(k).buf)
      \/ hasRequest(Appended(k).buf) /\ BufOf(conn'[Srv][fd]) = RestOf(Appended(k).buf)
  BY DEF Reads, Dispatches, Cuts, Becomes
<1>6. Dispatches(k) => /\ hasRequest(Appended(k).buf)
                      /\ BufOf(conn'[Srv][fd]) = RestOf(Appended(k).buf)
  BY DEF Dispatches, Cuts, Becomes
<1>7. QED
  BY <1>1, <1>2, <1>4, <1>5, <1>6 DEF Receives, Buffer

LEMMA KeptBuffers ==
    ASSUME IInv, UNCHANGED inbuf,
           \A s \in Servers, fd \in Fds : BufOf(conn'[s][fd]) = BufOf(conn[s][fd]),
           \A fd \in Fds : sock'[fd] \in {sock[fd], None}
    PROVE  Flows
<1>1. \A fd \in Fds : sock[fd] # None => Home[sock[fd]] \in Servers
  BY WebserverAssumption DEF IInv, RegistryInv
<1>2. QED
  BY <1>1 DEF Flows, Buffer

LEMMA StreamCases ==
    ASSUME IInv, LoopInv, Server, up' = "up"
    PROVE  Flows \/ \E k \in Nat, fd \in Fds : Receives(k, fd)
<1>0. /\ sock \in [Fds -> Clients \cup {None}] /\ conn \in Tables
      /\ \A fd \in Fds : sock[fd] # None => Home[sock[fd]] \in Servers
      /\ ~Ends
  BY WebserverAssumption DEF IInv, RegistryInv, TableInv, Ends, Exits
<1>1. UNCHANGED sock \/ (\E fd : Closes(fd)) => \A fd \in Fds : sock'[fd] \in {sock[fd], None}
  BY <1>0 DEF Closes
<1>2. SameTable(conn, conn') =>
        \A s \in Servers, fd \in Fds : BufOf(conn'[s][fd]) = BufOf(conn[s][fd])
  BY DEF SameTable, SameEntry
<1>3. ASSUME NEW s, NEW fd, NEW q, NEW o, Becomes(s, fd, BufOf(conn[s][fd]), q, o)
      PROVE  \A t \in Servers, g \in Fds : BufOf(conn'[t][g]) = BufOf(conn[t][g])
  BY <1>3 DEF Becomes, SameTableBut, SameEntry
<1>4. \A fd, r : Sends(fd, r) => UNCHANGED sock
  BY DEF Sends, kernelVars
<1>5. Passes => Flows
  BY <1>1, <1>2, KeptBuffers DEF Passes
<1>6. Answers => Flows
  BY <1>1, <1>3, <1>4, KeptBuffers DEF Answers, Entry
<1>7. Collects => Flows
  BY <1>1, <1>2, <1>3, KeptBuffers DEF Collects, Owner, kernelVars
<1>8. Finishes => Flows
  <2>1. ASSUME Finishes
        PROVE  Closes(Fd) /\ UNCHANGED inbuf
    BY <1>0, <2>1 DEF Finishes
  <2>2. Finishes => \A s \in Servers, fd \in Fds : BufOf(conn'[s][fd]) = BufOf(conn[s][fd])
    BY <1>2, <1>3 DEF Finishes, Owner
  <2>3. QED
    BY <1>1, <2>1, <2>2, KeptBuffers
<1>9. ASSUME NEW s, NEW fd, Closes(fd), SameTableBut(conn, conn', s, fd)
      PROVE  \A g \in Fds : g # fd =>
                sock'[g] = sock[g] /\ (sock[g] # None => Buffer(g)' = Buffer(g))
  BY <1>0, <1>9 DEF Closes, SameTableBut, SameEntry, Buffer
<1>10. ASSUME NEW s \in Servers, NEW fd \in Fds, TimesOut(s, fd), UNCHANGED inbuf
       PROVE  Flows
  <2>1. Closes(fd) /\ SameTableBut(conn, conn', s, fd) /\ sock'[fd] = None
    BY <1>0, <1>10, PutEntry DEF TimesOut, close, Closes, Entries
  <2>2. QED
    BY <1>9, <1>10, <2>1 DEF Flows
<1>11. ASSUME NEW fd \in Fds, Event(SERVER), Accepts(Fd, fd), UNCHANGED inbuf
       PROVE  Flows
  <2>1. Fd \in Servers
    BY <1>11, EventFacts DEF Event, IInv
  <2>2. Head(backlog[Fd]) \in Clients /\ Home[Head(backlog[Fd])] = Fd
    <3>1. backlog[Fd] \in Seq(Clients) /\ backlog[Fd] # <<>> /\ BacklogHome
      BY <1>11, <2>1 DEF IInv, EnvInv, Accepts
    <3>2. 1 \in DOMAIN backlog[Fd] /\ Head(backlog[Fd]) = backlog[Fd][1]
      BY <3>1
    <3>3. QED
      BY <2>1, <3>1, <3>2 DEF BacklogHome
  <2>3. BufOf(conn'[Fd][fd]) = <<>> /\ SameTableBut(conn, conn', Fd, fd)
    BY <1>0, <1>11, <2>1, FreshEntry, PutEntry DEF Accepts, Entries, BufOf
  <2>4. \A g \in Fds : sock'[g] = IF g = fd THEN Head(backlog[Fd]) ELSE sock[g]
    BY <1>0, <1>11 DEF Accepts
  <2>5. Buffer(fd)' = <<>>
    BY <2>2, <2>3, <2>4 DEF Buffer
  <2>6. \A g \in Fds : g # fd => sock'[g] = sock[g] /\ (sock[g] # None => Buffer(g)' = Buffer(g))
    BY <1>0, <2>3, <2>4 DEF Buffer, SameTableBut, SameEntry
  <2>7. QED
    BY <1>11, <2>5, <2>6 DEF Flows
<1>12. ASSUME NEW fd \in Fds, fd = Fd, Drops(Srv, fd)
       PROVE  Flows \/ \E k \in Nat : Receives(k, fd)
  <2>1. /\ \A g \in Fds : g # fd =>
              sock'[g] = sock[g] /\ (sock[g] # None => Buffer(g)' = Buffer(g))
        /\ sock'[fd] = None
    BY <1>0, <1>9, <1>12 DEF Drops, Removed, Closes
  <2>2. UNCHANGED inbuf => Flows
    BY <2>1 DEF Flows
  <2>3. \A k \in Nat : recv(k) => Receives(k, fd)
    BY <1>12, <2>1 DEF Receives
  <2>4. QED
    BY <1>12, <2>2, <2>3 DEF Drops
<1>13. \A k \in Nat, fd \in Fds : (Reads(k) \/ Dispatches(k)) /\ fd = Fd => Receives(k, fd)
  BY TakesIn
<1>14. \A type : Event(type) /\ type # SERVER => Fd \in Fds
  BY EventFacts DEF Event, IInv
<1>15. \A k \in Nat : Reads(k) \/ Dispatches(k) => Fd \in Fds
  BY RecvEntry DEF Reads, Dispatches, Cuts
<1>16. QED
  BY <1>0, <1>5, <1>6, <1>7, <1>8, <1>10, <1>11, <1>12, <1>13, <1>14, <1>15, ServerCases, EventTypes
-----------------------------------------------------------------------------
(* Streams stay in order, and nothing comes twice. *)

LEMMA BufferTypes ==
    ASSUME IInv
    PROVE  /\ inbuf \in [Clients -> Seq(Segments)]
           /\ \A fd \in Fds : sock[fd] # None => /\ Buffer(fd) \in Seq(Segments)
                                                 /\ sock[fd] \in Clients
<1>1. \A fd \in Fds : sock[fd] # None => sock[fd] \in Clients /\ Home[sock[fd]] \in Servers
  BY WebserverAssumption DEF IInv, RegistryInv
<1>2. \A s \in Servers, fd \in Fds : BufOf(conn[s][fd]) \in Seq(Segments)
  BY EntryTypes DEF IInv, TableInv, Tables, Entries
<1>3. QED
  BY <1>1, <1>2 DEF Buffer, IInv, EnvInv

LEMMA FlowsStep ==
    ASSUME IInv, StreamInv, Flows, UNCHANGED clientVars
    PROVE  StreamInv' /\ \A c \in Clients : \A g : Coming(c, g)' => Coming(c, g)
<1>1. Ordered(<<>>) /\ (\A q : Behind(<<>>, q)) /\ \A g : ~Among(g, <<>>)
  BY DEF Ordered, Behind, Among
<1>2. \A c \in Clients : \A g : Coming(c, g)' => Coming(c, g)
  BY <1>1, NoneIsNoObject DEF Flows, Coming
<1>3. \A c \in Clients : \A g : WellSent(c, g) => WellSent(c, g)'
  BY DEF WellSent, Whole, clientVars
<1>4. ASSUME NEW fd \in Fds, sock'[fd] # None
      PROVE  Ordered(Buffer(fd)') /\ Behind(Buffer(fd)', inbuf'[sock'[fd]])
  BY <1>1, <1>4 DEF Flows, StreamInv
<1>5. QED
  BY <1>2, <1>3, <1>4 DEF StreamInv, Flows

LEMMA ReceivesStep ==
    ASSUME IInv, SocketInv, LoopInv, StreamInv, NEW k \in Nat, NEW fd \in Fds, Receives(k, fd),
           UNCHANGED clientVars
    PROVE  StreamInv' /\ \A c \in Clients : \A g : Coming(c, g)' => Coming(c, g)
<1> DEFINE c == sock[fd]
           q == inbuf[c]
           r == SubSeq(q, k + 1, Len(q))
           b == Buffer(fd)
           t == Appended(k).buf
<1>1. /\ c \in Clients /\ c # None /\ q \in Seq(Segments) /\ k \in 1..Len(q)
      /\ inbuf' = [inbuf EXCEPT ![c] = SubSeq(@, k + 1, Len(@))]
      /\ inbuf \in [Clients -> Seq(Segments)]
  BY RecvEntry DEF Receives, IInv, EnvInv
<1>2. b \in Seq(Segments) /\ t = b \o SubSeq(q, 1, k)
  BY ReadsOwn DEF Receives
<1>3. Ordered(q) /\ Ordered(b) /\ Behind(b, q)
  BY <1>1 DEF StreamInv
<1>4. /\ t \in Seq(Segments) /\ r \in Seq(Segments)
      /\ Ordered(r) /\ Ordered(t) /\ Behind(t, r)
      /\ \A g : Among(g, r) => Among(g, q)
      /\ \A g : Among(g, t) => Among(g, b) \/ Among(g, q)
  BY <1>1, <1>2, <1>3, RecvOrder
<1>5. \A d \in Clients : inbuf'[d] = IF d = c THEN r ELSE inbuf[d]
  BY <1>1
<1> HIDE DEF r, t
<1>6. \/ sock'[fd] = None
      \/ /\ sock'[fd] = c /\ Ordered(Buffer(fd)') /\ Behind(Buffer(fd)', r)
         /\ \A g : Among(g, Buffer(fd)') => Among(g, t)
  <2>1. CASE sock'[fd] = None
    BY <2>1
  <2>2. CASE sock'[fd] = c /\ Buffer(fd)' = t
    BY <1>4, <2>2
  <2>3. CASE sock'[fd] = c /\ hasRequest(t) /\ Buffer(fd)' = RestOf(t)
    BY <1>4, <2>3, CutOrder
  <2>4. QED
    BY <2>1, <2>2, <2>3 DEF Receives, t
<1>7. \A g \in Fds : g # fd => /\ sock'[g] = sock[g] /\ sock[g] # c
                               /\ sock[g] # None => Buffer(g)' = Buffer(g)
  BY <1>1 DEF Receives, SocketInv, SocketsDistinct
<1>8. ASSUME NEW d \in Clients, NEW g, Coming(d, g)'
      PROVE  Coming(d, g)
  <2>1. CASE d = c
    <3>1. \/ Among(g, r)
          \/ \E f \in Fds : sock'[f] = c /\ Among(g, Buffer(f)')
      BY <1>5, <1>8, <2>1 DEF Coming
    <3>2. Among(g, r) \/ Among(g, t)
      BY <1>1, <1>6, <1>7, <3>1
    <3>3. Among(g, q) \/ Among(g, b)
      BY <1>4, <3>2
    <3>4. QED
      BY <2>1, <3>3 DEF Coming
  <2>2. CASE d # c
    <3>1. \/ Among(g, inbuf[d])
          \/ \E f \in Fds : sock'[f] = d /\ Among(g, Buffer(f)')
      BY <1>5, <1>8, <2>2 DEF Coming
    <3>2. ASSUME NEW f \in Fds, sock'[f] = d
          PROVE  f # fd /\ sock[f] = d /\ Buffer(f)' = Buffer(f)
      BY <1>6, <1>7, <2>2, <3>2, NoneIsNoObject
    <3>3. QED
      BY <3>1, <3>2 DEF Coming
  <2>3. QED
    BY <2>1, <2>2
<1>9. \A d \in Clients : \A g : WellSent(d, g) => WellSent(d, g)'
  BY DEF WellSent, Whole, clientVars
<1>10. \A d \in Clients : Ordered(inbuf'[d])
  BY <1>4, <1>5 DEF StreamInv
<1>11. ASSUME NEW f \in Fds, sock'[f] # None
       PROVE  Ordered(Buffer(f)') /\ Behind(Buffer(f)', inbuf'[sock'[f]])
  <2>1. CASE f = fd
    BY <1>1, <1>5, <1>6, <1>11, <2>1
  <2>2. CASE f # fd
    BY <1>5, <1>7, <1>11, <2>2, BufferTypes DEF StreamInv
  <2>3. QED
    BY <2>1, <2>2
<1>12. QED
  BY <1>8, <1>9, <1>10, <1>11 DEF StreamInv

\* A client adds segment g to its stream, at the end.
Announces(c, g) ==
    /\ inbuf' = [inbuf EXCEPT ![c] = Append(@, g)]
    /\ WellSent(c, g)'
    /\ Whole(c) < g.req[2] /\ Whole(c) <= Whole(c)'
    /\ \A h : WellSent(c, h) => Before(h, g) /\ WellSent(c, h)'
    /\ \A d \in Clients : d # c =>
          Whole(d)' = Whole(d) /\ \A h : WellSent(d, h) => WellSent(d, h)'
    /\ \A d \in Clients : \A n \in 1..Len(sent[d]) : sent'[d][n] = sent[d][n]
    /\ \A d \in Clients : Len(sent[d]) <= Len(sent'[d])

LEMMA SentFacts ==
    ASSUME IInv, NEW c \in Clients, Sent(c)
    PROVE  \E g : Announces(c, g)
<1>0. /\ sent \in [Clients -> Seq(Kinds)] /\ half \in [Clients -> BOOLEAN]
      /\ inbuf \in [Clients -> Seq(Segments)]
      /\ half[c] => sent[c] # <<>>
  BY DEF IInv, EnvInv, SentBounded
<1> DEFINE l == Len(sent[c])
<1>1. l \in Nat /\ sent[c] \in Seq(Kinds)
  BY <1>0
<1>2. CASE SendRemainder(c)
  <2>0. PICK g : g = [req |-> <<c, l>>, kind |-> sent[c][l], last |-> TRUE]
    OBVIOUS
  <2>1. half[c] /\ half' = [half EXCEPT ![c] = FALSE] /\ UNCHANGED sent
        /\ inbuf' = [inbuf EXCEPT ![c] = Append(@, g)]
    BY <1>2, <2>0 DEF SendRemainder, Arrive
  <2>2. l > 0
    BY <1>0, <1>1, <2>1
  <2>3. Whole(c) = l - 1 /\ Whole(c)' = l
    BY <1>0, <1>1, <2>1 DEF Whole
  <2>4. g.req[1] = c /\ g.req[2] = l /\ g.kind = sent[c][l] /\ g.last
    BY <2>0
  <2>5. WellSent(c, g)'
    BY <1>1, <2>1, <2>2, <2>3, <2>4 DEF WellSent
  <2>6. \A h : WellSent(c, h) => Before(h, g) /\ WellSent(c, h)'
    BY <1>1, <2>1, <2>3, <2>4 DEF WellSent, Before
  <2>7. \A d \in Clients : d # c =>
           Whole(d)' = Whole(d) /\ \A h : WellSent(d, h) => WellSent(d, h)'
    BY <1>0, <2>1 DEF WellSent, Whole
  <2>8. \A d \in Clients : Len(sent[d]) \in Nat
    BY <1>0
  <2>9. Whole(c) < g.req[2] /\ Whole(c) <= Whole(c)'
    BY <1>1, <2>3, <2>4
  <2>10. Announces(c, g)
    BY <2>1, <2>5, <2>6, <2>7, <2>8, <2>9 DEF Announces
  <2>11. QED
    BY <2>10
<1>3. ASSUME NEW kind \in Kinds, NEW whole \in BOOLEAN, SendRequest(c, kind, whole)
      PROVE  \E g : Announces(c, g)
  <2>0. PICK g : g = [req |-> <<c, Len(sent'[c])>>, kind |-> kind, last |-> whole]
    OBVIOUS
  <2>1. /\ ~half[c] /\ half' = [half EXCEPT ![c] = ~whole]
        /\ sent' = [sent EXCEPT ![c] = Append(@, kind)]
        /\ inbuf' = [inbuf EXCEPT ![c] = Append(@, g)]
    BY <1>3, <2>0 DEF SendRequest, Arrive
  <2>2. /\ sent'[c] = Append(sent[c], kind) /\ (half'[c] <=> ~whole)
        /\ \A d \in Clients : d # c => sent'[d] = sent[d] /\ half'[d] = half[d]
    BY <1>0, <2>1
  <2>3. /\ Len(sent'[c]) = l + 1 /\ sent'[c][l + 1] = kind
        /\ \A n \in 1..l : sent'[c][n] = sent[c][n]
    BY <1>1, <2>2
  <2>4. Whole(c) = l /\ Whole(c)' = (IF whole THEN l + 1 ELSE l)
    BY <1>1, <2>1, <2>2, <2>3 DEF Whole
  <2>5. g.req[1] = c /\ g.req[2] = l + 1 /\ g.kind = kind /\ (g.last <=> whole)
    BY <2>0, <2>3
  <2>6. WellSent(c, g)'
    BY <1>1, <2>3, <2>4, <2>5 DEF WellSent
  <2>7. \A h : WellSent(c, h) => Before(h, g) /\ WellSent(c, h)'
    BY <1>1, <2>3, <2>4, <2>5 DEF WellSent, Before
  <2>8. \A d \in Clients : d # c =>
           Whole(d)' = Whole(d) /\ \A h : WellSent(d, h) => WellSent(d, h)'
    BY <2>2 DEF WellSent, Whole
  <2>9. /\ \A d \in Clients : \A n \in 1..Len(sent[d]) : sent'[d][n] = sent[d][n]
        /\ \A d \in Clients : Len(sent[d]) <= Len(sent'[d])
    <3>1. \A d \in Clients : Len(sent[d]) \in Nat
      BY <1>0
    <3>2. ASSUME NEW d \in Clients
          PROVE  /\ \A n \in 1..Len(sent[d]) : sent'[d][n] = sent[d][n]
                 /\ Len(sent[d]) <= Len(sent'[d])
      <4>1. CASE d = c
        BY <1>1, <2>3, <4>1
      <4>2. CASE d # c
        BY <2>2, <3>1, <4>2
      <4>3. QED
        BY <4>1, <4>2
    <3>3. QED
      BY <3>2
  <2>10. Whole(c) < g.req[2] /\ Whole(c) <= Whole(c)'
    BY <1>1, <2>4, <2>5
  <2>11. Announces(c, g)
    BY <2>1, <2>6, <2>7, <2>8, <2>9, <2>10 DEF Announces
  <2>12. QED
    BY <2>11
<1>4. QED
  BY <1>2, <1>3 DEF Sent

LEMMA AppendOrder ==
    ASSUME NEW q \in Seq(Segments), NEW g
    PROVE  LET r == Append(q, g)
           IN  /\ Ordered(q) /\ (\A h : Among(h, q) => Before(h, g)) => Ordered(r)
               /\ \A p : Behind(p, q) /\ (\A h : Among(h, p) => Before(h, g)) => Behind(p, r)
               /\ \A h : Among(h, r) => Among(h, q) \/ h = g
<1> DEFINE r == Append(q, g)
<1>1. /\ \A i \in DOMAIN r : /\ i \in Nat
                             /\ \/ i \in DOMAIN q /\ r[i] = q[i]
                                \/ i = Len(q) + 1 /\ r[i] = g
      /\ \A i \in DOMAIN q : i \in Nat /\ i < Len(q) + 1
      /\ Len(q) \in Nat
  OBVIOUS
<1> HIDE DEF r
<1>2. ASSUME Ordered(q), \A h : Among(h, q) => Before(h, g)
      PROVE  Ordered(r)
  <2>1. ASSUME NEW i \in DOMAIN r, NEW j \in DOMAIN r, i < j
        PROVE  Before(r[i], r[j])
    <3>1. i \in DOMAIN q /\ r[i] = q[i]
      <4>1. i = Len(q) + 1 => j > Len(q) + 1
        BY <2>1
      <4>2. j \in Nat /\ j <= Len(q) + 1
        BY <1>1
      <4>3. i # Len(q) + 1
        BY <1>1, <4>1, <4>2
      <4>4. QED
        BY <1>1, <4>3
    <3>2. QED
      BY <1>1, <1>2, <2>1, <3>1 DEF Ordered, Among
  <2>2. QED
    BY <2>1 DEF Ordered
<1>3. \A p : Behind(p, q) /\ (\A h : Among(h, p) => Before(h, g)) => Behind(p, r)
  BY <1>1 DEF Behind, Among
<1>4. \A h : Among(h, r) => Among(h, q) \/ h = g
  BY <1>1 DEF Among
<1>5. QED
  BY <1>2, <1>3, <1>4 DEF r

LEMMA SentStep ==
    ASSUME IInv, StreamInv, UNCHANGED sock, SameTable(conn, conn'), NEW c \in Clients, Sent(c)
    PROVE  /\ StreamInv'
           /\ \A d \in Clients : \A g : Coming(d, g)' => Coming(d, g) \/ Whole(d) < g.req[2]
<1>0. PICK g : Announces(c, g)
  BY SentFacts
<1>1. /\ inbuf' = [inbuf EXCEPT ![c] = Append(@, g)]
      /\ WellSent(c, g)' /\ Whole(c) < g.req[2]
      /\ \A h : WellSent(c, h) => Before(h, g) /\ WellSent(c, h)'
      /\ \A d \in Clients : d # c => \A h : WellSent(d, h) => WellSent(d, h)'
  BY <1>0 DEF Announces
<1>2. /\ \A d \in Clients : inbuf'[d] = IF d = c THEN Append(inbuf[c], g) ELSE inbuf[d]
      /\ inbuf[c] \in Seq(Segments)
  BY <1>1, BufferTypes
<1>3. \A fd \in Fds : sock'[fd] = sock[fd] /\ (sock[fd] # None => Buffer(fd)' = Buffer(fd))
  <2>1. \A fd \in Fds : sock[fd] # None => Home[sock[fd]] \in Servers
    BY BufferTypes, WebserverAssumption
  <2>2. QED
    BY <2>1 DEF SameTable, SameEntry, Buffer
<1>4. ASSUME NEW d \in Clients, NEW h, Coming(d, h)'
      PROVE  Coming(d, h) \/ (d = c /\ h = g)
  <2>1. \/ Among(h, inbuf'[d]) \/ \E fd \in Fds : sock'[fd] = d /\ Among(h, Buffer(fd)')
    BY <1>4 DEF Coming
  <2>2. ASSUME NEW fd \in Fds, sock'[fd] = d, Among(h, Buffer(fd)')
        PROVE  Coming(d, h)
    BY <1>3, <2>2, NoneIsNoObject DEF Coming
  <2>3. Among(h, inbuf'[d]) => Among(h, inbuf[d]) \/ (d = c /\ h = g)
    BY <1>2, AppendOrder
  <2>4. QED
    BY <2>1, <2>2, <2>3 DEF Coming
<1>5. \A h : Among(h, inbuf[c]) => Before(h, g)
  BY <1>1 DEF StreamInv, Coming
<1>6. \A fd \in Fds : sock[fd] = c => \A h : Among(h, Buffer(fd)) => Before(h, g)
  BY <1>1 DEF StreamInv, Coming
<1>7. \A d \in Clients : Ordered(inbuf'[d])
  BY <1>2, <1>5, AppendOrder DEF StreamInv
<1>8. ASSUME NEW fd \in Fds, sock'[fd] # None
      PROVE  Ordered(Buffer(fd)') /\ Behind(Buffer(fd)', inbuf'[sock'[fd]])
  <2>1. /\ sock'[fd] = sock[fd] /\ sock[fd] \in Clients /\ Buffer(fd)' = Buffer(fd)
        /\ Ordered(Buffer(fd)) /\ Behind(Buffer(fd), inbuf[sock[fd]])
    BY <1>3, <1>8, BufferTypes DEF StreamInv
  <2>2. CASE sock[fd] = c
    BY <1>2, <1>6, <2>1, <2>2, AppendOrder
  <2>3. CASE sock[fd] # c
    BY <1>2, <2>1, <2>3
  <2>4. QED
    BY <2>2, <2>3
<1>9. \A d \in Clients : \A h : Coming(d, h)' => WellSent(d, h)'
  BY <1>1, <1>4 DEF StreamInv
<1>10. QED
  BY <1>1, <1>4, <1>7, <1>8, <1>9 DEF StreamInv
-----------------------------------------------------------------------------
(* The event of a pipe says from first to last whom its output is for. *)

EventOf(h) == kq.knote[<<h, EVFILT_READ>>]

KeptPipes(q) ==
    \A h \in Fds : pipe[h] # None /\ pipe'[h] # None => SameKnote(EventOf(h), q.knote[<<h, EVFILT_READ>>])

LEMMA ClosedPipes ==
    ASSUME NEW q \in Registry, NEW fd \in Fds, close(fd, q), IInv,
           \A g \in Fds : g # fd => KeptAt(q, g)
    PROVE  KeptPipes(kq')
<1>1. \A n \in Knotes : kq'.knote[n] = IF n[1] = fd THEN None ELSE q.knote[n]
  BY CloseFdType DEF close, Descriptors
<1>2. pipe'[fd] = None
  BY DEF close, IInv, RegistryInv
<1>3. \A h \in Fds : <<h, EVFILT_READ>> \in Knotes
  BY KnoteNames DEF Descriptors
<1>4. ASSUME NEW h \in Fds, h # fd
      PROVE  SameKnote(EventOf(h), kq'.knote[<<h, EVFILT_READ>>])
  <2>1. kq'.knote[<<h, EVFILT_READ>>] = q.knote[<<h, EVFILT_READ>>]
    BY <1>1, <1>3, <1>4
  <2>2. QED
    BY <1>4, <2>1 DEF KeptAt, EventOf
<1>5. QED
  BY <1>2, <1>4 DEF KeptPipes

LEMMA OpenedPipes ==
    ASSUME IInv, NEW fd \in Free, NEW type \in {REQUEST, CGI_RESPONSE}, NEW srv \in Servers,
           NEW client \in Fds \cup {None}, kq' = Done(addEvent(kq, TRUE, fd, type, srv, client))
    PROVE  KeptPipes(kq')
<1>1. kq \in Registry /\ fd \in Fds /\ fd \in Descriptors /\ type \in Types /\ pipe[fd] = None
      /\ getFilter(type) = EVFILT_READ
  BY EventTypes DEF IInv, RegistryInv, Free, Descriptors, getFilter
<1> DEFINE q == addEvent(kq, TRUE, fd, type, srv, client)
<1>2. /\ q \in Registry
      /\ \A n \in Knotes : n # <<fd, EVFILT_READ>> => SameKnote(kq.knote[n], q.knote[n])
  BY <1>1, AddEventType
<1>3. kq' = Done(q)
  OBVIOUS
<1> HIDE DEF q
<1>4. kq'.knote = q.knote
  BY <1>2, <1>3, DoneType
<1>5. \A h \in Fds : <<h, EVFILT_READ>> \in Knotes
  BY KnoteNames DEF Descriptors
<1>6. \A h \in Fds : h # fd => SameKnote(EventOf(h), kq'.knote[<<h, EVFILT_READ>>])
  BY <1>2, <1>4, <1>5 DEF EventOf
<1>7. QED
  BY <1>1, <1>6 DEF KeptPipes

LEMMA PipeEventKept ==
    ASSUME IInv, Server
    PROVE  KeptPipes(kq')
<1>0. /\ kq \in Registry /\ NoDangling(kq) /\ \A g \in Fds : KeptAt(kq, g)
      /\ Done(kq) \in Registry /\ Done(kq).knote = kq.knote
  BY KeptAsItIs, DoneType DEF IInv, RegistryInv, UdataLive
<1>1. \A q : (\A g \in Fds : KeptAt(q, g)) => KeptPipes(q)
  BY DEF KeptAt, KeptPipes, EventOf
<1>2. UNCHANGED kq => KeptPipes(kq')
  BY <1>0, <1>1
<1>3. kq' = Done(kq) => KeptPipes(kq')
  BY <1>0, <1>1 DEF KeptAt
<1>4. \A q \in Registry : (\A g \in Fds : KeptAt(q, g)) /\ kq' = Done(q) => KeptPipes(kq')
  BY <1>1, DoneType DEF KeptAt
<1>5. \A fd \in Fds : close(fd, Done(kq)) => KeptPipes(kq')
  <2>1. \A g \in Fds : KeptAt(Done(kq), g)
    BY <1>0 DEF KeptAt
  <2>2. QED
    BY <1>0, <2>1, ClosedPipes
<1>6. \A r : Exit(r) => KeptPipes(kq')
  BY <1>2 DEF Exit, serverVars
<1>7. \A cn, s, r : \A fd \in Fds : handleError(cn, s, fd, r) => KeptPipes(kq')
  BY <1>3, <1>5, <1>6 DEF handleError, closeConnection
<1>8. \A type : Event(type) /\ type # SERVER => Fd \in Fds
  BY EventFacts DEF Event, IInv
<1>9. Poll \/ Idle => KeptPipes(kq')
  <2>1. ASSUME NEW n \in Descriptors \X Filters, Ready(n), kq' = pollEvents(kq, n)
        PROVE  KeptPipes(kq')
    <3>1. kq'.knote = kq.knote
      BY <2>1 DEF pollEvents
    <3>2. QED
      BY <1>0, <1>1, <3>1 DEF KeptAt
  <2>2. QED
    BY <1>2, <2>1 DEF Poll, Idle
<1>10. ASSUME NEW s \in Servers, NEW fd \in Fds, validateLastActiveTime(s, fd)
       PROVE  KeptPipes(kq')
  <2>1. LET q == removeEvent(kq, fd, EVFILT_READ)
        IN  q \in Registry /\ \A g \in Fds : g # fd => KeptAt(q, g)
    BY <1>0, EventRemoved, EventTypes
  <2>2. close(fd, removeEvent(kq, fd, EVFILT_READ)) => KeptPipes(kq')
    BY <2>1, ClosedPipes
  <2>3. QED
    BY <1>6, <1>10, <2>2 DEF validateLastActiveTime
<1>11. connectClient => KeptPipes(kq')
  <2>1. ASSUME connectClient, NEW fd, Nth(fd, 0),
               kq' = Done(addEvent(kq, TRUE, fd, REQUEST, Srv, None))
        PROVE  KeptPipes(kq')
    <3>1. fd \in Free /\ Srv \in Servers
      BY <2>1, EventFacts DEF Nth, connectClient, Event, IInv
    <3>2. QED
      BY <2>1, <3>1, OpenedPipes
  <2>2. QED
    BY <1>6, <2>1 DEF connectClient
<1>12. ASSUME NEW k, recv(k)
       PROVE  Fd \in Fds /\ Srv \in Servers /\ kq.polled # None /\ kq.polled.info.type = REQUEST
  BY <1>12, RecvEntry
<1>13. ASSUME NEW k, RequestTooLarge(k) \/ RequestRejected(k) \/ RequestIncomplete(k)
       PROVE  KeptPipes(kq')
  BY <1>3, <1>7, <1>12, <1>13 DEF RequestTooLarge, RequestRejected, RequestIncomplete, Takes
<1>14. ASSUME NEW k, RequestStatic(k)
       PROVE  KeptPipes(kq')
  <2>1. Fd \in Fds /\ Srv \in Servers /\ kq.polled # None /\ kq.polled.info.type = REQUEST
    BY <1>12, <1>14 DEF RequestStatic, Takes
  <2>2. LET q == addEvent(kq, Attaches(Fd, EVFILT_WRITE), Fd, RESPONSE, Srv, None)
        IN  q \in Registry /\ \A g \in Fds : KeptAt(q, g)
    BY <2>1, ResponseAdded, EventTypes DEF IInv
  <2>3. QED
    BY <1>4, <1>14, <2>2 DEF RequestStatic
<1>15. ASSUME NEW k, RequestCgi(k)
       PROVE  KeptPipes(kq')
  <2>1. Fd \in Fds /\ Srv \in Servers
    BY <1>12, <1>15 DEF RequestCgi, Takes
  <2>2. \A fd : /\ Nth(fd, 2)
                /\ kq' = Done(addEvent(kq, TRUE, fd, CGI_RESPONSE, Srv, Fd))
                => KeptPipes(kq')
    BY <2>1, OpenedPipes DEF Nth
  <2>3. QED
    BY <1>6, <1>15, <2>2 DEF RequestCgi
<1>16. RequestEof \/ RequestError \/ NoResponse \/ CgiData => KeptPipes(kq')
  BY <1>3, <1>5, <1>7, <1>8, EventTypes
     DEF RequestEof, RequestError, NoResponse, CgiData, closeConnection
<1>17. SendResponse => KeptPipes(kq')
  <2>1. ASSUME SendResponse
        PROVE  LET q == removeEvent(kq, Fd, EVFILT_WRITE)
               IN  q \in Registry /\ \A g \in Fds : KeptAt(q, g)
    BY <1>0, <1>8, <2>1, EventRemoved, EventTypes DEF SendResponse
  <2>2. QED
    BY <1>4, <1>6, <2>1 DEF SendResponse
<1>18. ASSUME CgiEof
       PROVE  KeptPipes(kq')
  <2> DEFINE q == addEvent(kq, Attaches(CgiTo, EVFILT_WRITE), CgiTo, RESPONSE, Srv, None)
             r == removeEvent(q, Fd, EVFILT_READ)
  <2>1. /\ Fd \in Fds /\ Srv \in Servers /\ CgiTo \in Fds
        /\ kq.polled # None /\ kq.polled.info.type = CGI_RESPONSE
    BY <1>18, EventFacts, EventTypes DEF CgiEof, Event, IInv
  <2>2. q \in Registry /\ NoDangling(q) /\ \A g \in Fds : KeptAt(q, g)
    BY <2>1, ResponseAdded, EventTypes DEF IInv
  <2>3. close(Fd, Done(r)) \/ UNCHANGED kq
    BY <1>18 DEF CgiEof
  <2> HIDE DEF q
  <2>4. r \in Registry /\ \A g \in Fds : g # Fd => KeptAt(r, g)
    BY <2>1, <2>2, EventRemoved, EventTypes
  <2> HIDE DEF r
  <2>5. Done(r) \in Registry /\ \A g \in Fds : g # Fd => KeptAt(Done(r), g)
    BY <2>4, DoneType DEF KeptAt
  <2>6. QED
    BY <1>2, <2>1, <2>3, <2>5, ClosedPipes
<1>19. QED
  BY <1>9, <1>10, <1>11, <1>13, <1>14, <1>15, <1>16, <1>17, <1>18 DEF Server

-----------------------------------------------------------------------------
(* The places of an answer. *)

Told(o, c, i) ==
    c \in Clients /\ i \in DOMAIN got[c] /\ got[c][i].code = 200 /\ o \in got[c][i].of

Held(o, s, f, j) ==
    /\ s \in Servers /\ f \in Fds /\ j \in DOMAIN QueueOf(conn[s][f])
    /\ o \in QueueOf(conn[s][f])[j].of

Kept(o, s, f, x) ==
    s \in Servers /\ f \in Fds /\ x \in Fds /\ o \in OutputOf(conn[s][f])[x]

Piped(o, x) == x \in Fds /\ pipe[x] = o

Waiting(o) == (\E s, f, x : Kept(o, s, f, x)) \/ (\E x : Piped(o, x))
Used(o)    == Waiting(o) \/ (\E c, i : Told(o, c, i)) \/ (\E s, f, j : Held(o, s, f, j))

ToldOnce ==
    \A o \in Origins : \A c, i, d, j : Told(o, c, i) /\ Told(o, d, j) => c = d /\ i = j

HeldOnce ==
    \A o \in Origins : \A s, f, j, t, g, k :
       Held(o, s, f, j) /\ Held(o, t, g, k) => s = t /\ f = g /\ j = k

KeptOnce ==
    \A o \in Origins : \A s, f, x, t, g, y :
       Kept(o, s, f, x) /\ Kept(o, t, g, y) => s = t /\ f = g /\ x = y

PipedOnce == \A o \in Origins : \A x, y : Piped(o, x) /\ Piped(o, y) => x = y

ToldApart == \A o \in Origins : (\E c, i : Told(o, c, i)) =>
                ~Waiting(o) /\ ~\E s, f, j : Held(o, s, f, j)
HeldApart == \A o \in Origins : (\E s, f, j : Held(o, s, f, j)) => ~Waiting(o)

\* While a program still runs, what it has written lies where its event says.
Linked ==
    \A o \in Origins : \A s, f, x, h : Kept(o, s, f, x) /\ Piped(o, h) =>
       h = x /\ EventOf(x).srv = s /\ EventOf(x).client = f

AnswerInv == /\ ToldOnce /\ HeldOnce /\ KeptOnce /\ PipedOnce
             /\ ToldApart /\ HeldApart /\ Linked

-----------------------------------------------------------------------------
(* How a step moves answers. What is not named gains none. *)

NoneTold  == \A o \in Origins : \A c, i : Told(o, c, i)' => Told(o, c, i)
NoneHeld  == \A o \in Origins : \A s, f, j : Held(o, s, f, j)' => Held(o, s, f, j)
NoneKept  == \A o \in Origins : \A s, f, x : Kept(o, s, f, x)' => Kept(o, s, f, x)
NonePiped == \A o \in Origins : \A x : Piped(o, x)' => Piped(o, x)

Rests == NoneTold /\ NoneHeld /\ NoneKept /\ NonePiped

\* The answer to p is ready, at the end of the client's queue.
Queues(p) ==
    /\ NoneTold /\ NoneKept /\ NonePiped
    /\ \A o \in Origins : \A s, f, j : Held(o, s, f, j)' =>
          \/ Held(o, s, f, j)
          \/ o = p /\ s = Srv /\ f = Fd /\ j = Len(QueueOf(Entry)) + 1

\* A program is started for p.
Starts(p) ==
    /\ NoneTold /\ NoneHeld /\ NoneKept
    /\ \E h : \A o \in Origins : \A x : Piped(o, x)' => Piped(o, x) \/ (o = p /\ x = h)

\* Output is read from the pipe the event is for.
Gathers ==
    /\ NoneTold /\ NoneHeld /\ NonePiped
    /\ \A o \in Origins : \A s, f, x : Kept(o, s, f, x)' =>
          \/ Kept(o, s, f, x)
          \/ Piped(o, Fd) /\ s = Srv /\ f = CgiTo /\ x = Fd

\* The output collected from that pipe becomes a response, and the pipe is closed.
Completes ==
    /\ NoneTold
    /\ \A o \in Origins : \A s, f, j : Held(o, s, f, j)' =>
          \/ Held(o, s, f, j)
          \/ Kept(o, Srv, CgiTo, Fd) /\ s = Srv /\ f = CgiTo /\ j = Len(QueueOf(Owner)) + 1
    /\ \A o \in Origins : \A s, f, x : Kept(o, s, f, x)' =>
          Kept(o, s, f, x) /\ ~(s = Srv /\ f = CgiTo /\ x = Fd)
    /\ \A o \in Origins : \A x : Piped(o, x)' => Piped(o, x) /\ x # Fd

\* The first response of the queue goes to the client of the socket, the others move up.
HandsOut ==
    /\ NoneKept /\ NonePiped
    /\ \A o \in Origins : \A c, i : Told(o, c, i)' =>
          \/ Told(o, c, i)
          \/ Held(o, Srv, Fd, 1) /\ c = sock[Fd] /\ i = Len(got[c]) + 1
    /\ \A o \in Origins : \A s, f, j : Held(o, s, f, j)' =>
          /\ j \in Nat /\ j > 0
          /\ \/ ~(s = Srv /\ f = Fd) /\ Held(o, s, f, j)
             \/ s = Srv /\ f = Fd /\ Held(o, s, f, j + 1)

-----------------------------------------------------------------------------
(* Every one of these moves keeps an answer in one place. *)

LEMMA LinkedKept ==
    ASSUME KeptPipes(kq'), Linked, NoneKept, NonePiped
    PROVE  Linked'
<1>1. ASSUME NEW o \in Origins, NEW s, NEW f, NEW x, NEW h, Kept(o, s, f, x)', Piped(o, h)'
      PROVE  h = x /\ EventOf(x)'.srv = s /\ EventOf(x)'.client = f
  <2>1. h = x /\ Kept(o, s, f, x) /\ Piped(o, x) /\ EventOf(x).srv = s /\ EventOf(x).client = f
    BY <1>1 DEF Linked, NoneKept, NonePiped
  <2>2. SameKnote(EventOf(x), EventOf(x)')
    BY <1>1, <2>1, NoneIsNoObject DEF KeptPipes, Piped, EventOf
  <2>3. QED
    BY <2>1, <2>2 DEF SameKnote
<1>2. QED
  BY <1>1 DEF Linked

\* No answer comes to a place: AnswerInv says nothing of an answer that is nowhere.
LEMMA RestsMove ==
    ASSUME AnswerInv, KeptPipes(kq'), Rests
    PROVE  AnswerInv' /\ \A o \in Origins : (Used(o)' => Used(o)) /\ (Waiting(o)' => Waiting(o))
<1>1. \A o \in Origins : (Used(o)' => Used(o)) /\ (Waiting(o)' => Waiting(o))
  BY DEF Rests, NoneTold, NoneHeld, NoneKept, NonePiped, Used, Waiting
<1>2. ToldOnce' /\ HeldOnce' /\ KeptOnce' /\ PipedOnce'
  BY DEF AnswerInv, Rests, ToldOnce, HeldOnce, KeptOnce, PipedOnce,
         NoneTold, NoneHeld, NoneKept, NonePiped
<1>3. ToldApart' /\ HeldApart'
  BY <1>1 DEF AnswerInv, Rests, ToldApart, HeldApart, NoneTold, NoneHeld
<1>4. Linked'
  BY LinkedKept DEF AnswerInv, Rests
<1>5. QED
  BY <1>1, <1>2, <1>3, <1>4 DEF AnswerInv

\* A request that is cut off now has no answer yet.
LEMMA QueuesMove ==
    ASSUME AnswerInv, KeptPipes(kq'), NEW p \in Origins, ~Used(p), Queues(p)
    PROVE  /\ AnswerInv'
           /\ \A o \in Origins : (Used(o)' => Used(o) \/ o = p) /\ (Waiting(o)' => Waiting(o))
<1>1. \A o \in Origins : (Used(o)' => Used(o) \/ o = p) /\ (Waiting(o)' => Waiting(o))
  BY DEF Queues, NoneTold, NoneKept, NonePiped, Used, Waiting
<1>2. /\ \A o \in Origins : \A s, f, j : Held(o, s, f, j)' => Held(o, s, f, j) \/ o = p
      /\ \A s, f, j : Held(p, s, f, j)' => s = Srv /\ f = Fd /\ j = Len(QueueOf(Entry)) + 1
  BY DEF Queues, Used
<1>3. ToldOnce' /\ KeptOnce' /\ PipedOnce'
  BY DEF AnswerInv, Queues, ToldOnce, KeptOnce, PipedOnce, NoneTold, NoneKept, NonePiped
<1>4. HeldOnce'
  <2>1. ASSUME NEW o \in Origins, NEW s, NEW f, NEW j, NEW t, NEW g, NEW k,
               Held(o, s, f, j)', Held(o, t, g, k)'
        PROVE  s = t /\ f = g /\ j = k
    <3>1. CASE o = p
      BY <1>2, <2>1, <3>1
    <3>2. CASE o # p
      <4>1. Held(o, s, f, j) /\ Held(o, t, g, k)
        BY <1>2, <2>1, <3>2
      <4>2. QED
        BY <4>1 DEF AnswerInv, HeldOnce
    <3>3. QED
      BY <3>1, <3>2
  <2>2. QED
    BY <2>1 DEF HeldOnce
<1>5. ToldApart'
  <2>1. ASSUME NEW o \in Origins, NEW c, NEW i, Told(o, c, i)'
        PROVE  ~Waiting(o)' /\ ~\E s, f, j : Held(o, s, f, j)'
    <3>1. Told(o, c, i) /\ o # p
      BY <2>1 DEF Queues, NoneTold, Used
    <3>2. QED
      BY <1>1, <1>2, <3>1 DEF AnswerInv, ToldApart
  <2>2. QED
    BY <2>1 DEF ToldApart
<1>6. HeldApart'
  <2>1. ASSUME NEW o \in Origins, NEW s, NEW f, NEW j, Held(o, s, f, j)'
        PROVE  ~Waiting(o)'
    BY <1>1, <1>2, <2>1 DEF AnswerInv, HeldApart, Used
  <2>2. QED
    BY <2>1 DEF HeldApart
<1>7. Linked'
  BY LinkedKept DEF AnswerInv, Queues
<1>8. QED
  BY <1>1, <1>3, <1>4, <1>5, <1>6, <1>7 DEF AnswerInv

LEMMA StartsMove ==
    ASSUME AnswerInv, KeptPipes(kq'), NEW p \in Origins, ~Used(p), Starts(p)
    PROVE  /\ AnswerInv'
           /\ \A o \in Origins : (Used(o)' => Used(o) \/ o = p) /\ (Waiting(o)' => Waiting(o) \/ o = p)
<1>0. PICK h : \A o \in Origins : \A x : Piped(o, x)' => Piped(o, x) \/ (o = p /\ x = h)
  BY DEF Starts
<1>1. \A o \in Origins : (Used(o)' => Used(o) \/ o = p) /\ (Waiting(o)' => Waiting(o) \/ o = p)
  BY <1>0 DEF Starts, NoneTold, NoneHeld, NoneKept, Used, Waiting
<1>2. \A o \in Origins : o # p => \A x : Piped(o, x)' => Piped(o, x)
  BY <1>0
<1>3. /\ \A x : Piped(p, x)' => x = h
      /\ \A s, f, x : ~Kept(p, s, f, x)'
      /\ \A c, i : ~Told(p, c, i)'
      /\ \A s, f, j : ~Held(p, s, f, j)'
  BY <1>0 DEF Starts, NoneTold, NoneHeld, NoneKept, Used, Waiting
<1>4. ToldOnce' /\ HeldOnce' /\ KeptOnce'
  BY DEF AnswerInv, Starts, ToldOnce, HeldOnce, KeptOnce, NoneTold, NoneHeld, NoneKept
<1>5. PipedOnce'
  BY <1>2, <1>3 DEF AnswerInv, PipedOnce
<1>6. ToldApart' /\ HeldApart'
  BY <1>1, <1>3 DEF AnswerInv, Starts, ToldApart, HeldApart, NoneTold, NoneHeld
<1>7. Linked'
  <2>1. ASSUME NEW o \in Origins, NEW s, NEW f, NEW x, NEW y, Kept(o, s, f, x)', Piped(o, y)'
        PROVE  y = x /\ EventOf(x)'.srv = s /\ EventOf(x)'.client = f
    <3>1. o # p /\ Kept(o, s, f, x) /\ Piped(o, y)
      BY <1>2, <1>3, <2>1 DEF Starts, NoneKept
    <3>2. y = x /\ EventOf(x).srv = s /\ EventOf(x).client = f
      BY <3>1 DEF AnswerInv, Linked
    <3>3. SameKnote(EventOf(x), EventOf(x)')
      BY <2>1, <3>1, <3>2, NoneIsNoObject DEF KeptPipes, Piped, EventOf
    <3>4. QED
      BY <3>2, <3>3 DEF SameKnote
  <2>2. QED
    BY <2>1 DEF Linked
<1>8. QED
  BY <1>1, <1>4, <1>5, <1>6, <1>7 DEF AnswerInv

\* The event that is held is the event of the pipe, so what is read goes where the
\* earlier output of the same program lies.
LEMMA GathersMove ==
    ASSUME AnswerInv, KeptPipes(kq'), Gathers,
           EventOf(Fd).srv = Srv, EventOf(Fd).client = CgiTo
    PROVE  AnswerInv' /\ \A o \in Origins : (Used(o)' => Used(o)) /\ (Waiting(o)' => Waiting(o))
<1>1. \A o \in Origins : (Used(o)' => Used(o)) /\ (Waiting(o)' => Waiting(o))
  BY DEF Gathers, NoneTold, NoneHeld, NonePiped, Used, Waiting
<1>2. ASSUME NEW o \in Origins, NEW s, NEW f, NEW x, NEW h, Kept(o, s, f, x)', Piped(o, h)
      PROVE  h = x /\ EventOf(x).srv = s /\ EventOf(x).client = f
  <2>1. CASE Kept(o, s, f, x)
    BY <1>2, <2>1 DEF AnswerInv, Linked
  <2>2. CASE Piped(o, Fd) /\ s = Srv /\ f = CgiTo /\ x = Fd
    BY <1>2, <2>2 DEF AnswerInv, PipedOnce
  <2>3. QED
    BY <1>2, <2>1, <2>2 DEF Gathers
<1>3. KeptOnce'
  <2>1. ASSUME NEW o \in Origins, NEW s, NEW f, NEW x, NEW t, NEW g, NEW y,
               Kept(o, s, f, x)', Kept(o, t, g, y)'
        PROVE  s = t /\ f = g /\ x = y
    <3>1. CASE Piped(o, Fd)
      BY <1>2, <2>1, <3>1
    <3>2. CASE ~Piped(o, Fd)
      <4>1. Kept(o, s, f, x) /\ Kept(o, t, g, y)
        BY <2>1, <3>2 DEF Gathers
      <4>2. QED
        BY <4>1 DEF AnswerInv, KeptOnce
    <3>3. QED
      BY <3>1, <3>2
  <2>2. QED
    BY <2>1 DEF KeptOnce
<1>4. ToldOnce' /\ HeldOnce' /\ PipedOnce'
  BY DEF AnswerInv, Gathers, ToldOnce, HeldOnce, PipedOnce, NoneTold, NoneHeld, NonePiped
<1>5. ToldApart' /\ HeldApart'
  BY <1>1 DEF AnswerInv, Gathers, ToldApart, HeldApart, NoneTold, NoneHeld
<1>6. Linked'
  <2>1. ASSUME NEW o \in Origins, NEW s, NEW f, NEW x, NEW h, Kept(o, s, f, x)', Piped(o, h)'
        PROVE  h = x /\ EventOf(x)'.srv = s /\ EventOf(x)'.client = f
    <3>1. Piped(o, h)
      BY <2>1 DEF Gathers, NonePiped
    <3>2. h = x /\ EventOf(x).srv = s /\ EventOf(x).client = f
      BY <1>2, <2>1, <3>1
    <3>3. SameKnote(EventOf(x), EventOf(x)')
      BY <2>1, <3>1, <3>2, NoneIsNoObject DEF KeptPipes, Piped, EventOf
    <3>4. QED
      BY <3>2, <3>3 DEF SameKnote
  <2>2. QED
    BY <2>1 DEF Linked
<1>7. QED
  BY <1>1, <1>3, <1>4, <1>5, <1>6 DEF AnswerInv

\* The program's end: what it wrote leaves the buffer and, with the close, the pipe.
LEMMA CompletesMove ==
    ASSUME AnswerInv, KeptPipes(kq'), Completes
    PROVE  AnswerInv' /\ \A o \in Origins : (Used(o)' => Used(o)) /\ (Waiting(o)' => Waiting(o))
<1>1. \A o \in Origins : (Used(o)' => Used(o)) /\ (Waiting(o)' => Waiting(o))
  BY DEF Completes, NoneTold, Used, Waiting
<1>2. ASSUME NEW o \in Origins, Kept(o, Srv, CgiTo, Fd)
      PROVE  /\ ~Waiting(o)'
             /\ \A c, i : ~Told(o, c, i)
             /\ \A s, f, j : Held(o, s, f, j)' =>
                   s = Srv /\ f = CgiTo /\ j = Len(QueueOf(Owner)) + 1
  <2>1. /\ \A s, f, x : Kept(o, s, f, x) => s = Srv /\ f = CgiTo /\ x = Fd
        /\ \A x : Piped(o, x) => x = Fd
    BY <1>2 DEF AnswerInv, KeptOnce, Linked
  <2>2. ~Waiting(o)'
    BY <2>1 DEF Completes, Waiting
  <2>3. Waiting(o)
    BY <1>2 DEF Waiting
  <2>4. (\A c, i : ~Told(o, c, i)) /\ \A s, f, j : ~Held(o, s, f, j)
    BY <2>3 DEF AnswerInv, ToldApart, HeldApart
  <2>5. QED
    BY <2>2, <2>4 DEF Completes
<1>3. \A o \in Origins : ~Kept(o, Srv, CgiTo, Fd) =>
         \A s, f, j : Held(o, s, f, j)' => Held(o, s, f, j)
  BY DEF Completes
<1>4. HeldOnce'
  <2>1. ASSUME NEW o \in Origins, NEW s, NEW f, NEW j, NEW t, NEW g, NEW k,
               Held(o, s, f, j)', Held(o, t, g, k)'
        PROVE  s = t /\ f = g /\ j = k
    <3>1. CASE Kept(o, Srv, CgiTo, Fd)
      BY <1>2, <2>1, <3>1
    <3>2. CASE ~Kept(o, Srv, CgiTo, Fd)
      <4>1. Held(o, s, f, j) /\ Held(o, t, g, k)
        BY <1>3, <2>1, <3>2
      <4>2. QED
        BY <4>1 DEF AnswerInv, HeldOnce
    <3>3. QED
      BY <3>1, <3>2
  <2>2. QED
    BY <2>1 DEF HeldOnce
<1>5. ToldApart'
  <2>1. ASSUME NEW o \in Origins, NEW c, NEW i, Told(o, c, i)'
        PROVE  ~Waiting(o)' /\ ~\E s, f, j : Held(o, s, f, j)'
    <3>1. Told(o, c, i)
      BY <2>1 DEF Completes, NoneTold
    <3>2. ~Kept(o, Srv, CgiTo, Fd) /\ ~Waiting(o) /\ ~\E s, f, j : Held(o, s, f, j)
      BY <1>2, <3>1 DEF AnswerInv, ToldApart
    <3>3. QED
      BY <1>1, <1>3, <3>2
  <2>2. QED
    BY <2>1 DEF ToldApart
<1>6. HeldApart'
  <2>1. ASSUME NEW o \in Origins, NEW s, NEW f, NEW j, Held(o, s, f, j)'
        PROVE  ~Waiting(o)'
    <3>1. CASE Kept(o, Srv, CgiTo, Fd)
      BY <1>2, <3>1
    <3>2. CASE ~Kept(o, Srv, CgiTo, Fd)
      <4>1. Held(o, s, f, j)
        BY <1>3, <2>1, <3>2
      <4>2. ~Waiting(o)
        BY <4>1 DEF AnswerInv, HeldApart
      <4>3. QED
        BY <1>1, <4>2
    <3>3. QED
      BY <3>1, <3>2
  <2>2. QED
    BY <2>1 DEF HeldApart
<1>7. NoneTold /\ NoneKept /\ NonePiped
  BY DEF Completes, NoneKept, NonePiped
<1>8. ToldOnce' /\ KeptOnce' /\ PipedOnce'
  BY <1>7 DEF AnswerInv, ToldOnce, KeptOnce, PipedOnce, NoneTold, NoneKept, NonePiped
<1>9. Linked'
  BY <1>7, LinkedKept DEF AnswerInv
<1>10. QED
  BY <1>1, <1>4, <1>5, <1>6, <1>8, <1>9 DEF AnswerInv

LEMMA HandsOutMove ==
    ASSUME AnswerInv, KeptPipes(kq'), HandsOut
    PROVE  AnswerInv' /\ \A o \in Origins : (Used(o)' => Used(o)) /\ (Waiting(o)' => Waiting(o))
<1>1. \A o \in Origins : (Used(o)' => Used(o)) /\ (Waiting(o)' => Waiting(o))
  <2>1. \A o \in Origins : Waiting(o)' => Waiting(o)
    BY DEF HandsOut, NoneKept, NonePiped, Waiting
  <2>2. \A o \in Origins : \A c, i : Told(o, c, i)' => Used(o)
    BY DEF HandsOut, Used
  <2>3. \A o \in Origins : \A s, f, j : Held(o, s, f, j)' => Used(o)
    BY DEF HandsOut, Used
  <2>4. \A o \in Origins : Used(o)' => Used(o)
    <3>1. \A o \in Origins : Waiting(o) => Used(o)
      BY DEF Used
    <3>2. \A o \in Origins : Used(o)' => \/ Waiting(o)' \/ \E c, i : Told(o, c, i)'
                                         \/ \E s, f, j : Held(o, s, f, j)'
      BY DEF Used
    <3>3. QED
      BY <2>1, <2>2, <2>3, <3>1, <3>2
  <2>5. QED
    BY <2>1, <2>4
\* The answer that is handed out was at the head of that queue and nowhere else.
<1>2. ASSUME NEW o \in Origins, Held(o, Srv, Fd, 1)
      PROVE  /\ ~Waiting(o)'
             /\ \A s, f, j : ~Held(o, s, f, j)'
             /\ \A c, i : Told(o, c, i)' => c = sock[Fd] /\ i = Len(got[c]) + 1
  <2>1. \A s, f, j : Held(o, s, f, j) => s = Srv /\ f = Fd /\ j = 1
    BY <1>2 DEF AnswerInv, HeldOnce
  <2>2. ~Waiting(o) /\ \A c, i : ~Told(o, c, i)
    BY <1>2 DEF AnswerInv, HeldApart, ToldApart
  <2>3. ASSUME NEW s, NEW f, NEW j, Held(o, s, f, j)'
        PROVE  FALSE
    <3>1. /\ j \in Nat /\ j > 0
          /\ \/ ~(s = Srv /\ f = Fd) /\ Held(o, s, f, j)
             \/ s = Srv /\ f = Fd /\ Held(o, s, f, j + 1)
      BY <2>3 DEF HandsOut
    <3>2. j + 1 # 1
      BY <3>1
    <3>3. QED
      BY <2>1, <3>1, <3>2
  <2>4. QED
    BY <1>1, <2>2, <2>3 DEF HandsOut
<1>3. \A o \in Origins : ~Held(o, Srv, Fd, 1) => \A c, i : Told(o, c, i)' => Told(o, c, i)
  BY DEF HandsOut
<1>4. ToldOnce'
  <2>1. ASSUME NEW o \in Origins, NEW c, NEW i, NEW d, NEW j, Told(o, c, i)', Told(o, d, j)'
        PROVE  c = d /\ i = j
    <3>1. CASE Held(o, Srv, Fd, 1)
      BY <1>2, <2>1, <3>1
    <3>2. CASE ~Held(o, Srv, Fd, 1)
      <4>1. Told(o, c, i) /\ Told(o, d, j)
        BY <1>3, <2>1, <3>2
      <4>2. QED
        BY <4>1 DEF AnswerInv, ToldOnce
    <3>3. QED
      BY <3>1, <3>2
  <2>2. QED
    BY <2>1 DEF ToldOnce
<1>5. HeldOnce'
  <2>1. ASSUME NEW o \in Origins, NEW s, NEW f, NEW j, NEW t, NEW g, NEW k,
               Held(o, s, f, j)', Held(o, t, g, k)'
        PROVE  s = t /\ f = g /\ j = k
    <3>1. /\ j \in Nat /\ k \in Nat
          /\ \/ ~(s = Srv /\ f = Fd) /\ Held(o, s, f, j)
             \/ s = Srv /\ f = Fd /\ Held(o, s, f, j + 1)
          /\ \/ ~(t = Srv /\ g = Fd) /\ Held(o, t, g, k)
             \/ t = Srv /\ g = Fd /\ Held(o, t, g, k + 1)
      BY <2>1 DEF HandsOut
    <3>2. \A a, b : Held(o, s, f, a) /\ Held(o, t, g, b) => s = t /\ f = g /\ a = b
      BY DEF AnswerInv, HeldOnce
    <3>3. j + 1 = k + 1 => j = k
      BY <3>1
    <3>4. QED
      BY <3>1, <3>2, <3>3
  <2>2. QED
    BY <2>1 DEF HeldOnce
<1>6. ToldApart'
  <2>1. ASSUME NEW o \in Origins, NEW c, NEW i, Told(o, c, i)'
        PROVE  ~Waiting(o)' /\ ~\E s, f, j : Held(o, s, f, j)'
    <3>1. CASE Held(o, Srv, Fd, 1)
      BY <1>2, <3>1
    <3>2. CASE ~Held(o, Srv, Fd, 1)
      <4>1. Told(o, c, i)
        BY <1>3, <2>1, <3>2
      <4>2. ~Waiting(o) /\ ~\E s, f, j : Held(o, s, f, j)
        BY <4>1 DEF AnswerInv, ToldApart
      <4>3. QED
        BY <1>1, <4>2 DEF HandsOut
    <3>3. QED
      BY <3>1, <3>2
  <2>2. QED
    BY <2>1 DEF ToldApart
<1>7. HeldApart'
  <2>1. ASSUME NEW o \in Origins, NEW s, NEW f, NEW j, Held(o, s, f, j)'
        PROVE  ~Waiting(o)'
    <3>1. Held(o, s, f, j) \/ Held(o, s, f, j + 1)
      BY <2>1 DEF HandsOut
    <3>2. ~Waiting(o)
      BY <3>1 DEF AnswerInv, HeldApart
    <3>3. QED
      BY <1>1, <3>2
  <2>2. QED
    BY <2>1 DEF HeldApart
<1>8. KeptOnce' /\ PipedOnce' /\ Linked'
  BY LinkedKept DEF AnswerInv, HandsOut, KeptOnce, PipedOnce, NoneKept, NonePiped
<1>9. QED
  BY <1>1, <1>4, <1>5, <1>6, <1>7, <1>8 DEF AnswerInv

-----------------------------------------------------------------------------
(* Every pass of the loop is one of these moves. *)

\* No entry gains an answer when what it holds stays or goes.
LEMMA TableRests ==
    ASSUME \/ SameTable(conn, conn')
           \/ \E s, fd : Removed(s, fd)
           \/ \E s, fd, b : Becomes(s, fd, b, QueueOf(conn[s][fd]), OutputOf(conn[s][fd]))
    PROVE  NoneHeld /\ NoneKept
<1>1. ASSUME NEW s \in Servers, NEW fd \in Fds
      PROVE  \/ /\ QueueOf(conn'[s][fd]) = QueueOf(conn[s][fd])
                /\ OutputOf(conn'[s][fd]) = OutputOf(conn[s][fd])
             \/ conn'[s][fd] = None
  BY DEF SameTable, SameTableBut, SameEntry, Removed, Becomes
<1>2. QueueOf(None) = <<>> /\ OutputOf(None) = [g \in Fds |-> {}]
  BY DEF QueueOf, OutputOf
<1>3. QED
  BY <1>1, <1>2 DEF NoneHeld, NoneKept, Held, Kept

\* Nobody is told anything but an error, or that the time is over.
LEMMA ErrorsTellNothing ==
    ASSUME IInv, \/ UNCHANGED got
                 \/ \E fd \in Fds : Refuses(fd)
                 \/ \E s \in Servers, fd \in Fds : TimesOut(s, fd)
    PROVE  NoneTold
<1>1. ASSUME NEW fd \in Fds, NEW r, "ok" \in send(fd), got' = Delivered(fd, r), r.code # 200
      PROVE  NoneTold
  <2>1. \A c \in Clients : \A i \in DOMAIN got'[c] :
           \/ i \in DOMAIN got[c] /\ got'[c][i] = got[c][i]
           \/ got'[c][i] = r
    BY <1>1, DeliveredCases
  <2>2. QED
    BY <1>1, <2>1 DEF NoneTold, Told
<1>2. UNCHANGED got => NoneTold
  BY DEF NoneTold, Told
<1>3. QED
  BY <1>1, <1>2 DEF Refuses, Sends, TimesOut

LEMMA ClosesPipes ==
    ASSUME IInv, UNCHANGED pipe \/ \E fd : Closes(fd)
    PROVE  NonePiped
BY NoneIsNoObject DEF NonePiped, Piped, Closes, IInv, RegistryInv

\* A response for these requests takes the last place of a queue.
Grows(s, fd, r, of) ==
    r.of = of /\ \E b, f : Becomes(s, fd, b, Append(QueueOf(conn[s][fd]), r), f)

HeldLast(s, fd, of) ==
    \A o \in Origins : \A t, g, j : Held(o, t, g, j)' =>
       \/ Held(o, t, g, j)
       \/ o \in of /\ t = s /\ g = fd /\ j = Len(QueueOf(conn[s][fd])) + 1

LEMMA GrownQueue ==
    ASSUME IInv, NEW s \in Servers, NEW fd \in Fds, NEW r, NEW of, Grows(s, fd, r, of)
    PROVE  HeldLast(s, fd, of)
<1> DEFINE q == QueueOf(conn[s][fd])
<1>0. PICK b, f : Becomes(s, fd, b, Append(q, r), f) /\ r.of = of
  BY DEF Grows
<1>1. q \in Seq(Response)
  BY EntryTypes DEF IInv, TableInv, Tables, Entries
<1>2. \A j \in DOMAIN Append(q, r) : \/ j \in DOMAIN q /\ Append(q, r)[j] = q[j]
                                     \/ j = Len(q) + 1 /\ Append(q, r)[j] = r
  BY <1>1
<1>3. QueueOf(conn'[s][fd]) = Append(q, r)
  BY <1>0 DEF Becomes
<1>4. \A t \in Servers, g \in Fds : <<t, g>> # <<s, fd>> => QueueOf(conn'[t][g]) = QueueOf(conn[t][g])
  BY <1>0 DEF Becomes, SameTableBut, SameEntry
<1> HIDE DEF q
<1>5. ASSUME NEW o \in Origins, NEW t, NEW g, NEW j, Held(o, t, g, j)'
      PROVE  Held(o, t, g, j) \/ (o \in of /\ t = s /\ g = fd /\ j = Len(q) + 1)
  <2>1. CASE t = s /\ g = fd
    <3>1. j \in DOMAIN Append(q, r) /\ o \in Append(q, r)[j].of
      BY <1>3, <1>5, <2>1 DEF Held
    <3>2. QED
      BY <1>0, <1>2, <2>1, <3>1 DEF Held, q
  <2>2. CASE ~(t = s /\ g = fd)
    BY <1>4, <1>5, <2>2 DEF Held
  <2>3. QED
    BY <2>1, <2>2
<1>6. QED
  BY <1>5 DEF q, HeldLast

\* Request p is cut off the buffer of its socket.
Cut(k, fd, p) ==
    /\ Receives(k, fd) /\ sock'[fd] = sock[fd] /\ Srv = Home[sock[fd]]
    /\ hasRequest(Appended(k).buf) /\ p = Appended(k).buf[1].req
    /\ Buffer(fd)' = RestOf(Appended(k).buf)

Handles(k, fd, p) ==
    /\ Cut(k, fd, p)
    /\ \/ Rests
       \/ Queues(p) /\ Appended(k).buf[1].kind = "static"
       \/ Starts(p) /\ Appended(k).buf[1].kind = "cgi"

LEMMA DispatchPlaces ==
    ASSUME IInv, LoopInv, NEW k \in Nat, Dispatches(k)
    PROVE  \E fd \in Fds, p \in Origins : Handles(k, fd, p)
<1>1. recv(k) /\ hasRequest(Appended(k).buf)
  BY DEF Dispatches, Cuts
<1>2. /\ Fd \in Fds /\ Srv \in Servers /\ Appended(k).buf \in Seq(Segments)
      /\ Appended(k).buf[1].req \in Origins
  <2>1. Appended(k) \in Connection
    BY <1>1, RecvFacts
  <2>2. QED
    BY <1>1, <2>1, RecvFacts DEF Connection
<1>3. PICK fd \in Fds : fd = Fd
  BY <1>2
<1>4. PICK p \in Origins : p = Appended(k).buf[1].req
  BY <1>2
<1>5. Cut(k, fd, p)
  BY <1>3, <1>4, TakesIn DEF Cut
<1>6. CASE /\ Cuts(k, Append(QueueOf(Entry), Served(p))) /\ Appended(k).buf[1].kind = "static"
           /\ UNCHANGED <<kernelVars, got>>
  <2>1. Becomes(Srv, Fd, RestOf(Appended(k).buf), Append(QueueOf(Entry), Served(p)), OutputOf(Entry))
    BY <1>6 DEF Cuts
  <2>0. PICK s \in Servers : s = Srv
    BY <1>2
  <2>2. Grows(s, fd, Served(p), {p})
    BY <1>3, <2>0, <2>1 DEF Entry, Grows, Served
  <2>3. HeldLast(s, fd, {p})
    BY <2>2, GrownQueue
  <2>4. NoneKept
    <3>1. \A v \in Servers, g \in Fds : OutputOf(conn'[v][g]) = OutputOf(conn[v][g])
      BY <2>1 DEF Becomes, SameTableBut, SameEntry, Entry
    <3>2. QED
      BY <3>1 DEF NoneKept, Kept
  <2>5. NoneTold /\ NonePiped
    BY <1>6, ErrorsTellNothing, ClosesPipes DEF kernelVars
  <2>6. Queues(p)
    BY <1>3, <2>0, <2>3, <2>4, <2>5 DEF Queues, Entry, HeldLast
  <2>7. QED
    BY <1>5, <1>6, <2>6 DEF Handles
<1>7. CASE Cuts(k, QueueOf(Entry)) /\ Refuses(Fd)
  <2>1. Becomes(Srv, Fd, RestOf(Appended(k).buf), QueueOf(conn[Srv][Fd]), OutputOf(conn[Srv][Fd]))
    BY <1>7 DEF Cuts, Entry
  <2>2. NoneHeld /\ NoneKept
    BY <2>1, TableRests
  <2>3. NoneTold /\ NonePiped
    BY <1>2, <1>7, ErrorsTellNothing, ClosesPipes DEF Refuses, Sends, kernelVars
  <2>4. QED
    BY <1>5, <2>2, <2>3 DEF Handles, Rests
<1>8. ASSUME Cuts(k, QueueOf(Entry)), Appended(k).buf[1].kind = "cgi",
             NEW h \in Fds, Opens(h, p)
      PROVE  Handles(k, fd, p)
  <2>1. Becomes(Srv, Fd, RestOf(Appended(k).buf), QueueOf(conn[Srv][Fd]), OutputOf(conn[Srv][Fd]))
    BY <1>8 DEF Cuts, Entry
  <2>2. NoneHeld /\ NoneKept
    BY <2>1, TableRests
  <2>3. NoneTold
    BY <1>8, ErrorsTellNothing DEF Opens
  <2>4. \A o \in Origins : \A x : Piped(o, x)' => Piped(o, x) \/ (o = p /\ x = h)
    BY <1>8 DEF Opens, Piped, IInv, RegistryInv
  <2>5. Starts(p)
    BY <2>2, <2>3, <2>4 DEF Starts
  <2>6. QED
    BY <1>5, <1>8, <2>5 DEF Handles
<1>9. \/ /\ Cuts(k, Append(QueueOf(Entry), Served(p))) /\ Appended(k).buf[1].kind = "static"
         /\ UNCHANGED <<kernelVars, got>>
      \/ Cuts(k, QueueOf(Entry)) /\ Refuses(Fd)
      \/ /\ Cuts(k, QueueOf(Entry)) /\ Appended(k).buf[1].kind = "cgi"
         /\ \E h \in Fds : Opens(h, p)
  BY <1>4 DEF Dispatches
<1>10. QED
  BY <1>6, <1>7, <1>8, <1>9

LEMMA AnswersPlaces ==
    ASSUME IInv, Answers
    PROVE  HandsOut
<1> DEFINE q == QueueOf(conn[Srv][Fd])
<1>1. Srv \in Servers /\ Fd \in Fds
  BY EventFacts, EventTypes DEF Answers, Event, IInv
<1>2. q \in Seq(Response) /\ q # <<>>
  <2>1. conn[Srv][Fd] \in Entries
    BY <1>1 DEF IInv, TableInv, Tables, Entries
  <2>2. QED
    BY <2>1, EntryTypes DEF Answers, HasResponse, QueueOf
<1>3. /\ 1 \in DOMAIN q /\ Head(q) = q[1]
      /\ \A j \in DOMAIN Tail(q) : j \in Nat /\ j > 0 /\ j + 1 \in DOMAIN q /\ Tail(q)[j] = q[j + 1]
  <2>1. Tail(q) \in Seq(Response) /\ Len(Tail(q)) = Len(q) - 1 /\ Len(q) \in Nat
    BY <1>2
  <2>2. \A j \in 1..(Len(q) - 1) : Tail(q)[j] = q[j + 1]
    BY <1>2
  <2>3. QED
    BY <1>2, <2>1, <2>2
<1>4. QueueOf(conn'[Srv][Fd]) = Tail(q) /\ OutputOf(conn'[Srv][Fd]) = OutputOf(conn[Srv][Fd])
  BY DEF Answers, Becomes, Entry
<1>5. \A s \in Servers, f \in Fds : ~(s = Srv /\ f = Fd) =>
         /\ QueueOf(conn'[s][f]) = QueueOf(conn[s][f])
         /\ OutputOf(conn'[s][f]) = OutputOf(conn[s][f])
  BY DEF Answers, Becomes, SameTableBut, SameEntry
<1>6. got' = Delivered(Fd, q[1]) /\ "ok" \in send(Fd) /\ UNCHANGED pipe
  BY <1>3 DEF Answers, Sends, Entry, kernelVars
<1> HIDE DEF q
<1>7. NoneKept /\ NonePiped
  BY <1>4, <1>5, <1>6 DEF NoneKept, NonePiped, Kept, Piped
<1>8. ASSUME NEW o \in Origins, NEW c, NEW i, Told(o, c, i)'
      PROVE  Told(o, c, i) \/ (Held(o, Srv, Fd, 1) /\ c = sock[Fd] /\ i = Len(got[c]) + 1)
  <2>1. c \in Clients /\ i \in DOMAIN got'[c] /\ got'[c][i].code = 200 /\ o \in got'[c][i].of
    BY <1>8 DEF Told
  <2>2. \/ i \in DOMAIN got[c] /\ got'[c][i] = got[c][i]
        \/ c = sock[Fd] /\ i = Len(got[c]) + 1 /\ got'[c][i] = q[1]
    BY <1>1, <1>6, <2>1, DeliveredCases
  <2>3. QED
    BY <1>1, <1>3, <2>1, <2>2 DEF Told, Held, q
<1>9. ASSUME NEW o \in Origins, NEW s, NEW f, NEW j, Held(o, s, f, j)'
      PROVE  /\ j \in Nat /\ j > 0
             /\ \/ ~(s = Srv /\ f = Fd) /\ Held(o, s, f, j)
                \/ s = Srv /\ f = Fd /\ Held(o, s, f, j + 1)
  <2>1. s \in Servers /\ f \in Fds /\ j \in DOMAIN QueueOf(conn'[s][f]) /\ o \in QueueOf(conn'[s][f])[j].of
    BY <1>9 DEF Held
  <2>2. CASE s = Srv /\ f = Fd
    BY <1>3, <1>4, <2>1, <2>2 DEF Held, q
  <2>3. CASE ~(s = Srv /\ f = Fd)
    <3>1. QueueOf(conn[s][f]) \in Seq(Response) /\ QueueOf(conn'[s][f]) = QueueOf(conn[s][f])
      BY <1>5, <2>1, <2>3, EntryTypes DEF IInv, TableInv, Tables, Entries
    <3>2. Held(o, s, f, j)
      BY <2>1, <3>1 DEF Held
    <3>3. j \in Nat /\ j > 0
      BY <2>1, <3>1
    <3>4. QED
      BY <2>3, <3>2, <3>3
  <2>4. QED
    BY <2>2, <2>3
<1>10. QED
  BY <1>7, <1>8, <1>9 DEF HandsOut

LEMMA CollectsPlaces ==
    ASSUME IInv, Collects
    PROVE  Gathers
<1>1. Srv \in Servers /\ Fd \in Fds /\ CgiTo \in Fds
  BY EventFacts, EventTypes DEF Collects, Event, IInv
<1>2. NoneTold /\ NonePiped
  BY ErrorsTellNothing, ClosesPipes DEF Collects, kernelVars
<1>3. CASE SameTable(conn, conn')
  BY <1>2, <1>3, TableRests DEF Gathers, NoneKept
<1>4. CASE Becomes(Srv, CgiTo, BufOf(Owner), QueueOf(Owner),
                   [OutputOf(Owner) EXCEPT ![Fd] = @ \cup {pipe[Fd]}])
  <2> DEFINE w == OutputOf(conn[Srv][CgiTo])
  <2>1. w \in [Fds -> SUBSET Origins]
    BY <1>1, EntryTypes DEF IInv, TableInv, Tables, Entries
  <2>2. \A s \in Servers, f \in Fds : QueueOf(conn'[s][f]) = QueueOf(conn[s][f])
    BY <1>4 DEF Becomes, SameTableBut, SameEntry, Owner
  <2>3. \A s \in Servers, f \in Fds : ~(s = Srv /\ f = CgiTo) =>
           OutputOf(conn'[s][f]) = OutputOf(conn[s][f])
    BY <1>4 DEF Becomes, SameTableBut, SameEntry
  <2>4. OutputOf(conn'[Srv][CgiTo]) = [w EXCEPT ![Fd] = @ \cup {pipe[Fd]}]
    BY <1>4 DEF Becomes, Owner
  <2>5. \A x \in Fds : OutputOf(conn'[Srv][CgiTo])[x] = IF x = Fd THEN w[x] \cup {pipe[Fd]} ELSE w[x]
    BY <1>1, <2>1, <2>4
  <2>6. NoneHeld
    BY <2>2 DEF NoneHeld, Held
  <2> HIDE DEF w
  <2>7. ASSUME NEW o \in Origins, NEW s, NEW f, NEW x, Kept(o, s, f, x)'
        PROVE  Kept(o, s, f, x) \/ (Piped(o, Fd) /\ s = Srv /\ f = CgiTo /\ x = Fd)
    <3>1. s \in Servers /\ f \in Fds /\ x \in Fds /\ o \in OutputOf(conn'[s][f])[x]
      BY <2>7 DEF Kept
    <3>2. CASE s = Srv /\ f = CgiTo
      BY <1>1, <2>5, <3>1, <3>2 DEF Kept, Piped, w
    <3>3. CASE ~(s = Srv /\ f = CgiTo)
      BY <2>3, <3>1, <3>3 DEF Kept
    <3>4. QED
      BY <3>2, <3>3
  <2>8. QED
    BY <1>2, <2>6, <2>7 DEF Gathers
<1>5. QED
  BY <1>3, <1>4 DEF Collects

LEMMA FinishesPlaces ==
    ASSUME IInv, Finishes, Closes(Fd)
    PROVE  Completes
<1>1. Srv \in Servers /\ Fd \in Fds /\ CgiTo \in Fds
  BY EventFacts, EventTypes DEF Finishes, Event, IInv
<1>2. NoneTold
  BY ErrorsTellNothing DEF Finishes
<1>3. \A o \in Origins : \A x : Piped(o, x)' => Piped(o, x) /\ x # Fd
  BY NoneIsNoObject DEF Piped, Closes, IInv, RegistryInv
<1> DEFINE w == OutputOf(conn[Srv][CgiTo])
<1>4. w \in [Fds -> SUBSET Origins]
  BY <1>1, EntryTypes DEF IInv, TableInv, Tables, Entries
<1>5. PICK s \in Servers, f \in Fds, x \in Fds : s = Srv /\ f = CgiTo /\ x = Fd
  BY <1>1
<1>6. CASE Owner = None /\ SameTable(conn, conn')
  <2>1. OutputOf(conn'[s][f])[x] = {}
    BY <1>5, <1>6 DEF SameTable, SameEntry, OutputOf, Owner
  <2>2. \A o \in Origins : ~Kept(o, s, f, x)'
    BY <2>1 DEF Kept
  <2>3. NoneHeld /\ NoneKept
    BY <1>6, TableRests
  <2>4. QED
    BY <1>2, <1>3, <1>5, <2>2, <2>3 DEF Completes, NoneHeld, NoneKept
<1>7. ASSUME NEW q, Becomes(s, f, BufOf(Owner), q, [OutputOf(Owner) EXCEPT ![Fd] = {}])
      PROVE  /\ \A o \in Origins : \A t, g, y : Kept(o, t, g, y)' =>
                   Kept(o, t, g, y) /\ ~(t = s /\ g = f /\ y = x)
             /\ q = QueueOf(Owner) => NoneHeld
  <2>1. \A t \in Servers, g \in Fds : ~(t = s /\ g = f) =>
           /\ QueueOf(conn'[t][g]) = QueueOf(conn[t][g])
           /\ OutputOf(conn'[t][g]) = OutputOf(conn[t][g])
    BY <1>7 DEF Becomes, SameTableBut, SameEntry
  <2>2. OutputOf(conn'[s][f]) = [w EXCEPT ![Fd] = {}] /\ QueueOf(conn'[s][f]) = q
    BY <1>5, <1>7 DEF Becomes, Owner
  <2>3. \A y \in Fds : OutputOf(conn'[s][f])[y] = IF y = x THEN {} ELSE w[y]
    BY <1>4, <1>5, <2>2
  <2>4. w = OutputOf(conn[s][f]) /\ QueueOf(Owner) = QueueOf(conn[s][f])
    BY <1>5 DEF Owner
  <2> HIDE DEF w
  <2>5. ASSUME NEW o \in Origins, NEW t, NEW g, NEW y, Kept(o, t, g, y)'
        PROVE  Kept(o, t, g, y) /\ ~(t = s /\ g = f /\ y = x)
    <3>1. t \in Servers /\ g \in Fds /\ y \in Fds /\ o \in OutputOf(conn'[t][g])[y]
      BY <2>5 DEF Kept
    <3>2. CASE t = s /\ g = f
      BY <2>3, <2>4, <3>1, <3>2 DEF Kept
    <3>3. CASE ~(t = s /\ g = f)
      BY <2>1, <3>1, <3>3 DEF Kept
    <3>4. QED
      BY <3>2, <3>3
  <2>6. q = QueueOf(Owner) => NoneHeld
    BY <2>1, <2>2, <2>4 DEF NoneHeld, Held
  <2>7. QED
    BY <2>5, <2>6
<1>8. CASE /\ OutputOf(Owner)[Fd] = {}
           /\ Becomes(s, f, BufOf(Owner), QueueOf(Owner), [OutputOf(Owner) EXCEPT ![Fd] = {}])
  BY <1>2, <1>3, <1>5, <1>7, <1>8 DEF Completes, NoneHeld
<1>9. ASSUME NEW r, r = [code |-> 200, of |-> OutputOf(Owner)[Fd]],
             Becomes(s, f, BufOf(Owner), Append(QueueOf(Owner), r), [OutputOf(Owner) EXCEPT ![Fd] = {}])
      PROVE  Completes
  <2>1. PICK m : m = OutputOf(conn[Srv][CgiTo])[Fd]
    OBVIOUS
  <2>2. Grows(s, f, r, m)
    BY <1>5, <1>9, <2>1 DEF Grows, Owner
  <2>3. HeldLast(s, f, m)
    BY <2>2, GrownQueue
  <2>4. \A o \in m : Kept(o, Srv, CgiTo, Fd)
    BY <1>1, <2>1 DEF Kept
  <2>5. QED
    BY <1>2, <1>3, <1>5, <1>7, <1>9, <2>3, <2>4 DEF Completes, HeldLast, Owner
<1>10. \/ Owner = None /\ SameTable(conn, conn')
       \/ /\ OutputOf(Owner)[Fd] = {}
          /\ Becomes(s, f, BufOf(Owner), QueueOf(Owner), [OutputOf(Owner) EXCEPT ![Fd] = {}])
       \/ \E r : /\ r = [code |-> 200, of |-> OutputOf(Owner)[Fd]]
                 /\ Becomes(s, f, BufOf(Owner), Append(QueueOf(Owner), r),
                            [OutputOf(Owner) EXCEPT ![Fd] = {}])
  BY <1>5 DEF Finishes
<1>11. QED
  BY <1>6, <1>8, <1>9, <1>10

LEMMA PlaceCases ==
    ASSUME IInv, LoopInv, Server, up' = "up"
    PROVE  \/ Rests
           \/ \E k \in Nat, fd \in Fds, p \in Origins : Handles(k, fd, p)
           \/ Gathers /\ Event(CGI_RESPONSE)
           \/ Completes
           \/ HandsOut /\ Event(RESPONSE)
<1>0. conn \in Tables /\ ~Ends
  BY DEF IInv, TableInv, Ends, Exits
<1>1. Passes => Rests
  <2>1. Passes => NoneHeld /\ NoneKept /\ NonePiped
    BY TableRests, ClosesPipes DEF Passes
  <2>2. Passes => UNCHANGED got \/ \E fd \in Fds : Refuses(fd)
    BY DEF Passes, Poll, Breaks
  <2>3. QED
    BY <2>1, <2>2, ErrorsTellNothing DEF Rests
<1>2. ASSUME NEW s \in Servers, NEW fd \in Fds, TimesOut(s, fd)
      PROVE  Rests
  <2>1. Removed(s, fd) /\ Closes(fd)
    BY <1>0, <1>2, PutEntry DEF TimesOut, close, Closes, Removed, Entries
  <2>2. NoneHeld /\ NoneKept /\ NonePiped
    BY <2>1, TableRests, ClosesPipes
  <2>3. NoneTold
    BY <1>2, ErrorsTellNothing
  <2>4. QED
    BY <2>2, <2>3 DEF Rests
<1>3. ASSUME NEW fd \in Fds, Event(SERVER), Accepts(Fd, fd)
      PROVE  Rests
  <2>1. Fd \in Servers
    BY <1>3, EventFacts DEF Event, IInv
  <2>2. PICK s \in Servers : s = Fd
    BY <2>1
  <2>3. conn' = Put(conn, s, fd, NewConnection) /\ conn[s][fd] = None /\ UNCHANGED <<pipe, got>>
    BY <1>3, <2>2 DEF Accepts
  <2>4. Becomes(s, fd, NewConnection.buf, NewConnection.queue, NewConnection.cgi)
    BY <1>0, <2>3, FreshEntry, PutBecomes
  <2>5. NewConnection.queue = QueueOf(conn[s][fd]) /\ NewConnection.cgi = OutputOf(conn[s][fd])
    BY <2>3 DEF NewConnection, QueueOf, OutputOf
  <2>6. NoneHeld /\ NoneKept
    BY <2>4, <2>5, TableRests
  <2>7. NoneTold /\ NonePiped
    BY <2>3, ErrorsTellNothing, ClosesPipes
  <2>8. QED
    BY <2>6, <2>7 DEF Rests
<1>4. ASSUME NEW k \in Nat, Reads(k)
      PROVE  Rests
  <2>1. Becomes(Srv, Fd, Appended(k).buf, QueueOf(conn[Srv][Fd]), OutputOf(conn[Srv][Fd]))
    BY <1>4 DEF Reads, Entry
  <2>2. NoneHeld /\ NoneKept
    BY <2>1, TableRests
  <2>3. Fd \in Fds
    BY <1>4, RecvEntry DEF Reads
  <2>4. NoneTold /\ NonePiped
    BY <1>4, <2>3, ErrorsTellNothing, ClosesPipes DEF Reads, kernelVars
  <2>5. QED
    BY <2>2, <2>4 DEF Rests
<1>5. Drops(Srv, Fd) => Rests
  BY TableRests, ErrorsTellNothing, ClosesPipes DEF Drops, Rests
<1>6. Finishes => Completes
  BY <1>0, FinishesPlaces DEF Finishes
<1>7. Collects => Gathers /\ Event(CGI_RESPONSE)
  BY CollectsPlaces DEF Collects
<1>8. Answers => HandsOut /\ Event(RESPONSE)
  BY AnswersPlaces DEF Answers
<1>9. QED
  BY <1>0, <1>1, <1>2, <1>3, <1>4, <1>5, <1>6, <1>7, <1>8, DispatchPlaces, ServerCases

-----------------------------------------------------------------------------
(* What has an answer in some place was read before whatever is still coming. *)

Waits(c) == peer[c] = "none" \/ \E s \in Servers : \E i \in DOMAIN backlog[s] : backlog[s][i] = c

UsedInv ==
    \A o \in Origins : Used(o) =>
       /\ ~Waits(o[1])
       /\ o[2] <= Whole(o[1])
       /\ \A g : Coming(o[1], g) => o[2] < g.req[2]
       /\ Waiting(o) => sent[o[1]][o[2]] = "cgi"

LEMMA OriginType ==
    ASSUME IInv, NEW o \in Origins
    PROVE  /\ o[1] \in Clients /\ o[2] \in 1..MaxReq /\ o[2] \in Nat /\ o[2] > 0
           /\ o = <<o[1], o[2]>>
           /\ Whole(o[1]) \in Int /\ Whole(o[1]) <= Len(sent[o[1]]) /\ Len(sent[o[1]]) \in Nat
<1>1. o[1] \in Clients /\ o[2] \in 1..MaxReq /\ o = <<o[1], o[2]>>
  BY DEF Origins
<1>2. Len(sent[o[1]]) \in Nat
  BY <1>1 DEF IInv, EnvInv
<1>3. QED
  BY <1>1, <1>2, WebserverAssumption DEF Whole

\* A request that is cut off now is one its client has sent completely, of the kind it
\* announced, before all that is still on its way.
LEMMA CutFacts ==
    ASSUME IInv, SocketInv, LoopInv, StreamInv, NEW k \in Nat, NEW fd \in Fds, NEW p \in Origins,
           Cut(k, fd, p)
    PROVE  /\ p[1] = sock[fd] /\ Coming(p[1], Appended(k).buf[1])
           /\ Appended(k).buf[1].kind = sent[p[1]][p[2]]
           /\ p[2] <= Whole(p[1]) /\ ~Waits(p[1])
           /\ \A g : Coming(p[1], g)' => p[2] < g.req[2]
<1> DEFINE c == sock[fd]
           q == inbuf[c]
           r == SubSeq(q, k + 1, Len(q))
           b == Buffer(fd)
           t == Appended(k).buf
<1>1. /\ c \in Clients /\ c # None /\ q \in Seq(Segments) /\ k \in 1..Len(q)
      /\ inbuf' = [inbuf EXCEPT ![c] = SubSeq(@, k + 1, Len(@))]
      /\ inbuf \in [Clients -> Seq(Segments)]
  BY RecvEntry DEF Cut, Receives, IInv, EnvInv
<1>2. b \in Seq(Segments) /\ t = b \o SubSeq(q, 1, k)
  BY ReadsOwn DEF Cut, Receives
<1>3. Ordered(q) /\ Ordered(b) /\ Behind(b, q)
  BY <1>1 DEF StreamInv
<1>4. /\ t \in Seq(Segments) /\ r \in Seq(Segments)
      /\ Ordered(r) /\ Ordered(t) /\ Behind(t, r)
      /\ \A g : Among(g, t) => Among(g, b) \/ Among(g, q)
  BY <1>1, <1>2, <1>3, RecvOrder
<1>5. inbuf'[c] = r
  BY <1>1
<1> HIDE DEF r, t
<1>6. /\ Among(t[1], t)
      /\ \A g : Among(g, RestOf(t)) => p[2] < g.req[2]
      /\ \A g : Among(g, r) => p[2] < g.req[2]
      /\ \E g : Among(g, t) /\ g.last /\ p[2] <= g.req[2]
      /\ p = t[1].req
  BY <1>4, CutOrder DEF Cut, t
<1>7. \A g : Among(g, t) => WellSent(c, g) /\ Coming(c, g)
  BY <1>1, <1>4 DEF StreamInv, Coming
<1>8. p[1] = c /\ t[1].kind = sent[c][p[2]] /\ Coming(c, t[1])
  BY <1>6, <1>7 DEF WellSent
<1>9. p[2] <= Whole(c)
  <2>1. PICK g : Among(g, t) /\ g.last /\ p[2] <= g.req[2]
    BY <1>6
  <2>2. g.req[2] <= Whole(c) /\ g.req[2] \in 1..Len(sent[c])
    BY <1>7, <2>1 DEF WellSent
  <2>3. p[2] \in Int /\ Whole(c) \in Int /\ g.req[2] \in Int
    BY <1>8, <2>2, OriginType
  <2>4. QED
    BY <2>1, <2>2, <2>3
<1>10. ~Waits(c)
  <2>1. peer[c] # "none"
    BY <1>1 DEF SocketInv, SocketsPresent, Present
  <2>2. QED
    BY <1>1, <2>1 DEF SocketInv, WaitingOnce, Waits
<1>11. ASSUME NEW g, Coming(p[1], g)'
       PROVE  p[2] < g.req[2]
  <2>1. Among(g, r) \/ \E f \in Fds : sock'[f] = c /\ Among(g, Buffer(f)')
    BY <1>5, <1>8, <1>11 DEF Coming
  <2>2. ASSUME NEW f \in Fds, sock'[f] = c
        PROVE  f = fd
    BY <1>1, <2>2 DEF Cut, Receives, SocketInv, SocketsDistinct
  <2>3. Buffer(fd)' = RestOf(t)
    BY DEF Cut, t
  <2>4. QED
    BY <1>6, <2>1, <2>2, <2>3
<1>12. QED
  BY <1>8, <1>9, <1>10, <1>11 DEF t

\* Nobody waits again who does not wait.
LEMMA WaitsKept ==
    ASSUME IInv, Server, up' = "up"
    PROVE  \A c \in Clients : Waits(c)' => Waits(c)
<1>0. ~Ends /\ backlog \in [Servers -> Seq(Clients)] /\ peer \in [Clients -> PeerStates]
  BY DEF Ends, Exits, IInv, EnvInv, RegistryInv
<1>1. UNCHANGED <<peer, backlog>> => \A c \in Clients : Waits(c)' => Waits(c)
  BY DEF Waits
<1>2. ASSUME UNCHANGED backlog, NEW v, v # "none",
             NEW d, peer' = [c \in Clients |-> IF d = c THEN v ELSE peer[c]]
      PROVE  \A c \in Clients : Waits(c)' => Waits(c)
  BY <1>2 DEF Waits
<1>3. ASSUME UNCHANGED backlog, NEW fd, Closes(fd)
      PROVE  \A c \in Clients : Waits(c)' => Waits(c)
  BY <1>2, <1>3 DEF Closes
<1>4. Passes => \A c \in Clients : Waits(c)' => Waits(c)
  <2>1. Passes => UNCHANGED backlog
    BY DEF Passes
  <2>2. Passes => UNCHANGED peer \/ Breaks
    BY DEF Passes, Poll, Refuses, Sends, kernelVars
  <2>3. QED
    BY <1>1, <1>2, <2>1, <2>2 DEF Breaks
<1>5. ASSUME NEW s \in Servers, NEW fd \in Fds, TimesOut(s, fd), UNCHANGED backlog
      PROVE  \A c \in Clients : Waits(c)' => Waits(c)
  BY <1>3, <1>5 DEF TimesOut, close, Closes
<1>6. ASSUME NEW fd \in Fds, Event(SERVER), Accepts(Fd, fd)
      PROVE  \A c \in Clients : Waits(c)' => Waits(c)
  <2>1. PICK s \in Servers : s = Fd
    BY <1>6, EventFacts DEF Event, IInv
  <2>2. backlog' = [backlog EXCEPT ![s] = Tail(@)] /\ backlog[s] # <<>> /\ UNCHANGED peer
    BY <1>6, <2>1 DEF Accepts
  <2>3. \A i \in DOMAIN Tail(backlog[s]) : i + 1 \in DOMAIN backlog[s]
                                           /\ Tail(backlog[s])[i] = backlog[s][i + 1]
    BY <1>0, <2>2
  <2>4. \A t \in Servers : backlog'[t] = IF t = s THEN Tail(backlog[s]) ELSE backlog[t]
    BY <1>0, <2>2
  <2>5. QED
    BY <2>2, <2>3, <2>4 DEF Waits
<1>7. ASSUME NEW k \in Nat, Reads(k) \/ Dispatches(k)
      PROVE  \A c \in Clients : Waits(c)' => Waits(c)
  BY <1>1, <1>7 DEF Reads, Dispatches, Cuts, Refuses, Sends, Opens, kernelVars
<1>8. Answers \/ Collects => \A c \in Clients : Waits(c)' => Waits(c)
  BY <1>1 DEF Answers, Collects, Sends, kernelVars
<1>9. Finishes \/ Drops(Srv, Fd) => \A c \in Clients : Waits(c)' => Waits(c)
  BY <1>0, <1>3 DEF Finishes, Drops
<1>10. QED
  BY <1>0, <1>4, <1>5, <1>6, <1>7, <1>8, <1>9, ServerCases

LEMMA StreamServerStep ==
    ASSUME IInv, SocketInv, LoopInv, StreamInv, Server, up' = "up"
    PROVE  StreamInv' /\ \A c \in Clients : \A g : Coming(c, g)' => Coming(c, g)
BY StreamCases, FlowsStep, ReceivesStep, ServerCases

LEMMA AnswerServerStep ==
    ASSUME IInv, SocketInv, LoopInv, StreamInv, UsedInv, AnswerInv, Server, up' = "up"
    PROVE  UsedInv' /\ AnswerInv'
<1>1. /\ \A c \in Clients : \A g : Coming(c, g)' => Coming(c, g)
      /\ \A c \in Clients : Waits(c)' => Waits(c)
      /\ KeptPipes(kq') /\ UNCHANGED clientVars
  BY StreamServerStep, WaitsKept, PipeEventKept, ServerCases
<1>2. ASSUME NEW o \in Origins, Used(o)', Used(o), Waiting(o)' => Waiting(o)
      PROVE  /\ ~Waits(o[1])' /\ o[2] <= Whole(o[1])'
             /\ \A g : Coming(o[1], g)' => o[2] < g.req[2]
             /\ Waiting(o)' => sent'[o[1]][o[2]] = "cgi"
  <2>1. o[1] \in Clients
    BY OriginType
  <2>2. /\ ~Waits(o[1]) /\ o[2] <= Whole(o[1])
        /\ \A g : Coming(o[1], g) => o[2] < g.req[2]
        /\ Waiting(o) => sent[o[1]][o[2]] = "cgi"
    BY <1>2 DEF UsedInv
  <2>3. Whole(o[1])' = Whole(o[1]) /\ sent' = sent
    BY <1>1 DEF Whole, clientVars
  <2>4. QED
    BY <1>1, <1>2, <2>1, <2>2, <2>3
<1>3. ASSUME \A o \in Origins : (Used(o)' => Used(o)) /\ (Waiting(o)' => Waiting(o))
      PROVE  UsedInv'
  BY <1>2, <1>3 DEF UsedInv
<1>4. Rests => UsedInv' /\ AnswerInv'
  BY <1>1, <1>3, RestsMove
<1>5. Gathers /\ Event(CGI_RESPONSE) => UsedInv' /\ AnswerInv'
  <2>1. Event(CGI_RESPONSE) => EventOf(Fd).srv = Srv /\ EventOf(Fd).client = CgiTo
    BY DEF Event, LoopInv, PolledKnown, Holding, EventOf
  <2>2. QED
    BY <1>1, <1>3, <2>1, GathersMove
<1>6. Completes \/ HandsOut => UsedInv' /\ AnswerInv'
  BY <1>1, <1>3, CompletesMove, HandsOutMove
<1>7. ASSUME NEW k \in Nat, NEW fd \in Fds, NEW p \in Origins, Handles(k, fd, p)
      PROVE  UsedInv' /\ AnswerInv'
  <2>1. /\ Coming(p[1], Appended(k).buf[1]) /\ Appended(k).buf[1].req = p
        /\ Appended(k).buf[1].kind = sent[p[1]][p[2]]
        /\ p[2] <= Whole(p[1]) /\ ~Waits(p[1]) /\ p[1] \in Clients /\ p[2] \in Nat
        /\ \A g : Coming(p[1], g)' => p[2] < g.req[2]
    BY <1>7, CutFacts, OriginType DEF Handles, Cut
  <2>2. ~Used(p)
    <3>1. Used(p) => p[2] < p[2]
      BY <2>1 DEF UsedInv
    <3>2. QED
      BY <2>1, <3>1
  <2>3. Whole(p[1])' = Whole(p[1]) /\ sent' = sent
    BY <1>1 DEF Whole, clientVars
  <2>4. /\ ~Waits(p[1])' /\ p[2] <= Whole(p[1])'
        /\ \A g : Coming(p[1], g)' => p[2] < g.req[2]
    BY <1>1, <2>1, <2>3
  <2>5. ASSUME \A o \in Origins : /\ Used(o)' => Used(o) \/ o = p
                                  /\ Waiting(o)' => Waiting(o) \/ (o = p /\ sent[p[1]][p[2]] = "cgi")
        PROVE  UsedInv'
    <3>1. ASSUME NEW o \in Origins, Used(o)'
          PROVE  /\ ~Waits(o[1])' /\ o[2] <= Whole(o[1])'
                 /\ \A g : Coming(o[1], g)' => o[2] < g.req[2]
                 /\ Waiting(o)' => sent'[o[1]][o[2]] = "cgi"
      <4>1. CASE o = p
        <5>1. ~Waiting(p)
          BY <2>2 DEF Used
        <5>2. Waiting(p)' => sent'[p[1]][p[2]] = "cgi"
          BY <2>3, <2>5, <5>1
        <5>3. QED
          BY <2>4, <4>1, <5>2
      <4>2. CASE o # p
        BY <1>2, <2>5, <3>1, <4>2
      <4>3. QED
        BY <4>1, <4>2
    <3>2. QED
      BY <3>1 DEF UsedInv
  <2>6. CASE Rests
    BY <1>4, <2>6
  <2>7. CASE Queues(p)
    <3>1. /\ AnswerInv'
          /\ \A o \in Origins : (Used(o)' => Used(o) \/ o = p) /\ (Waiting(o)' => Waiting(o))
      BY <1>1, <2>2, <2>7, QueuesMove
    <3>2. QED
      BY <2>5, <3>1
  <2>8. CASE Starts(p) /\ Appended(k).buf[1].kind = "cgi"
    <3>1. /\ AnswerInv'
          /\ \A o \in Origins : (Used(o)' => Used(o) \/ o = p) /\ (Waiting(o)' => Waiting(o) \/ o = p)
      BY <1>1, <2>2, <2>8, StartsMove
    <3>2. QED
      BY <2>1, <2>5, <2>8, <3>1
  <2>9. QED
    BY <1>7, <2>6, <2>7, <2>8 DEF Handles
<1>8. QED
  BY <1>4, <1>5, <1>6, <1>7, PlaceCases

\* The environment moves no answer, and what a client sends comes after all it has sent.
LEMMA EnvRests ==
    ASSUME IInv, Environment
    PROVE  Rests /\ KeptPipes(kq') /\ \A c \in Clients : Waits(c)' => Waits(c)
<1>1. UNCHANGED <<kq, sock, pipe, pc, up>> /\ SameTable(conn, conn')
  BY EnvCases
<1>2. NoneHeld /\ NoneKept /\ NonePiped
  BY <1>1, TableRests, ClosesPipes
<1>3. KeptPipes(kq')
  BY <1>1 DEF KeptPipes, EventOf, SameKnote
<1>4. NoneTold
  <2>1. UNCHANGED got => NoneTold
    BY ErrorsTellNothing
  <2>2. ASSUME NEW o \in Origins, Runs(o)
        PROVE  NoneTold
    <3>1. ASSUME got' = [got EXCEPT ![o[1]] = Append(@, [code |-> 500, of |-> {o}])]
          PROVE  NoneTold
      <4>1. got \in [Clients -> Seq(Response)] /\ o[1] \in Clients
        BY OriginType DEF IInv, TableInv
      <4>2. \A c \in Clients : \A i \in DOMAIN got'[c] :
               \/ i \in DOMAIN got[c] /\ got'[c][i] = got[c][i]
               \/ got'[c][i].code = 500
        <5>1. \A c \in Clients : c # o[1] => got'[c] = got[c]
          BY <3>1, <4>1
        <5>2. got'[o[1]] = Append(got[o[1]], [code |-> 500, of |-> {o}]) /\ got[o[1]] \in Seq(Response)
          BY <3>1, <4>1
        <5>3. \A i \in DOMAIN got'[o[1]] :
                 \/ i \in DOMAIN got[o[1]] /\ got'[o[1]][i] = got[o[1]][i]
                 \/ got'[o[1]][i].code = 500
          BY <5>2
        <5>4. QED
          BY <5>1, <5>3
      <4>3. QED
        BY <4>2 DEF NoneTold, Told
    <3>2. QED
      BY <2>1, <2>2, <3>1 DEF Runs
  <2>3. \A c : Connect(c) \/ Sent(c) \/ Leave(c) \/ Reset(c) => UNCHANGED got
    BY DEF Connect, Sent, Leave, Reset
  <2>4. QED
    BY <2>1, <2>2, <2>3, EnvCases
<1>5. \A c \in Clients : Waits(c)' => Waits(c)
  <2>1. UNCHANGED <<peer, backlog>> => \A c \in Clients : Waits(c)' => Waits(c)
    BY DEF Waits
  <2>2. ASSUME NEW d \in Clients, Connect(d), NEW c \in Clients, Waits(c)'
        PROVE  Waits(c)
    <3>0. backlog \in [Servers -> Seq(Clients)] /\ Home[d] \in Servers /\ peer \in [Clients -> PeerStates]
      BY WebserverAssumption DEF IInv, EnvInv, RegistryInv
    <3>1. CASE c = d
      BY <2>2, <3>1 DEF Connect, Waits
    <3>2. CASE c # d
      <4>1. peer'[c] = peer[c]
        BY <2>2, <3>0, <3>2 DEF Connect
      <4>2. ASSUME NEW s \in Servers, NEW i \in DOMAIN backlog'[s], backlog'[s][i] = c
            PROVE  i \in DOMAIN backlog[s] /\ backlog[s][i] = c
        <5>1. CASE s = Home[d]
          <6>1. backlog'[s] = Append(backlog[s], d) /\ backlog[s] \in Seq(Clients)
            BY <2>2, <3>0, <5>1 DEF Connect
          <6>2. QED
            BY <3>2, <4>2, <6>1
        <5>2. CASE s # Home[d]
          BY <2>2, <3>0, <4>2, <5>2 DEF Connect
        <5>3. QED
          BY <5>1, <5>2
      <4>3. QED
        BY <2>2, <4>1, <4>2 DEF Waits
    <3>3. QED
      BY <3>1, <3>2
  <2>3. ASSUME NEW d \in Clients, Leave(d) \/ Reset(d)
        PROVE  \A c \in Clients : Waits(c)' => Waits(c)
    <3>1. peer \in [Clients -> PeerStates] /\ UNCHANGED backlog
      BY <2>3 DEF IInv, RegistryInv, Leave, Reset
    <3>2. \A c \in Clients : peer'[c] = "none" => peer[c] = "none"
      BY <2>3, <3>1 DEF Leave, Reset
    <3>3. QED
      BY <3>1, <3>2 DEF Waits
  <2>4. QED
    BY <2>1, <2>2, <2>3, EnvCases DEF Sent, Runs
<1>6. QED
  BY <1>2, <1>3, <1>4, <1>5 DEF Rests

LEMMA AnswerEnvStep ==
    ASSUME IInv, StreamInv, UsedInv, AnswerInv, Environment
    PROVE  StreamInv' /\ UsedInv' /\ AnswerInv'
<1>1. /\ UNCHANGED <<kq, sock, pipe, pc, up>> /\ SameTable(conn, conn')
      /\ \A c \in Clients : Waits(c)' => Waits(c)
  BY EnvCases, EnvRests
<1>2. /\ AnswerInv'
      /\ \A o \in Origins : (Used(o)' => Used(o)) /\ (Waiting(o)' => Waiting(o))
  BY EnvRests, RestsMove
<1>3. ASSUME UNCHANGED <<inbuf, clientVars>>
      PROVE  StreamInv' /\ UsedInv'
  <2>1. Flows
    <3>1. \A s \in Servers, fd \in Fds : BufOf(conn'[s][fd]) = BufOf(conn[s][fd])
      BY <1>1 DEF SameTable, SameEntry
    <3>2. QED
      BY <1>1, <1>3, <3>1, KeptBuffers
  <2>2. StreamInv' /\ \A c \in Clients : \A g : Coming(c, g)' => Coming(c, g)
    BY <1>3, <2>1, FlowsStep
  <2>3. \A c : Whole(c)' = Whole(c) /\ sent' = sent
    BY <1>3 DEF Whole, clientVars
  <2>4. ASSUME NEW o \in Origins, Used(o)'
        PROVE  /\ ~Waits(o[1])' /\ o[2] <= Whole(o[1])'
               /\ \A g : Coming(o[1], g)' => o[2] < g.req[2]
               /\ Waiting(o)' => sent'[o[1]][o[2]] = "cgi"
    BY <1>1, <1>2, <2>2, <2>3, <2>4, OriginType DEF UsedInv
  <2>5. QED
    BY <2>2, <2>4 DEF UsedInv
<1>4. ASSUME NEW c \in Clients, Sent(c)
      PROVE  StreamInv' /\ UsedInv'
  <2>1. /\ StreamInv'
        /\ \A d \in Clients : \A g : Coming(d, g)' => Coming(d, g) \/ Whole(d) < g.req[2]
    BY <1>1, <1>4, SentStep
  <2>2. PICK h : Announces(c, h)
    BY <1>4, SentFacts
  <2>3. /\ Whole(c) <= Whole(c)' /\ \A d \in Clients : d # c => Whole(d)' = Whole(d)
        /\ \A d \in Clients : \A n \in 1..Len(sent[d]) : sent'[d][n] = sent[d][n]
        /\ \A d \in Clients : Len(sent[d]) <= Len(sent'[d])
    BY <2>2 DEF Announces
  <2>4. ASSUME NEW o \in Origins, Used(o)'
        PROVE  /\ ~Waits(o[1])' /\ o[2] <= Whole(o[1])'
               /\ \A g : Coming(o[1], g)' => o[2] < g.req[2]
               /\ Waiting(o)' => sent'[o[1]][o[2]] = "cgi"
    <3>1. /\ Used(o) /\ ~Waits(o[1]) /\ o[2] <= Whole(o[1])
          /\ \A g : Coming(o[1], g) => o[2] < g.req[2]
          /\ Waiting(o) => sent[o[1]][o[2]] = "cgi"
      BY <1>2, <2>4 DEF UsedInv
    <3>2. /\ o[1] \in Clients /\ o[2] \in Nat /\ o[2] > 0 /\ Whole(o[1]) \in Int
          /\ Whole(o[1]) <= Len(sent[o[1]]) /\ Len(sent[o[1]]) \in Nat
      BY OriginType
    <3>3. o[2] \in 1..Len(sent[o[1]])
      BY <3>1, <3>2
    <3>4. Whole(o[1])' \in Int
      <4>1. IInv'
        BY NextInv DEF Environment, Next
      <4>2. sent' \in [Clients -> Seq(Kinds)]
        BY <4>1 DEF IInv, EnvInv
      <4>3. QED
        BY <3>2, <4>2 DEF Whole
    <3>5. o[2] <= Whole(o[1])'
      <4>1. Whole(o[1]) <= Whole(o[1])'
        BY <2>3, <3>2, <3>4
      <4>2. QED
        BY <3>1, <3>2, <3>4, <4>1
    <3>6. ASSUME NEW g, Coming(o[1], g)'
          PROVE  o[2] < g.req[2]
      <4>1. g.req[2] \in Int
        BY <2>1, <3>2, <3>6 DEF StreamInv, WellSent
      <4>2. Coming(o[1], g) \/ Whole(o[1]) < g.req[2]
        BY <2>1, <3>2, <3>6
      <4>3. QED
        BY <3>1, <3>2, <4>1, <4>2
    <3>7. QED
      BY <1>1, <1>2, <2>3, <3>1, <3>2, <3>3, <3>5, <3>6
  <2>5. QED
    BY <2>1, <2>4 DEF UsedInv
<1>5. \A c : Connect(c) \/ Leave(c) \/ Reset(c) => UNCHANGED <<inbuf, clientVars>>
  BY DEF Connect, Leave, Reset
<1>6. \A o \in Origins : Runs(o) => UNCHANGED <<inbuf, clientVars>>
  BY DEF Runs
<1>7. QED
  BY <1>2, <1>3, <1>4, <1>5, <1>6, EnvCases

-----------------------------------------------------------------------------
(* Static resources keep the order of their requests. *)

Resource(o)  == sent[o[1]][o[2]] = "static"
Resources(o, p) == o[1] = p[1] /\ Resource(o) /\ Resource(p)

ToldInOrder ==
    \A o, p \in Origins : Resources(o, p) =>
       \A i, j : Told(o, o[1], i) /\ Told(p, p[1], j) /\ i < j => o[2] < p[2]

HeldAtHome ==
    \A o \in Origins, fd \in Fds : Resource(o) /\ sock[fd] = o[1] =>
       \A s, i : Held(o, s, fd, i) => s = Home[o[1]]

HeldInOrder ==
    \A o, p \in Origins, fd \in Fds : Resources(o, p) /\ sock[fd] = o[1] =>
       \A s, i, j : Held(o, s, fd, i) /\ Held(p, s, fd, j) /\ i < j => o[2] < p[2]

ToldBeforeHeld ==
    \A o, p \in Origins, fd \in Fds : Resources(o, p) /\ sock[fd] = o[1] =>
       \A i, s, j : Told(o, o[1], i) /\ Held(p, s, fd, j) => o[2] < p[2]

OrderInv == ToldInOrder /\ HeldAtHome /\ HeldInOrder /\ ToldBeforeHeld

\* A socket is the one it was, or that of a client that waited for it.
LEMMA SocketCases ==
    ASSUME IInv, Server, up' = "up"
    PROVE  \A fd \in Fds : sock'[fd] # None => sock'[fd] = sock[fd] \/ Waits(sock'[fd])
<1>0. sock \in [Fds -> Clients \cup {None}] /\ ~Ends /\ backlog \in [Servers -> Seq(Clients)]
  BY DEF IInv, RegistryInv, EnvInv, Ends, Exits
<1>1. UNCHANGED sock \/ (\E fd : Closes(fd)) =>
         \A fd \in Fds : sock'[fd] # None => sock'[fd] = sock[fd]
  BY <1>0 DEF Closes
<1>2. ASSUME NEW fd \in Fds, Event(SERVER), Accepts(Fd, fd)
      PROVE  \A g \in Fds : sock'[g] = sock[g] \/ Waits(sock'[g])
  <2>1. PICK s \in Servers : s = Fd
    BY <1>2, EventFacts DEF Event, IInv
  <2>2. backlog[s] # <<>> /\ backlog[s] \in Seq(Clients) /\ sock' = [sock EXCEPT ![fd] = Head(backlog[s])]
    BY <1>0, <1>2, <2>1 DEF Accepts
  <2>3. 1 \in DOMAIN backlog[s] /\ Head(backlog[s]) = backlog[s][1]
    BY <2>2
  <2>4. Waits(Head(backlog[s]))
    BY <2>3 DEF Waits
  <2>5. QED
    BY <1>0, <2>2, <2>4
<1>3. \A k \in Nat : Reads(k) \/ Dispatches(k) => UNCHANGED sock
  BY DEF Reads, Dispatches, Cuts, Refuses, Sends, Opens, kernelVars
<1>4. \A s \in Servers, fd \in Fds : TimesOut(s, fd) => Closes(fd)
  BY DEF TimesOut, close, Closes
<1>5. Passes \/ Answers \/ Collects => UNCHANGED sock
  BY DEF Passes, Answers, Collects, Sends, kernelVars
<1>6. Finishes \/ Drops(Srv, Fd) => Closes(Fd)
  BY <1>0 DEF Finishes, Drops
<1>7. QED
  BY <1>0, <1>1, <1>2, <1>3, <1>4, <1>5, <1>6, ServerCases

\* No resource comes to a place.
LEMMA OrderRests ==
    ASSUME IInv, OrderInv,
           \A o \in Origins : Resource(o)' /\ Used(o) => Resource(o),
           \A o \in Origins, fd \in Fds : Used(o) /\ sock'[fd] = o[1] => sock[fd] = o[1],
           \A o \in Origins : Resource(o)' =>
              /\ \A c, i : Told(o, c, i)' => Told(o, c, i)
              /\ \A s, f, j : Held(o, s, f, j)' => Held(o, s, f, j)
    PROVE  OrderInv'
<1>1. \A o \in Origins : \A c, i : Told(o, c, i) => Used(o)
  BY DEF Used
<1>2. \A o \in Origins : \A s, f, j : Held(o, s, f, j) => Used(o)
  BY DEF Used
<1>3. ToldInOrder'
  BY <1>1 DEF OrderInv, ToldInOrder, Resources
<1>4. HeldAtHome'
  BY <1>2 DEF OrderInv, HeldAtHome
<1>5. HeldInOrder'
  BY <1>2 DEF OrderInv, HeldInOrder, Resources
<1>6. ToldBeforeHeld'
  BY <1>1, <1>2 DEF OrderInv, ToldBeforeHeld, Resources
<1>7. QED
  BY <1>3, <1>4, <1>5, <1>6 DEF OrderInv

\* A resource that is queued comes after all that were asked for before.
LEMMA OrderQueues ==
    ASSUME IInv, UsedInv, OrderInv, UNCHANGED sent, NEW k \in Nat, NEW d \in Fds, NEW p \in Origins,
           Cut(k, d, p), Coming(p[1], Appended(k).buf[1]), p[1] = sock[d], Queues(p),
           \A o \in Origins, fd \in Fds : Used(o) /\ sock'[fd] = o[1] => sock[fd] = o[1]
    PROVE  OrderInv'
<1>1. /\ \A o \in Origins : Resource(o)' <=> Resource(o)
      /\ \A o, q \in Origins : Resources(o, q)' <=> Resources(o, q)
  BY DEF Resource, Resources
<1>2. /\ \A o \in Origins : \A c, i : Told(o, c, i)' => Told(o, c, i)
      /\ \A o \in Origins : \A s, f, j : Held(o, s, f, j)' =>
            \/ Held(o, s, f, j)
            \/ o = p /\ s = Srv /\ f = Fd /\ j = Len(QueueOf(Entry)) + 1
      /\ d = Fd /\ Srv = Home[p[1]] /\ sock'[d] = p[1]
  BY DEF Queues, NoneTold, Cut, Receives
<1>3. /\ \A o \in Origins : \A c, i : Told(o, c, i) => Used(o)
      /\ \A o \in Origins : \A s, f, j : Held(o, s, f, j) => Used(o)
  BY DEF Used
<1>4. \A o \in Origins : Used(o) /\ o[1] = p[1] => o[2] < p[2]
  BY DEF UsedInv, Cut
<1>5. ASSUME NEW o \in Origins, NEW j, Held(o, Srv, Fd, j)
      PROVE  j \in Nat /\ ~(Len(QueueOf(Entry)) + 1 < j)
  <2>1. QueueOf(Entry) \in Seq(Response)
    BY <1>5, EntryTypes DEF Held, Entry, IInv, TableInv, Tables, Entries
  <2>2. j \in DOMAIN QueueOf(Entry)
    BY <1>5 DEF Held, Entry
  <2>3. QED
    BY <2>1, <2>2
<1>6. Len(QueueOf(Entry)) \in Nat
  <2>1. Srv \in Servers /\ Fd \in Fds
    BY RecvEntry DEF Cut, Receives
  <2>2. QueueOf(Entry) \in Seq(Response)
    BY <2>1, EntryTypes DEF Entry, IInv, TableInv, Tables, Entries
  <2>3. QED
    BY <2>2
<1>7. ToldInOrder'
  BY <1>1, <1>2 DEF OrderInv, ToldInOrder
<1>8. HeldAtHome'
  <2>1. ASSUME NEW o \in Origins, NEW fd \in Fds, Resource(o), sock'[fd] = o[1],
               NEW s, NEW i, Held(o, s, fd, i)'
        PROVE  s = Home[o[1]]
    <3>1. CASE Held(o, s, fd, i)
      BY <1>3, <2>1, <3>1 DEF OrderInv, HeldAtHome
    <3>2. CASE o = p /\ s = Srv
      BY <1>2, <3>2
    <3>3. QED
      BY <1>2, <2>1, <3>1, <3>2
  <2>2. QED
    BY <1>1, <2>1 DEF HeldAtHome
<1>9. HeldInOrder'
  <2>1. ASSUME NEW o \in Origins, NEW q \in Origins, NEW fd \in Fds, Resources(o, q),
               sock'[fd] = o[1], NEW s, NEW i, NEW j,
               Held(o, s, fd, i)', Held(q, s, fd, j)', i < j
        PROVE  o[2] < q[2]
    <3>1. CASE Held(o, s, fd, i) /\ Held(q, s, fd, j)
      BY <1>3, <2>1, <3>1 DEF OrderInv, HeldInOrder
    <3>2. CASE Held(o, s, fd, i) /\ q = p
      BY <1>3, <1>4, <2>1, <3>2 DEF Resources
    <3>3. CASE s = Srv /\ fd = Fd /\ i = Len(QueueOf(Entry)) + 1
      <4>1. CASE Held(q, s, fd, j)
        BY <1>5, <2>1, <3>3, <4>1
      <4>2. CASE j = Len(QueueOf(Entry)) + 1
        BY <1>6, <2>1, <3>3, <4>2
      <4>3. QED
        BY <1>2, <2>1, <4>1, <4>2
    <3>4. QED
      BY <1>2, <2>1, <3>1, <3>2, <3>3
  <2>2. QED
    BY <1>1, <2>1 DEF HeldInOrder
<1>10. ToldBeforeHeld'
  <2>1. ASSUME NEW o \in Origins, NEW q \in Origins, NEW fd \in Fds, Resources(o, q),
               sock'[fd] = o[1], NEW i, NEW s, NEW j, Told(o, o[1], i)', Held(q, s, fd, j)'
        PROVE  o[2] < q[2]
    <3>1. Told(o, o[1], i) /\ Used(o)
      BY <1>2, <1>3, <2>1
    <3>2. CASE Held(q, s, fd, j)
      BY <2>1, <3>1, <3>2 DEF OrderInv, ToldBeforeHeld
    <3>3. CASE q = p
      BY <1>4, <2>1, <3>1, <3>3 DEF Resources
    <3>4. QED
      BY <1>2, <2>1, <3>2, <3>3
  <2>2. QED
    BY <1>1, <2>1 DEF ToldBeforeHeld
<1>11. QED
  BY <1>7, <1>8, <1>9, <1>10 DEF OrderInv

\* What is handed out is the first of its queue, and there is no other queue it could
\* overtake.
LEMMA OrderHandsOut ==
    ASSUME IInv, SocketInv, OrderInv, UNCHANGED sent, HandsOut,
           \A o \in Origins, fd \in Fds : Used(o) /\ sock'[fd] = o[1] => sock[fd] = o[1]
    PROVE  OrderInv'
<1>1. /\ \A o \in Origins : Resource(o)' <=> Resource(o)
      /\ \A o, q \in Origins : Resources(o, q)' <=> Resources(o, q)
  BY DEF Resource, Resources
<1>2. /\ \A o \in Origins : \A c, i : Told(o, c, i)' =>
            \/ Told(o, c, i)
            \/ Held(o, Srv, Fd, 1) /\ c = sock[Fd] /\ i = Len(got[c]) + 1
      /\ \A o \in Origins : \A s, f, j : Held(o, s, f, j)' =>
            /\ j \in Nat /\ j > 0
            /\ \/ ~(s = Srv /\ f = Fd) /\ Held(o, s, f, j)
               \/ s = Srv /\ f = Fd /\ Held(o, s, f, j + 1)
  BY DEF HandsOut
<1>3. \A o \in Origins : \A s, f, j : Held(o, s, f, j) => Used(o)
  BY DEF Used
<1>4. ASSUME NEW o \in Origins, NEW c, NEW i, Told(o, c, i)
      PROVE  i \in Nat /\ i < Len(got[c]) + 1 /\ Len(got[c]) \in Nat
  BY <1>4 DEF Told, IInv, TableInv
<1>5. ToldInOrder'
  <2>1. ASSUME NEW o \in Origins, NEW q \in Origins, Resources(o, q), NEW i, NEW j,
               Told(o, o[1], i)', Told(q, q[1], j)', i < j
        PROVE  o[2] < q[2]
    <3>0. o[1] = q[1] /\ o[1] \in Clients /\ Len(got[o[1]]) \in Nat
      BY <2>1, OriginType DEF Resources, IInv, TableInv
    <3>1. CASE Told(o, o[1], i) /\ Told(q, q[1], j)
      BY <2>1, <3>1 DEF OrderInv, ToldInOrder
    <3>2. CASE Told(o, o[1], i) /\ Held(q, Srv, Fd, 1) /\ q[1] = sock[Fd]
      <4>1. Fd \in Fds
        BY <3>2 DEF Held
      <4>2. QED
        BY <2>1, <3>0, <3>2, <4>1 DEF OrderInv, ToldBeforeHeld
    <3>3. CASE i = Len(got[o[1]]) + 1
      <4>1. j = Len(got[o[1]]) + 1 \/ (j \in Nat /\ j < Len(got[o[1]]) + 1)
        BY <1>2, <1>4, <2>1, <3>0
      <4>2. QED
        BY <2>1, <3>0, <3>3, <4>1
    <3>4. QED
      BY <1>2, <2>1, <3>1, <3>2, <3>3
  <2>2. QED
    BY <1>1, <2>1 DEF ToldInOrder
<1>6. HeldAtHome'
  <2>1. ASSUME NEW o \in Origins, NEW fd \in Fds, Resource(o), sock'[fd] = o[1],
               NEW s, NEW i, Held(o, s, fd, i)'
        PROVE  s = Home[o[1]]
    <3>1. \E j : Held(o, s, fd, j)
      BY <1>2, <2>1
    <3>2. sock[fd] = o[1]
      BY <1>3, <2>1, <3>1
    <3>3. QED
      BY <2>1, <3>1, <3>2 DEF OrderInv, HeldAtHome
  <2>2. QED
    BY <1>1, <2>1 DEF HeldAtHome
<1>7. HeldInOrder'
  <2>1. ASSUME NEW o \in Origins, NEW q \in Origins, NEW fd \in Fds, Resources(o, q),
               sock'[fd] = o[1], NEW s, NEW i, NEW j,
               Held(o, s, fd, i)', Held(q, s, fd, j)', i < j
        PROVE  o[2] < q[2]
    <3>1. \E a, b : Held(o, s, fd, a) /\ Held(q, s, fd, b) /\ a < b
      <4>1. i \in Nat /\ j \in Nat /\ i + 1 < j + 1
        BY <1>2, <2>1
      <4>2. CASE s = Srv /\ fd = Fd
        <5>1. Held(o, s, fd, i + 1) /\ Held(q, s, fd, j + 1)
          BY <1>2, <2>1, <4>2
        <5>2. QED
          BY <4>1, <5>1
      <4>3. CASE ~(s = Srv /\ fd = Fd)
        <5>1. Held(o, s, fd, i) /\ Held(q, s, fd, j)
          BY <1>2, <2>1, <4>3
        <5>2. QED
          BY <2>1, <5>1
      <4>4. QED
        BY <4>2, <4>3
    <3>2. sock[fd] = o[1]
      BY <1>3, <2>1, <3>1
    <3>3. QED
      BY <2>1, <3>1, <3>2 DEF OrderInv, HeldInOrder
  <2>2. QED
    BY <1>1, <2>1 DEF HeldInOrder
<1>8. ToldBeforeHeld'
  <2>1. ASSUME NEW o \in Origins, NEW q \in Origins, NEW fd \in Fds, Resources(o, q),
               sock'[fd] = o[1], NEW i, NEW s, NEW j, Told(o, o[1], i)', Held(q, s, fd, j)'
        PROVE  o[2] < q[2]
    <3>0. \E a : Held(q, s, fd, a)
      BY <1>2, <2>1
    <3>1. sock[fd] = o[1] /\ o[1] = q[1] /\ o[1] \in Clients /\ Resource(q)
      BY <1>3, <2>1, <3>0, OriginType DEF Resources
    <3>2. CASE Told(o, o[1], i)
      BY <2>1, <3>0, <3>1, <3>2 DEF OrderInv, ToldBeforeHeld
    <3>3. CASE Held(o, Srv, Fd, 1) /\ o[1] = sock[Fd]
      <4>1. fd = Fd
        BY <3>1, <3>3, NoneIsNoObject DEF SocketInv, SocketsDistinct, Held
      <4>2. s = Srv
        <5>1. s = Home[q[1]]
          BY <3>0, <3>1 DEF OrderInv, HeldAtHome
        <5>2. Srv = Home[o[1]]
          BY <2>1, <3>1, <3>3, <4>1 DEF OrderInv, HeldAtHome, Resources
        <5>3. QED
          BY <3>1, <5>1, <5>2
      <4>3. Held(q, Srv, Fd, j + 1) /\ 1 < j + 1
        BY <1>2, <2>1, <4>1, <4>2
      <4>4. QED
        BY <2>1, <3>1, <3>3, <4>1, <4>3 DEF OrderInv, HeldInOrder
    <3>4. QED
      BY <1>2, <2>1, <3>2, <3>3
  <2>2. QED
    BY <1>1, <2>1 DEF ToldBeforeHeld
<1>9. QED
  BY <1>5, <1>6, <1>7, <1>8 DEF OrderInv

LEMMA OrderServerStep ==
    ASSUME IInv, SocketInv, LoopInv, StreamInv, UsedInv, AnswerInv, OrderInv, Server, up' = "up"
    PROVE  OrderInv'
<1>1. UNCHANGED sent
  BY ServerCases DEF clientVars
<1>2. \A o \in Origins : (Resource(o)' <=> Resource(o)) /\ (Resource(o) => ~Waiting(o))
  <2>1. \A o \in Origins : Waiting(o) => sent[o[1]][o[2]] = "cgi"
    BY DEF UsedInv, Used
  <2>2. QED
    BY <1>1, <2>1 DEF Resource
<1>3. \A o \in Origins, fd \in Fds : Used(o) /\ sock'[fd] = o[1] => sock[fd] = o[1]
  <2>1. \A o \in Origins : o[1] # None
    BY OriginType, NoneIsNoObject
  <2>2. QED
    BY <2>1, SocketCases DEF UsedInv
<1>4. ASSUME \A o \in Origins : Resource(o) =>
                /\ \A c, i : Told(o, c, i)' => Told(o, c, i)
                /\ \A s, f, j : Held(o, s, f, j)' => Held(o, s, f, j)
      PROVE  OrderInv'
  BY <1>2, <1>3, <1>4, OrderRests
<1>5. NoneTold /\ NoneHeld => OrderInv'
  BY <1>4 DEF NoneTold, NoneHeld
<1>6. Rests \/ Gathers => OrderInv'
  BY <1>5 DEF Rests, Gathers
<1>7. Completes => OrderInv'
  BY <1>2, <1>4 DEF Completes, NoneTold, Waiting
<1>8. HandsOut => OrderInv'
  BY <1>1, <1>3, OrderHandsOut
<1>9. ASSUME NEW k \in Nat, NEW fd \in Fds, NEW p \in Origins, Handles(k, fd, p)
      PROVE  OrderInv'
  <2>1. Cut(k, fd, p) /\ Coming(p[1], Appended(k).buf[1]) /\ p[1] = sock[fd]
    BY <1>9, CutFacts DEF Handles
  <2>2. Queues(p) => OrderInv'
    BY <1>1, <1>3, <2>1, OrderQueues
  <2>3. Starts(p) => OrderInv'
    BY <1>5 DEF Starts
  <2>4. QED
    BY <1>6, <1>9, <2>2, <2>3 DEF Handles
<1>10. QED
  BY <1>6, <1>7, <1>8, <1>9, PlaceCases

LEMMA OrderEnvStep ==
    ASSUME IInv, UsedInv, OrderInv, Environment
    PROVE  OrderInv'
<1>1. UNCHANGED sock /\ NoneTold /\ NoneHeld
  BY EnvCases, EnvRests DEF Rests
<1>2. ASSUME NEW o \in Origins, Used(o)
      PROVE  sent'[o[1]][o[2]] = sent[o[1]][o[2]]
  <2>1. o[2] \in 1..Len(sent[o[1]]) /\ o[1] \in Clients
    BY <1>2, OriginType DEF UsedInv
  <2>2. ASSUME NEW c \in Clients, Sent(c)
        PROVE  \A d \in Clients : \A n \in 1..Len(sent[d]) : sent'[d][n] = sent[d][n]
    BY <2>2, SentFacts DEF Announces
  <2>3. \A c : Connect(c) \/ Leave(c) \/ Reset(c) => UNCHANGED sent
    BY DEF Connect, Leave, Reset, clientVars
  <2>4. \A p \in Origins : Runs(p) => UNCHANGED sent
    BY DEF Runs, clientVars
  <2>5. QED
    BY <2>1, <2>2, <2>3, <2>4, EnvCases DEF clientVars
<1>3. \A o \in Origins : Resource(o)' /\ Used(o) => Resource(o)
  BY <1>2 DEF Resource
<1>4. QED
  BY <1>1, <1>3, OrderRests DEF NoneTold, NoneHeld

-----------------------------------------------------------------------------
(* The theorems. *)

\* Once the process has ended, only what was handed out matters.
DeliveryInv ==
    /\ ToldOnce /\ ToldInOrder
    /\ up = "up" => StreamInv /\ UsedInv /\ AnswerInv /\ OrderInv

LEMMA DeliveryEnds ==
    ASSUME IInv, Server, up' # "up"
    PROVE  UNCHANGED got /\ UNCHANGED sent
<1>1. up = "up" /\ UNCHANGED clientVars
  BY ServerCases
<1>2. ~LetsGo
  BY <1>1 DEF LetsGo
<1>3. ~Poll /\ \A s, fd : ~TimesOut(s, fd)
  BY <1>1 DEF Poll, TimesOut
<1>4. Finishes => UNCHANGED got
  BY DEF Finishes
<1>5. Ends => UNCHANGED got
  BY DEF Ends
<1>6. QED
  BY <1>1, <1>2, <1>3, <1>4, <1>5, ServerCases
     DEF Passes, Reads, Dispatches, Cuts, Drops, Answers, Collects, clientVars

LEMMA DeliveryInit == IInv /\ Init => DeliveryInv
<1> SUFFICES ASSUME IInv, Init PROVE DeliveryInv
  OBVIOUS
<1>1. /\ \A c \in Clients : got[c] = <<>> /\ inbuf[c] = <<>>
      /\ \A s \in Servers, fd \in Fds : conn[s][fd] = None
      /\ \A fd \in Fds : sock[fd] = None /\ pipe[fd] = None
  BY DEF Init
<1>2. \A o \in Origins : ~Used(o)
  BY <1>1, NoneIsNoObject DEF Used, Waiting, Told, Held, Kept, Piped, QueueOf, OutputOf
<1>3. \A c \in Clients : \A g : ~Coming(c, g)
  BY <1>1, NoneIsNoObject DEF Coming, Among
<1>4. StreamInv
  BY <1>1, <1>3 DEF StreamInv, Ordered
<1>5. UsedInv /\ AnswerInv
  BY <1>2 DEF UsedInv, AnswerInv, Used, Waiting, ToldOnce, HeldOnce, KeptOnce, PipedOnce,
              ToldApart, HeldApart, Linked
<1>6. OrderInv
  BY <1>2 DEF Used, OrderInv, ToldInOrder, HeldAtHome, HeldInOrder, ToldBeforeHeld
<1>7. QED
  BY <1>4, <1>5, <1>6 DEF DeliveryInv, AnswerInv, OrderInv

LEMMA DeliveryStep ==
    IInv /\ SocketInv /\ LoopInv /\ DeliveryInv /\ [Next]_vars => DeliveryInv'
<1> SUFFICES ASSUME IInv, SocketInv, LoopInv, DeliveryInv, [Next]_vars PROVE DeliveryInv'
  OBVIOUS
<1>1. CASE Server
  <2>1. up = "up"
    BY <1>1, ServerCases
  <2>2. CASE up' = "up"
    BY <1>1, <2>1, <2>2, StreamServerStep, AnswerServerStep, OrderServerStep
       DEF DeliveryInv, AnswerInv, OrderInv
  <2>3. CASE up' # "up"
    BY <1>1, <2>3, DeliveryEnds
       DEF DeliveryInv, ToldOnce, ToldInOrder, Resources, Resource, Told
  <2>4. QED
    BY <2>2, <2>3
<1>2. CASE Environment
  <2>1. up = "up" /\ up' = "up"
    BY <1>2, EnvCases
  <2>2. QED
    BY <1>2, <2>1, AnswerEnvStep, OrderEnvStep DEF DeliveryInv, AnswerInv, OrderInv
<1>3. CASE UNCHANGED vars
  <2>1. UNCHANGED <<conn, sock, pipe, peer, backlog, inbuf, sent, half, got, up, kq>>
    BY <1>3 DEF vars
  <2>2. StreamInv => StreamInv'
    BY <2>1 DEF StreamInv, Coming, WellSent, Whole, Buffer
  <2>3. /\ \A o : Used(o)' <=> Used(o)
        /\ \A o : Waiting(o)' <=> Waiting(o)
        /\ \A c : Waits(c)' <=> Waits(c)
        /\ \A c, g : Coming(c, g)' <=> Coming(c, g)
        /\ \A c : Whole(c)' = Whole(c)
    BY <2>1 DEF Used, Waiting, Told, Held, Kept, Piped, Waits, Coming, Whole, Buffer
  <2>4. UsedInv => UsedInv'
    BY <2>1, <2>3 DEF UsedInv
  <2>5. Rests /\ KeptPipes(kq')
    BY <2>1 DEF Rests, NoneTold, NoneHeld, NoneKept, NonePiped, Told, Held, Kept, Piped,
                KeptPipes, EventOf, SameKnote
  <2>6. AnswerInv => AnswerInv'
    BY <2>5, RestsMove
  <2>7. (OrderInv => OrderInv') /\ (ToldOnce => ToldOnce') /\ (ToldInOrder => ToldInOrder')
    BY <2>1 DEF OrderInv, ToldInOrder, HeldAtHome, HeldInOrder, ToldBeforeHeld, Resources, Resource,
                Told, Held, ToldOnce
  <2>8. QED
    BY <2>1, <2>2, <2>4, <2>6, <2>7 DEF DeliveryInv
<1>4. QED
  BY <1>1, <1>2, <1>3 DEF Next, Environment

LEMMA DeliveryInvariance == Spec => [](IInv /\ DeliveryInv)
<1>1. Init => IInv /\ DeliveryInv
  BY InitInv, DeliveryInit
<1>2. QED
  BY <1>1, LoopInit, LoopStep, DeliveryStep, SocketInvariance, PTL DEF Spec

\* The output of a CGI program and the content of a static resource are handed out at
\* most once, for any number of clients, servers and descriptors: each of the moves from
\* pipe to buffer, from buffer to queue and from queue to socket takes the answer away
\* from where it was, whatever connection the numbers of pipe and socket have come to
\* mean meanwhile (Connection.cpp:90-127, Responses.cpp:21-37, Server.cpp:98-141).
THEOREM AnswersOnce == Spec => []AnsweredOnce
<1>1. ASSUME IInv, DeliveryInv, NEW o \in Origins
      PROVE  Cardinality(Deliveries(o)) <= 1
  <2> DEFINE D == Deliveries(o)
  <2>1. \A d \in D : Told(o, d[1], d[2]) /\ d = <<d[1], d[2]>>
    BY <1>1 DEF Deliveries, Told, IInv, TableInv
  <2>2. \A d, e \in D : d = e
    BY <1>1, <2>1 DEF DeliveryInv, ToldOnce
  <2>3. D = {} \/ \E d : D = {d}
    BY <2>2
  <2> HIDE DEF D
  <2>4. Cardinality(D) <= 1
    <3>1. CASE D = {}
      BY <3>1, FS_EmptySet
    <3>2. CASE \E d : D = {d}
      <4>1. PICK d : D = {d}
        BY <3>2
      <4>2. Cardinality({d}) = 1
        BY FS_Singleton
      <4>3. QED
        BY <4>1, <4>2
    <3>3. QED
      BY <2>3, <3>1, <3>2
  <2>5. QED
    BY <2>4 DEF D
<1>2. IInv /\ DeliveryInv => AnsweredOnce
  BY <1>1 DEF AnsweredOnce
<1>3. QED
  BY <1>2, DeliveryInvariance, PTL

\* Static resources reach a client in the order in which it asked for them, however it
\* splits and joins its requests and whatever runs for it in between (Server.cpp:56-62,
\* Responses.cpp:13-25).
THEOREM ResourcesInOrder == Spec => []StaticInOrder
<1>1. ASSUME IInv, DeliveryInv,
             NEW c \in Clients, NEW i \in DOMAIN got[c], NEW j \in DOMAIN got[c],
             NEW m \in DOMAIN sent[c], NEW n \in DOMAIN sent[c],
             i < j, sent[c][m] = "static", sent[c][n] = "static",
             got[c][i] = [code |-> 200, of |-> {<<c, m>>}],
             got[c][j] = [code |-> 200, of |-> {<<c, n>>}]
      PROVE  m < n
  <2>1. <<c, m>> \in Origins /\ <<c, n>> \in Origins
    <3>1. sent[c] \in Seq(Kinds) /\ Len(sent[c]) <= MaxReq
      BY <1>1 DEF IInv, EnvInv, SentBounded
    <3>2. m \in 1..MaxReq /\ n \in 1..MaxReq
      BY <1>1, <3>1, WebserverAssumption
    <3>3. QED
      BY <3>2 DEF Origins
  <2>2. PICK o \in Origins : o = <<c, m>>
    BY <2>1
  <2>3. PICK p \in Origins : p = <<c, n>>
    BY <2>1
  <2>4. Told(o, o[1], i) /\ Told(p, p[1], j) /\ Resources(o, p)
    BY <1>1, <2>2, <2>3 DEF Told, Resources, Resource
  <2>5. o[2] < p[2]
    BY <1>1, <2>4 DEF DeliveryInv, ToldInOrder
  <2>6. QED
    BY <2>2, <2>3, <2>5
<1>2. IInv /\ DeliveryInv => StaticInOrder
  BY <1>1 DEF StaticInOrder
<1>3. QED
  BY <1>2, DeliveryInvariance, PTL
=============================================================================
