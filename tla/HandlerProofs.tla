-------------------------------- MODULE HandlerProofs --------------------------------
(***************************************************************************)
(* What each handler of the event loop does to the entries of connections_,*)
(* to the descriptors and to what clients receive: the facts on which the  *)
(* proofs about connections and about deliveries rest.                     *)
(*                                                                         *)
(* An entry is looked at through BufOf, QueueOf and OutputOf, for which a  *)
(* missing entry is an empty one: a Connection that is created or removed  *)
(* then changes only what it holds.                                        *)
(***************************************************************************)
EXTENDS WebserverProofs

BufOf(e)    == IF e = None THEN <<>> ELSE e.buf
QueueOf(e)  == IF e = None THEN <<>> ELSE e.queue
OutputOf(e) == IF e = None THEN [g \in Fds |-> {}] ELSE e.cgi

\* Two entries that differ at most in their age.
SameEntry(a, b) ==
    /\ a = None <=> b = None
    /\ BufOf(a) = BufOf(b) /\ QueueOf(a) = QueueOf(b) /\ OutputOf(a) = OutputOf(b)

Entries == Connection \cup {None}

\* The table keeps every entry, or every one but one.
SameTable(a, b) == \A s \in Servers, fd \in Fds : SameEntry(a[s][fd], b[s][fd])

SameTableBut(a, b, s, fd) ==
    \A t \in Servers, g \in Fds : <<t, g>> # <<s, fd>> => SameEntry(a[t][g], b[t][g])

-----------------------------------------------------------------------------
(* Entries. *)

LEMMA EntryTypes ==
    ASSUME NEW e \in Entries
    PROVE  /\ BufOf(e) \in Seq(Segments) /\ QueueOf(e) \in Seq(Response)
           /\ OutputOf(e) \in [Fds -> SUBSET Origins]
           /\ SameEntry(e, e)
<1>1. CASE e = None
  BY <1>1 DEF BufOf, QueueOf, OutputOf, SameEntry
<1>2. CASE e # None
  <2>1. e \in Connection
    BY <1>2 DEF Entries
  <2>2. QED
    BY <1>2, <2>1 DEF BufOf, QueueOf, OutputOf, SameEntry, Connection
<1>3. QED
  BY <1>1, <1>2

\* The entry of a client that has just been accepted is an empty one.
LEMMA FreshEntry ==
    /\ NewConnection \in Connection /\ NewConnection # None
    /\ BufOf(NewConnection) = BufOf(None) /\ QueueOf(NewConnection) = QueueOf(None)
    /\ OutputOf(NewConnection) = OutputOf(None)
<1>1. NewConnection \in Connection /\ NewConnection # None
  BY FreshType, MemberTypes
<1>2. QED
  BY <1>1 DEF NewConnection, BufOf, QueueOf, OutputOf

LEMMA PutEntry ==
    ASSUME NEW cn \in Tables, NEW s \in Servers, NEW fd \in Fds, NEW e \in Entries
    PROVE  /\ Put(cn, s, fd, e) \in Tables
           /\ Put(cn, s, fd, e)[s][fd] = e
           /\ SameTableBut(cn, Put(cn, s, fd, e), s, fd)
<1>1. Put(cn, s, fd, e) \in Tables /\ Put(cn, s, fd, e)[s][fd] = e
  BY PutType DEF Put, Tables, Entries
<1>2. ASSUME NEW t \in Servers, NEW g \in Fds, <<t, g>> # <<s, fd>>
      PROVE  SameEntry(cn[t][g], Put(cn, s, fd, e)[t][g])
  <2>1. Put(cn, s, fd, e)[t][g] = cn[t][g]
    BY <1>2 DEF Put, Tables
  <2>2. QED
    BY <2>1 DEF SameEntry
<1>3. QED
  BY <1>1, <1>2 DEF SameTableBut

\* Only the age of an entry depends on when it was used last.
LEMMA TouchedEntries ==
    ASSUME conn \in Tables, NEW s \in Servers, NEW fd \in Fds
    PROVE  /\ updateLastActiveTime(s, fd) \in Tables
           /\ SameTable(conn, updateLastActiveTime(s, fd))
<1>1. CASE conn[s][fd] = None
  BY <1>1, EntryTypes DEF updateLastActiveTime, SameTable, Tables, Entries
<1>2. CASE conn[s][fd] # None
  <2> DEFINE e == conn[s][fd]
             f == [e EXCEPT !.age = 0]
  <2>0. e \in Connection
    BY <1>2 DEF Tables
  <2>1. e \in Connection /\ f \in Connection /\ e # None /\ f # None
    BY <2>0, MemberTypes
  <2>2. f.buf = e.buf /\ f.queue = e.queue /\ f.cgi = e.cgi
    BY <2>1 DEF Connection
  <2>3. \A t \in Servers, g \in Fds :
           updateLastActiveTime(s, fd)[t][g] = IF t = s /\ g = fd THEN f ELSE conn[t][g]
    BY <1>2 DEF updateLastActiveTime, Tables
  <2>4. SameEntry(e, f)
    BY <2>1, <2>2 DEF SameEntry, BufOf, QueueOf, OutputOf
  <2> HIDE DEF f
  <2>5. \A t \in Servers, g \in Fds : SameEntry(conn[t][g], conn[t][g])
    BY EntryTypes DEF Tables, Entries
  <2>6. SameTable(conn, updateLastActiveTime(s, fd))
    BY <2>3, <2>4, <2>5 DEF SameTable
  <2>7. QED
    BY <2>6, TouchType
<1>3. QED
  BY <1>1, <1>2

\* Sameness is passed on.
LEMMA SameChain ==
    ASSUME NEW a, NEW b, NEW c, NEW s \in Servers, NEW fd \in Fds, SameTable(a, b)
    PROVE  /\ SameTable(b, c) => SameTable(a, c)
           /\ SameTableBut(b, c, s, fd) => SameTableBut(a, c, s, fd)
           /\ SameTableBut(a, b, s, fd)
BY DEF SameTable, SameTableBut, SameEntry

-----------------------------------------------------------------------------
(* What a handler receives. *)

\* recv takes the first segments that have arrived and appends them to the buffer.
LEMMA RecvEntry ==
    ASSUME IInv, NEW k, recv(k)
    PROVE  LET c == sock[Fd]
               e == conn[Srv][Fd]
               a == Appended(k)
           IN  /\ kq.polled # None /\ kq.polled.info.type = REQUEST
               /\ up = "up" /\ pc = "process"
               /\ Fd \in Fds /\ Srv \in Servers /\ c \in Clients /\ c # None
               /\ k \in 1..Len(inbuf[c]) /\ inbuf[c] \in Seq(Segments)
               /\ inbuf' = [inbuf EXCEPT ![c] = SubSeq(@, k + 1, Len(@))]
               /\ inbuf' \in [Clients -> Seq(Segments)]
               /\ a \in Connection /\ a # None
               /\ a.buf = BufOf(e) \o SubSeq(inbuf[c], 1, k)
               /\ a.queue = QueueOf(e) /\ a.cgi = OutputOf(e)
               /\ e \in Entries
<1> DEFINE c == sock[Fd]
           e == conn[Srv][Fd]
           a == Appended(k)
           b == SubSeq(inbuf[c], 1, k)
           t == Touched[Srv][Fd]
           n == IF t = None THEN NewConnection ELSE t
<1>1. /\ kq.polled # None /\ kq.polled.info.type = REQUEST /\ up = "up" /\ pc = "process"
      /\ Fd \in Fds /\ Srv \in Servers /\ a \in Connection
      /\ inbuf' \in [Clients -> Seq(Segments)]
  BY RecvFacts DEF recv, Event
<1>2. c \in Clients /\ c # None
  BY <1>1 DEF recv, HasData, IInv, RegistryInv
<1>3. /\ inbuf[c] \in Seq(Segments) /\ k \in 1..Len(inbuf[c])
      /\ inbuf' = [inbuf EXCEPT ![c] = SubSeq(@, k + 1, Len(@))]
  BY <1>2 DEF recv, IInv, EnvInv
<1>4. e \in Entries
  BY <1>1 DEF IInv, TableInv, Tables, Entries
<1>5. SameEntry(e, t) /\ t \in Entries
  BY <1>1, TouchedEntries DEF Touched, IInv, TableInv, SameTable, Tables, Entries
<1> HIDE DEF t, e
<1>6. /\ n \in Connection /\ n # None
      /\ BufOf(n) = BufOf(e) /\ QueueOf(n) = QueueOf(e) /\ OutputOf(n) = OutputOf(e)
  <2>1. CASE t = None
    BY <1>5, <2>1, FreshEntry DEF SameEntry
  <2>2. CASE t # None
    BY <1>5, <2>2 DEF SameEntry, Entries
  <2>3. QED
    BY <2>1, <2>2
<1>7. a = [n EXCEPT !.buf = n.buf \o b]
  BY DEF Appended, t
<1> HIDE DEF n, a, b
<1>8. n.buf = BufOf(e) /\ n.queue = QueueOf(e) /\ n.cgi = OutputOf(e)
  BY <1>6 DEF BufOf, QueueOf, OutputOf
<1>9. a.buf = BufOf(e) \o b /\ a.queue = QueueOf(e) /\ a.cgi = OutputOf(e)
  BY <1>6, <1>7, <1>8 DEF Connection
<1>10. a # None
  BY <1>1, MemberTypes DEF a
<1>11. QED
  BY <1>1, <1>2, <1>3, <1>4, <1>9, <1>10 DEF a, b, e

\* getRequest shortens the buffer and leaves the rest of the entry alone.
LEMMA RestEntry ==
    ASSUME NEW c \in Connection, hasRequest(c.buf)
    PROVE  /\ Rest(c) \in Connection /\ Rest(c) # None
           /\ Rest(c).queue = c.queue /\ Rest(c).cgi = c.cgi
           /\ Rest(c).buf = SubSeq(c.buf, RequestEnd(c.buf) + 1, Len(c.buf))
<1>1. Rest(c) \in Connection /\ Rest(c) # None
  BY RestType, MemberTypes
<1>2. QED
  BY <1>1 DEF Rest, Connection
-----------------------------------------------------------------------------
(* What a pass through the loop does to the kernel, the clients and the loop itself. *)

\* The handler is done with its event.
LetsGo == pc' = "poll" /\ kq'.polled = None /\ UNCHANGED up

\* The process ends; only CgiEof has touched a Connection before.
Ends == up' \in Exits /\ UNCHANGED <<kq, kernelVars, got, pc>>

Closes(fd) ==
    /\ sock' = [sock EXCEPT ![fd] = None]
    /\ pipe' = [pipe EXCEPT ![fd] = None]
    /\ peer' = [c \in Clients |-> IF sock[fd] = c THEN "closed" ELSE peer[c]]

\* A response leaves for the client of a socket.
Sends(fd, r) ==
    /\ "ok" \in send(fd) /\ got' = Delivered(fd, r)
    /\ UNCHANGED kernelVars

Accepts(s, fd) ==
    /\ fd \in Free /\ backlog[s] # <<>> /\ conn[s][fd] = None
    /\ sock' = [sock EXCEPT ![fd] = Head(backlog[s])]
    /\ backlog' = [backlog EXCEPT ![s] = Tail(@)]
    /\ conn' = Put(conn, s, fd, NewConnection)
    /\ UNCHANGED <<pipe, peer, got, inbuf>>

Opens(fd, o) ==
    /\ fd \in Free
    /\ pipe' = [pipe EXCEPT ![fd] = o]
    /\ UNCHANGED <<sock, peer, got>>

\* A client's reset is reported.
Breaks == /\ peer' = [c \in Clients |-> IF sock[Fd] = c THEN "dead" ELSE peer[c]]
          /\ UNCHANGED <<sock, pipe, got>>

\* 408, and the socket is closed; the loop keeps the event it holds.
TimesOut(s, fd) ==
    /\ up = "up" /\ pc = "process" /\ isTimeout(s, fd)
    /\ "ok" \in send(fd)
    /\ got' = Delivered(fd, [code |-> 408, of |-> {}])
    /\ conn' = Put(conn, s, fd, None)
    /\ close(fd, removeEvent(kq, fd, EVFILT_READ))
    /\ UNCHANGED <<pc, up>>

LEMMA DoneLetsGo ==
    ASSUME NEW q, NEW fd
    PROVE  Done(q).polled = None /\ closeFd(Done(q), fd).polled = None
BY DEF Done, closeFd

LEMMA ExitEnds ==
    ASSUME NEW r \in Exits, Exit(r)
    PROVE  Ends /\ UNCHANGED conn
BY DEF Exit, Ends, serverVars, kernelVars

LEMMA HandleErrorEffect ==
    ASSUME NEW cn \in Tables, NEW s \in Servers, NEW fd \in Fds, NEW r, handleError(cn, s, fd, r)
    PROVE  \/ LetsGo /\ Sends(fd, r) /\ conn' = cn
           \/ LetsGo /\ Closes(fd) /\ UNCHANGED got /\ conn' = Put(cn, s, fd, None)
           \/ Ends /\ UNCHANGED conn
<1>1. CASE /\ "ok" \in send(fd)
           /\ got' = Delivered(fd, r) /\ conn' = cn /\ kq' = Done(kq)
           /\ pc' = "poll" /\ UNCHANGED <<kernelVars, up>>
  BY <1>1, DoneLetsGo DEF LetsGo, Sends
<1>2. CASE closeConnection(cn, s, fd) /\ pc' = "poll" /\ UNCHANGED <<got, up>>
  BY <1>2, DoneLetsGo DEF LetsGo, Closes, closeConnection, close, removeConnection
<1>3. CASE Exit("SIGPIPE")
  BY <1>3, ExitEnds DEF Exits
<1>4. QED
  BY <1>1, <1>2, <1>3 DEF handleError
-----------------------------------------------------------------------------
(* Every pass through the loop is one of the following. *)

\* The entry of fd in server s holds this now, and no other entry changes what it holds.
Becomes(s, fd, buf, queue, cgi) ==
    /\ conn'[s][fd] # None
    /\ BufOf(conn'[s][fd]) = buf /\ QueueOf(conn'[s][fd]) = queue /\ OutputOf(conn'[s][fd]) = cgi
    /\ SameTableBut(conn, conn', s, fd)

Removed(s, fd) == conn'[s][fd] = None /\ SameTableBut(conn, conn', s, fd)

Entry == conn[Srv][Fd]

\* The response to an error is neither a resource nor a program's output.
Refuses(fd) == \E r \in Response : r.code \notin {200, 408} /\ Sends(fd, r)

\* A pass that neither takes anything in nor hands anything out.
Passes == /\ SameTable(conn, conn')
          /\ UNCHANGED <<backlog, inbuf, sock, pipe>>
          /\ \/ Poll
             \/ LetsGo /\ UNCHANGED <<peer, got>>
             \/ LetsGo /\ Event(REQUEST) /\ Breaks
             \/ LetsGo /\ Fd \in Fds /\ Refuses(Fd)

Reads(k) ==
    /\ LetsGo /\ recv(k) /\ UNCHANGED <<backlog, kernelVars>>
    /\ hasRequest(Appended(k).buf) => TooLarge(Appended(k).buf)
    /\ Becomes(Srv, Fd, Appended(k).buf, QueueOf(Entry), OutputOf(Entry))
    /\ UNCHANGED got \/ Refuses(Fd)

\* One request is cut off the buffer and handled.
RestOf(buf) == SubSeq(buf, RequestEnd(buf) + 1, Len(buf))
Cuts(k, queue) ==
    /\ LetsGo /\ recv(k) /\ UNCHANGED backlog
    /\ hasRequest(Appended(k).buf)
    /\ Becomes(Srv, Fd, RestOf(Appended(k).buf), queue, OutputOf(Entry))

Served(o) == [code |-> 200, of |-> {o}]

Dispatches(k) ==
    LET o == Appended(k).buf[1].req IN
    \/ /\ Cuts(k, Append(QueueOf(Entry), Served(o))) /\ Appended(k).buf[1].kind = "static"
       /\ UNCHANGED <<kernelVars, got>>
    \/ Cuts(k, QueueOf(Entry)) /\ Refuses(Fd)
    \/ /\ Cuts(k, QueueOf(Entry)) /\ Appended(k).buf[1].kind = "cgi"
       /\ \E fd \in Fds : /\ Opens(fd, o)
                          /\ kq' = Done(addEvent(kq, TRUE, fd, CGI_RESPONSE, Srv, Fd))

Drops(s, fd) ==
    /\ LetsGo /\ Closes(fd) /\ Removed(s, fd) /\ UNCHANGED <<backlog, got>>
    /\ UNCHANGED inbuf \/ \E k \in Nat : recv(k)

Answers ==
    /\ LetsGo /\ Event(RESPONSE) /\ HasResponse
    /\ Sends(Fd, Head(QueueOf(Entry)))
    /\ Becomes(Srv, Fd, BufOf(Entry), Tail(QueueOf(Entry)), OutputOf(Entry))
    /\ UNCHANGED <<backlog, inbuf>>

Owner == conn[Srv][CgiTo]

\* What a program wrote goes to the buffer of its pipe in the client's entry.
Collects ==
    /\ LetsGo /\ Event(CGI_RESPONSE) /\ pipe[Fd] # None
    /\ \/ SameTable(conn, conn')
       \/ /\ Owner # None
          /\ Becomes(Srv, CgiTo, BufOf(Owner), QueueOf(Owner),
                     [OutputOf(Owner) EXCEPT ![Fd] = @ \cup {pipe[Fd]}])
    /\ UNCHANGED <<backlog, inbuf, kernelVars, got>>

Finishes ==
    /\ Event(CGI_RESPONSE)
    /\ \/ Owner = None /\ SameTable(conn, conn')
       \/ /\ Owner # None
          /\ Becomes(Srv, CgiTo, BufOf(Owner),
                     IF OutputOf(Owner)[Fd] = {} THEN QueueOf(Owner)
                     ELSE Append(QueueOf(Owner), [code |-> 200, of |-> OutputOf(Owner)[Fd]]),
                     [OutputOf(Owner) EXCEPT ![Fd] = {}])
    /\ UNCHANGED <<backlog, inbuf, got>>
    /\ \/ LetsGo /\ Closes(Fd)
       \/ Ends /\ kq.knote[<<Fd, EVFILT_READ>>] = None
\* An entry that is put into the table holds what it holds.
LEMMA PutBecomes ==
    ASSUME conn \in Tables, NEW s \in Servers, NEW fd \in Fds, NEW e \in Connection,
           conn' = Put(conn, s, fd, e)
    PROVE  Becomes(s, fd, e.buf, e.queue, e.cgi)
<1>1. e # None
  BY MemberTypes
<1>2. conn'[s][fd] = e /\ SameTableBut(conn, conn', s, fd)
  BY PutEntry DEF Entries
<1>3. QED
  BY <1>1, <1>2 DEF Becomes, BufOf, QueueOf, OutputOf

LEMMA PutRemoves ==
    ASSUME conn \in Tables, NEW cn \in Tables, NEW s \in Servers, NEW fd \in Fds,
           SameTableBut(conn, cn, s, fd), conn' = Put(cn, s, fd, None)
    PROVE  Removed(s, fd)
<1>1. conn'[s][fd] = None /\ SameTableBut(cn, conn', s, fd)
  BY PutEntry DEF Entries
<1>2. SameTableBut(conn, conn', s, fd)
  BY <1>1 DEF SameTableBut, SameEntry
<1>3. QED
  BY <1>1, <1>2 DEF Removed

\* A request is refused: with its entry changed to e, or with the entry gone.
LEMMA RefusalCase ==
    ASSUME IInv, NEW k, recv(k), UNCHANGED backlog, NEW e \in Connection,
           NEW r \in Response, r.code \notin {200, 408},
           handleError(Put(conn, Srv, Fd, e), Srv, Fd, r)
    PROVE  \/ LetsGo /\ Refuses(Fd) /\ Becomes(Srv, Fd, e.buf, e.queue, e.cgi)
           \/ Drops(Srv, Fd)
           \/ Ends /\ UNCHANGED conn
<1> DEFINE cn == Put(conn, Srv, Fd, e)
<1>1. Fd \in Fds /\ Srv \in Servers /\ conn \in Tables /\ k \in Nat
  <2>1. k \in 1..Len(inbuf[sock[Fd]]) /\ inbuf[sock[Fd]] \in Seq(Segments)
    BY RecvEntry
  <2>2. QED
    BY <2>1, RecvEntry DEF IInv, TableInv
<1>2. cn \in Tables /\ SameTableBut(conn, cn, Srv, Fd)
  BY <1>1, PutEntry DEF Entries
<1>3. CASE LetsGo /\ Sends(Fd, r) /\ conn' = cn
  BY <1>1, <1>3, PutBecomes DEF Refuses
<1> HIDE DEF cn
<1>4. CASE LetsGo /\ Closes(Fd) /\ UNCHANGED got /\ conn' = Put(cn, Srv, Fd, None)
  <2>1. Removed(Srv, Fd)
    BY <1>1, <1>2, <1>4, PutRemoves
  <2>2. QED
    BY <1>1, <1>4, <2>1 DEF Drops
<1>5. QED
  BY <1>1, <1>2, <1>3, <1>4, HandleErrorEffect DEF cn

LEMMA RequestTooLargeCase ==
    ASSUME IInv, NEW k, RequestTooLarge(k)
    PROVE  Reads(k) \/ Drops(Srv, Fd) \/ (Ends /\ UNCHANGED conn)
<1> DEFINE a == Appended(k)
           r == [code |-> 413, of |-> {a.buf[1].req}]
<1>1. /\ recv(k) /\ UNCHANGED backlog
      /\ handleError(Put(conn, Srv, Fd, a), Srv, Fd, r) /\ TooLarge(a.buf)
  BY DEF RequestTooLarge
<1>2. a \in Connection /\ a.queue = QueueOf(Entry) /\ a.cgi = OutputOf(Entry)
  BY <1>1, RecvEntry DEF Entry
<1>3. r \in Response /\ r.code \notin {200, 408}
  BY <1>1, RecvFacts DEF Response
<1> HIDE DEF r
<1>4. \/ LetsGo /\ Refuses(Fd) /\ Becomes(Srv, Fd, a.buf, a.queue, a.cgi)
      \/ Drops(Srv, Fd)
      \/ Ends /\ UNCHANGED conn
  BY <1>1, <1>2, <1>3, RefusalCase
<1>5. Refuses(Fd) => UNCHANGED kernelVars
  BY DEF Refuses, Sends
<1>6. QED
  BY <1>1, <1>2, <1>4, <1>5 DEF Reads

LEMMA RequestIncompleteCase ==
    ASSUME IInv, NEW k, RequestIncomplete(k)
    PROVE  Reads(k)
<1> DEFINE a == Appended(k)
<1>1. /\ recv(k) /\ conn' = Put(conn, Srv, Fd, a)
      /\ LetsGo /\ UNCHANGED <<backlog, kernelVars, got>> /\ ~hasRequest(a.buf)
  BY DoneLetsGo DEF RequestIncomplete, LetsGo
<1>2. /\ Fd \in Fds /\ Srv \in Servers /\ conn \in Tables
      /\ a \in Connection /\ a.queue = QueueOf(Entry) /\ a.cgi = OutputOf(Entry)
  BY <1>1, RecvEntry DEF Entry, IInv, TableInv
<1>3. Becomes(Srv, Fd, a.buf, a.queue, a.cgi)
  BY <1>1, <1>2, PutBecomes
<1>4. QED
  BY <1>1, <1>2, <1>3 DEF Reads

LEMMA RequestStaticCase ==
    ASSUME IInv, NEW k, RequestStatic(k)
    PROVE  Dispatches(k)
<1> DEFINE a == Appended(k)
           o == a.buf[1].req
           e == [Rest(a) EXCEPT !.queue = Append(@, Served(o))]
<1>1. /\ recv(k) /\ hasRequest(a.buf) /\ a.buf[1].kind = "static"
      /\ conn' = Put(conn, Srv, Fd, e)
      /\ LetsGo /\ UNCHANGED <<backlog, kernelVars, got>>
  BY DoneLetsGo DEF RequestStatic, Takes, LetsGo, Served
<1>2. /\ Fd \in Fds /\ Srv \in Servers /\ conn \in Tables /\ o \in Origins
      /\ a \in Connection /\ a.queue = QueueOf(Entry) /\ a.cgi = OutputOf(Entry)
  BY <1>1, RecvEntry, RecvFacts DEF Entry, IInv, TableInv
<1>3. /\ Rest(a) \in Connection /\ Rest(a).queue = a.queue /\ Rest(a).cgi = a.cgi
      /\ Rest(a).buf = RestOf(a.buf)
  BY <1>1, <1>2, RestEntry DEF RestOf
<1>4. Append(a.queue, Served(o)) \in Seq(Response)
  BY <1>2 DEF Connection, Served, Response
<1> HIDE DEF a, o
<1>5. /\ e \in Connection /\ e.buf = RestOf(a.buf) /\ e.cgi = OutputOf(Entry)
      /\ e.queue = Append(QueueOf(Entry), Served(o))
  <2>1. e = [Rest(a) EXCEPT !.queue = Append(a.queue, Served(o))]
    BY <1>3
  <2>2. e \in Connection
    BY <1>3, <1>4, <2>1, MemberTypes
  <2>3. QED
    BY <1>2, <1>3, <2>1, <2>2 DEF Connection
<1> HIDE DEF e
<1>6. Becomes(Srv, Fd, e.buf, e.queue, e.cgi)
  BY <1>1, <1>2, <1>5, PutBecomes
<1>7. QED
  BY <1>1, <1>5, <1>6 DEF Dispatches, Cuts, a, o

LEMMA RequestRejectedCase ==
    ASSUME IInv, NEW k, RequestRejected(k)
    PROVE  Dispatches(k) \/ Drops(Srv, Fd) \/ (Ends /\ UNCHANGED conn)
<1> DEFINE a == Appended(k)
           e == Rest(a)
           r == [code |-> 404, of |-> {a.buf[1].req}]
<1>1. /\ recv(k) /\ hasRequest(a.buf) /\ UNCHANGED backlog
      /\ handleError(Put(conn, Srv, Fd, e), Srv, Fd, r)
  BY DEF RequestRejected, Takes
<1>2. a \in Connection /\ a.queue = QueueOf(Entry) /\ a.cgi = OutputOf(Entry)
  BY <1>1, RecvEntry DEF Entry
<1>3. e \in Connection /\ e.queue = a.queue /\ e.cgi = a.cgi /\ e.buf = RestOf(a.buf)
  BY <1>1, <1>2, RestEntry DEF RestOf
<1>4. r \in Response /\ r.code \notin {200, 408}
  BY <1>1, RecvFacts DEF Response
<1> HIDE DEF r, e
<1>5. \/ LetsGo /\ Refuses(Fd) /\ Becomes(Srv, Fd, e.buf, e.queue, e.cgi)
      \/ Drops(Srv, Fd)
      \/ Ends /\ UNCHANGED conn
  BY <1>1, <1>3, <1>4, RefusalCase
<1>6. QED
  BY <1>1, <1>2, <1>3, <1>5 DEF Dispatches, Cuts

LEMMA RequestCgiCase ==
    ASSUME IInv, NEW k, RequestCgi(k)
    PROVE  Dispatches(k) \/ (Ends /\ UNCHANGED conn)
<1> DEFINE a == Appended(k)
           e == Rest(a)
           o == a.buf[1].req
<1>1. recv(k) /\ hasRequest(a.buf) /\ UNCHANGED backlog /\ a.buf[1].kind = "cgi"
  BY DEF RequestCgi, Takes
<1>2. /\ Fd \in Fds /\ Srv \in Servers /\ conn \in Tables
      /\ a \in Connection /\ a.queue = QueueOf(Entry) /\ a.cgi = OutputOf(Entry)
  BY <1>1, RecvEntry DEF Entry, IInv, TableInv
<1>3. e \in Connection /\ e.queue = a.queue /\ e.cgi = a.cgi /\ e.buf = RestOf(a.buf)
  BY <1>1, <1>2, RestEntry DEF RestOf
<1>4. ASSUME NEW fd \in Fds, Nth(fd, 2),
             pipe' = [pipe EXCEPT ![fd] = o],
             conn' = Put(conn, Srv, Fd, e),
             kq' = Done(addEvent(kq, TRUE, fd, CGI_RESPONSE, Srv, Fd)),
             pc' = "poll",
             UNCHANGED <<sock, peer, got, up>>
      PROVE  Dispatches(k)
  <2>1. Opens(fd, o) /\ LetsGo
    BY <1>4, DoneLetsGo DEF Opens, LetsGo, Nth
  <2>2. Becomes(Srv, Fd, e.buf, e.queue, e.cgi)
    BY <1>2, <1>3, <1>4, PutBecomes
  <2>3. Cuts(k, QueueOf(Entry))
    BY <1>1, <1>2, <1>3, <2>1, <2>2 DEF Cuts
  <2>4. QED
    BY <1>1, <1>4, <2>1, <2>3 DEF Dispatches
<1>5. CASE Exit("pipe")
  BY <1>5, ExitEnds DEF Exits
<1>6. QED
  BY <1>4, <1>5 DEF RequestCgi

LEMMA RequestEofCase ==
    ASSUME IInv, RequestEof
    PROVE  Drops(Srv, Fd)
<1>1. /\ close(Fd, Done(kq)) /\ conn' = Put(conn, Srv, Fd, None)
      /\ pc' = "poll" /\ UNCHANGED <<backlog, inbuf, got, up>>
  BY DEF RequestEof, closeConnection, removeConnection
<1>2. Fd \in Fds /\ Srv \in Servers /\ conn \in Tables
  BY EventFacts, EventTypes DEF RequestEof, Event, IInv, TableInv
<1>3. SameTableBut(conn, conn, Srv, Fd)
  BY EntryTypes, <1>2 DEF SameTableBut, Tables, Entries
<1>4. Removed(Srv, Fd)
  BY <1>1, <1>2, <1>3, PutRemoves
<1>5. QED
  BY <1>1, <1>4, DoneLetsGo DEF Drops, LetsGo, Closes, close

LEMMA RequestErrorCase ==
    ASSUME IInv, RequestError
    PROVE  Passes
<1>1. Fd \in Fds /\ Srv \in Servers /\ conn \in Tables
  BY EventFacts, EventTypes DEF RequestError, Event, IInv, TableInv
<1>2. SameTable(conn, conn')
  BY <1>1, TouchedEntries DEF RequestError, Touched
<1>3. QED
  BY <1>2, DoneLetsGo DEF RequestError, Passes, LetsGo, Breaks
LEMMA SendResponseCase ==
    ASSUME IInv, SendResponse
    PROVE  Answers \/ (Ends /\ UNCHANGED conn)
<1> DEFINE e == Entry
           t == Touched[Srv][Fd]
           n == [t EXCEPT !.queue = Tail(@)]
<1>1. /\ Event(RESPONSE) /\ HasResponse /\ UNCHANGED <<backlog, inbuf>>
      /\ e # None /\ e.queue # <<>>
  BY DEF SendResponse, HasResponse, Entry
<1>2. Fd \in Fds /\ Srv \in Servers /\ conn \in Tables
  BY <1>1, EventFacts, EventTypes DEF Event, IInv, TableInv
<1>3. e \in Connection /\ QueueOf(e) = e.queue /\ e.queue \in Seq(Response)
  BY <1>1, <1>2 DEF QueueOf, Entry, Tables, Connection
<1>4. /\ SameTable(conn, Touched) /\ Touched \in Tables
      /\ t \in Connection /\ t.queue = e.queue /\ t.buf = BufOf(e) /\ t.cgi = OutputOf(e)
  <2>1. SameTable(conn, Touched) /\ Touched \in Tables
    BY <1>2, TouchedEntries DEF Touched
  <2>2. SameEntry(e, t) /\ t \in Entries
    BY <1>2, <2>1 DEF SameTable, Tables, Entry, Entries
  <2> HIDE DEF t, e
  <2>3. QED
    BY <1>1, <1>3, <2>1, <2>2 DEF SameEntry, BufOf, QueueOf, OutputOf, Entries
<1>5. CASE /\ "ok" \in send(Fd)
           /\ got' = Delivered(Fd, popResponse(conn[Srv][Fd].queue).response)
           /\ conn' = [Touched EXCEPT ![Srv][Fd].queue = popResponse(@).rest]
           /\ kq' = Done(removeEvent(kq, Fd, EVFILT_WRITE))
           /\ pc' = "poll" /\ UNCHANGED <<kernelVars, up>>
  <2>1. LetsGo /\ Sends(Fd, Head(QueueOf(e)))
    BY <1>3, <1>5, DoneLetsGo DEF LetsGo, Sends, popResponse, Entry
  <2>2. Tail(e.queue) \in Seq(Response)
    BY <1>1, <1>3
  <2> HIDE DEF t, e
  <2>3. /\ n \in Connection /\ n.queue = Tail(QueueOf(e))
        /\ n.buf = BufOf(e) /\ n.cgi = OutputOf(e)
    <3>1. n = [t EXCEPT !.queue = Tail(e.queue)]
      BY <1>4
    <3>2. n \in Connection
      BY <1>4, <2>2, <3>1, MemberTypes
    <3>3. QED
      BY <1>3, <1>4, <3>1, <3>2 DEF Connection
  <2>4. conn' = Put(Touched, Srv, Fd, n)
    BY <1>2, <1>4, <1>5 DEF Put, popResponse, t, Tables
  <2> HIDE DEF n
  <2>5. conn'[Srv][Fd] = n /\ SameTableBut(Touched, conn', Srv, Fd) /\ n # None
    <3>1. n \in Entries /\ n # None
      BY <2>3, NoneIsNoObject DEF Entries
    <3>2. QED
      BY <1>2, <1>4, <2>3, <2>4, <3>1, PutEntry
  <2>6. SameTableBut(conn, conn', Srv, Fd)
    BY <1>2, <1>4, <2>5, SameChain
  <2>7. QED
    BY <1>1, <2>1, <2>3, <2>5, <2>6 DEF Answers, Becomes, BufOf, QueueOf, OutputOf, e
<1>6. CASE Exit("removeEvent") \/ Exit("SIGPIPE")
  BY <1>6, ExitEnds DEF Exits
<1>7. QED
  BY <1>5, <1>6 DEF SendResponse

LEMMA NoResponseCase ==
    ASSUME IInv, NoResponse
    PROVE  Passes \/ Drops(Srv, Fd) \/ (Ends /\ UNCHANGED conn)
<1> DEFINE r == [code |-> 500, of |-> {}]
<1>1. Event(RESPONSE) /\ handleError(Touched, Srv, Fd, r) /\ UNCHANGED <<backlog, inbuf>>
  BY DEF NoResponse
<1>2. Fd \in Fds /\ Srv \in Servers /\ conn \in Tables
  BY <1>1, EventFacts, EventTypes DEF Event, IInv, TableInv
<1>3. SameTable(conn, Touched) /\ Touched \in Tables
  BY <1>2, TouchedEntries DEF Touched
<1>4. r \in Response /\ r.code \notin {200, 408}
  BY DEF Response
<1> HIDE DEF r
<1>5. CASE LetsGo /\ Sends(Fd, r) /\ conn' = Touched
  BY <1>1, <1>2, <1>3, <1>4, <1>5 DEF Passes, Refuses, Sends, kernelVars
<1>6. CASE LetsGo /\ Closes(Fd) /\ UNCHANGED got /\ conn' = Put(Touched, Srv, Fd, None)
  <2>1. SameTableBut(conn, Touched, Srv, Fd)
    BY <1>2, <1>3, SameChain
  <2>2. Removed(Srv, Fd)
    BY <1>2, <1>3, <1>6, <2>1, PutRemoves
  <2>3. QED
    BY <1>1, <1>6, <2>2 DEF Drops
<1>7. QED
  BY <1>1, <1>2, <1>3, <1>5, <1>6, HandleErrorEffect

LEMMA CgiDataCase ==
    ASSUME IInv, CgiData
    PROVE  Collects
<1> DEFINE e == Owner
           o == pipe[Fd]
           t == Touched[Srv][CgiTo]
           n == [t EXCEPT !.cgi = [t.cgi EXCEPT ![Fd] = @ \cup {o}]]
<1>1. /\ Event(CGI_RESPONSE) /\ o # None
      /\ conn' = IF t = None THEN Touched
                 ELSE [Touched EXCEPT ![Srv][CgiTo].cgi[Fd] = @ \cup {o}]
      /\ LetsGo /\ UNCHANGED <<backlog, inbuf, kernelVars, got>>
  BY DoneLetsGo DEF CgiData, LetsGo
<1>2. /\ Fd \in Fds /\ Srv \in Servers /\ CgiTo \in Fds /\ conn \in Tables /\ o \in Origins
  BY <1>1, EventFacts, EventTypes DEF Event, IInv, TableInv, RegistryInv
<1>3. SameTable(conn, Touched) /\ Touched \in Tables
  BY <1>2, TouchedEntries DEF Touched
<1>4. CASE t = None
  BY <1>1, <1>3, <1>4 DEF Collects
<1>5. CASE t # None
  <2>1. SameEntry(e, t) /\ t \in Connection
    BY <1>2, <1>3, <1>5 DEF SameTable, Tables, Owner
  <2>1a. e # None
    BY <1>5, <2>1 DEF SameEntry
  <2> HIDE DEF e
  <2>2. /\ t.buf = BufOf(e) /\ t.queue = QueueOf(e) /\ t.cgi = OutputOf(e)
        /\ t.cgi \in [Fds -> SUBSET Origins]
    BY <1>5, <2>1 DEF SameEntry, BufOf, QueueOf, OutputOf, Connection
  <2>3. conn' = Put(Touched, Srv, CgiTo, n)
    BY <1>1, <1>2, <1>3, <1>5 DEF Put, Tables
  <2> HIDE DEF o, t
  <2>4. [t.cgi EXCEPT ![Fd] = @ \cup {o}] \in [Fds -> SUBSET Origins]
    BY <1>2, <2>2
  <2>5. /\ n \in Connection /\ n.cgi = [t.cgi EXCEPT ![Fd] = @ \cup {o}]
        /\ n.buf = t.buf /\ n.queue = t.queue
    BY <2>1, <2>4, MemberTypes DEF Connection
  <2> HIDE DEF n
  <2>6. conn'[Srv][CgiTo] = n /\ SameTableBut(Touched, conn', Srv, CgiTo) /\ n # None
    <3>1. n \in Entries /\ n # None
      BY <2>5, NoneIsNoObject DEF Entries
    <3>2. QED
      BY <1>2, <1>3, <2>3, <2>5, <3>1, PutEntry
  <2>7. SameTableBut(conn, conn', Srv, CgiTo)
    BY <1>2, <1>3, <2>6, SameChain
  <2>8. Becomes(Srv, CgiTo, BufOf(e), QueueOf(e), [OutputOf(e) EXCEPT ![Fd] = @ \cup {o}])
    BY <2>2, <2>5, <2>6, <2>7 DEF Becomes, BufOf, QueueOf, OutputOf
  <2>9. QED
    BY <1>1, <2>1a, <2>8 DEF Collects, e, o
<1>6. QED
  BY <1>4, <1>5

LEMMA CgiEofCase ==
    ASSUME IInv, CgiEof
    PROVE  Finishes
<1> DEFINE e == Owner
           t == Touched[Srv][CgiTo]
           b == [t.cgi EXCEPT ![Fd] = {}]
           w == IF t.cgi[Fd] = {} THEN t.queue
                ELSE Append(t.queue, [code |-> 200, of |-> t.cgi[Fd]])
           n == [t EXCEPT !.cgi = b, !.queue = w]
           q == addEvent(kq, Attaches(CgiTo, EVFILT_WRITE), CgiTo, RESPONSE, Srv, None)
           r == removeEvent(q, Fd, EVFILT_READ)
<1>1. /\ Event(CGI_RESPONSE) /\ conn' = Finished(Touched)
      /\ UNCHANGED <<backlog, inbuf, got>>
      /\ \/ close(Fd, Done(r)) /\ pc' = "poll" /\ UNCHANGED up
         \/ /\ ~Registered(q, Fd, EVFILT_READ)
            /\ up' = "removeEvent" /\ UNCHANGED <<kq, kernelVars, pc>>
  BY DEF CgiEof
<1>2. Fd \in Fds /\ Srv \in Servers /\ CgiTo \in Fds /\ conn \in Tables
  BY <1>1, EventFacts, EventTypes DEF Event, IInv, TableInv
<1>3. \/ LetsGo /\ Closes(Fd)
      \/ Ends /\ kq.knote[<<Fd, EVFILT_READ>>] = None
  <2>1. CASE close(Fd, Done(r)) /\ pc' = "poll" /\ UNCHANGED up
    BY <2>1, DoneLetsGo DEF LetsGo, Closes, close
  <2>2. CASE ~Registered(q, Fd, EVFILT_READ) /\ up' = "removeEvent" /\ UNCHANGED <<kq, kernelVars, pc>>
    <3>1. KeptAt(q, Fd)
      BY <1>1, <1>2, ResponseAdded, EventTypes DEF Event, IInv
    <3> HIDE DEF q
    <3>2. kq.knote[<<Fd, EVFILT_READ>>] = None
      BY <2>2, <3>1 DEF KeptAt, SameKnote, Registered
    <3>3. QED
      BY <1>1, <2>2, <3>2 DEF Ends, Exits
  <2>3. QED
    BY <1>1, <2>1, <2>2
<1> HIDE DEF q, r
<1>4. /\ SameTable(conn, Touched) /\ Touched \in Tables /\ SameEntry(e, t) /\ t \in Entries
  <2>1. SameTable(conn, Touched) /\ Touched \in Tables
    BY <1>2, TouchedEntries DEF Touched
  <2>2. QED
    BY <1>2, <2>1 DEF SameTable, Tables, Owner, Entries
<1>5. CASE t = None
  <2>1. conn' = Touched
    BY <1>1, <1>5 DEF Finished
  <2>2. Owner = None
    BY <1>4, <1>5 DEF SameEntry
  <2>3. QED
    BY <1>1, <1>3, <1>4, <2>1, <2>2 DEF Finishes
<1>6. CASE t # None
  <2>1. t \in Connection /\ e # None
    BY <1>4, <1>6 DEF Entries, SameEntry
  <2>2. conn' = Put(Touched, Srv, CgiTo, n)
    <3> DEFINE m == [t EXCEPT !.cgi[Fd] = {}, !.queue = w]
    <3>1. conn' = Put(Touched, Srv, CgiTo, m)
      BY <1>1, <1>6 DEF Finished
    <3>2. m = n
      BY <2>1 DEF Connection
    <3>3. QED
      BY <3>1, <3>2
  <2> HIDE DEF t, e
  <2>3. /\ t.buf = BufOf(e) /\ t.queue = QueueOf(e) /\ t.cgi = OutputOf(e)
        /\ t.cgi \in [Fds -> SUBSET Origins] /\ t.queue \in Seq(Response)
    BY <1>4, <1>6, <2>1 DEF SameEntry, BufOf, QueueOf, OutputOf, Connection
  <2>4. b \in [Fds -> SUBSET Origins] /\ w \in Seq(Response)
    <3>1. [code |-> 200, of |-> t.cgi[Fd]] \in Response
      BY <1>2, <2>3 DEF Response
    <3>2. t.cgi[Fd] = {} => w = t.queue
      OBVIOUS
    <3>3. t.cgi[Fd] # {} => w = Append(t.queue, [code |-> 200, of |-> t.cgi[Fd]])
      OBVIOUS
    <3>4. b \in [Fds -> SUBSET Origins]
      BY <2>3
    <3> HIDE DEF b, w
    <3>5. QED
      BY <2>3, <3>1, <3>2, <3>3, <3>4, SMTT(30)
  <2>5. b = [OutputOf(e) EXCEPT ![Fd] = {}]
    BY <2>3
  <2>6. w = IF OutputOf(e)[Fd] = {} THEN QueueOf(e)
            ELSE Append(QueueOf(e), [code |-> 200, of |-> OutputOf(e)[Fd]])
    BY <2>3
  <2> HIDE DEF b, w
  <2>7. n \in Connection /\ n.cgi = b /\ n.queue = w /\ n.buf = BufOf(e)
    BY <2>1, <2>3, <2>4 DEF Connection
  <2> HIDE DEF n
  <2>8. conn'[Srv][CgiTo] = n /\ SameTableBut(Touched, conn', Srv, CgiTo) /\ n # None
    <3>1. n \in Entries /\ n # None
      BY <2>7, NoneIsNoObject DEF Entries
    <3>2. QED
      BY <1>2, <1>4, <2>2, <2>7, <3>1, PutEntry
  <2>9. SameTableBut(conn, conn', Srv, CgiTo)
    BY <1>2, <1>4, <2>8, SameChain
  <2>10. Becomes(Srv, CgiTo, BufOf(e), w, b)
    BY <2>7, <2>8, <2>9 DEF Becomes, BufOf, QueueOf, OutputOf
  <2>11. QED
    BY <1>1, <1>3, <2>1, <2>5, <2>6, <2>10 DEF Finishes, e
<1>7. QED
  BY <1>5, <1>6

\* What a pass of the loop amounts to. IInv holds before it and after it.
LEMMA ServerCases ==
    ASSUME IInv, Server
    PROVE  /\ up = "up" /\ UNCHANGED clientVars /\ (Ends => UNCHANGED backlog)
           /\ \/ Passes
              \/ \E s \in Servers, fd \in Fds : TimesOut(s, fd) /\ UNCHANGED <<backlog, inbuf, proc>>
              \/ \E fd \in Fds : Event(SERVER) /\ LetsGo /\ Accepts(Fd, fd) /\ UNCHANGED inbuf
              \/ \E k \in Nat : Reads(k) \/ Dispatches(k)
              \/ Event(REQUEST) /\ Drops(Srv, Fd)
              \/ Event(RESPONSE) /\ Drops(Srv, Fd)
              \/ Answers \/ Collects \/ Finishes
              \/ Ends /\ UNCHANGED conn
<1>0. up = "up" /\ UNCHANGED clientVars
  BY DEF Server, Poll, Idle, validateLastActiveTime, connectClient, RequestTooLarge,
         RequestIncomplete, RequestStatic, RequestRejected, RequestCgi, RequestEof,
         RequestError, SendResponse, NoResponse, CgiData, CgiEof, Takes, recv, Event
<1>0a. UNCHANGED backlog \/ UNCHANGED up
  BY DEF Server, Poll, Idle, validateLastActiveTime, connectClient, RequestTooLarge,
         RequestIncomplete, RequestStatic, RequestRejected, RequestCgi, RequestEof,
         RequestError, SendResponse, NoResponse, CgiData, CgiEof
<1>0b. Ends => UNCHANGED backlog
  BY <1>0, <1>0a DEF Ends, Exits
<1>1. conn \in Tables
  BY DEF IInv, TableInv
<1>2. SameTable(conn, conn)
  BY <1>1, EntryTypes DEF SameTable, Tables, Entries
<1>3. CASE Poll \/ Idle
  BY <1>2, <1>3 DEF Poll, Idle, Passes, LetsGo, kernelVars
<1>4. ASSUME NEW s \in Servers, NEW fd \in Fds, validateLastActiveTime(s, fd)
      PROVE  (TimesOut(s, fd) /\ UNCHANGED <<backlog, inbuf, proc>>) \/ (Ends /\ UNCHANGED conn)
  BY <1>4, ExitEnds DEF validateLastActiveTime, TimesOut, removeConnection, Exits
<1>5. ASSUME connectClient
      PROVE  \/ \E fd \in Fds : Event(SERVER) /\ LetsGo /\ Accepts(Fd, fd) /\ UNCHANGED inbuf
             \/ Ends /\ UNCHANGED conn
  <2>1. /\ Event(SERVER) /\ kq.polled # None /\ kq.polled.info.type = SERVER
        /\ UNCHANGED inbuf
    BY <1>5 DEF connectClient, Event
  <2>2. Srv = Fd /\ backlog[Fd] # <<>>
    BY <2>1, EventFacts DEF IInv, AcceptWaits, Fd
  <2>3. ASSUME NEW fd \in Fds, Nth(fd, 0), conn[Srv][fd] = None,
               sock' = [sock EXCEPT ![fd] = Head(backlog[Srv])],
               conn' = Put(conn, Srv, fd, NewConnection),
               kq' = Done(addEvent(kq, TRUE, fd, REQUEST, Srv, None)),
               backlog' = [backlog EXCEPT ![Srv] = Tail(@)],
               pc' = "poll", UNCHANGED <<pipe, peer, got, up>>
        PROVE  LetsGo /\ Accepts(Fd, fd)
    BY <2>1, <2>2, <2>3, DoneLetsGo DEF LetsGo, Accepts, Nth
  <2>4. Exit("exists") \/ Exit("accept") => Ends /\ UNCHANGED conn
    BY ExitEnds DEF Exits
  <2>5. QED
    BY <1>5, <2>1, <2>3, <2>4 DEF connectClient
<1>6. ASSUME NEW k \in Nat,
             \/ RequestTooLarge(k) \/ RequestIncomplete(k) \/ RequestStatic(k)
             \/ RequestRejected(k) \/ RequestCgi(k)
      PROVE  \/ Reads(k) \/ Dispatches(k)
             \/ Event(REQUEST) /\ Drops(Srv, Fd)
             \/ Ends /\ UNCHANGED conn
  <2>1. Event(REQUEST)
    BY <1>6 DEF RequestTooLarge, RequestIncomplete, RequestStatic, RequestRejected, RequestCgi,
                Takes, recv
  <2>2. QED
    BY <1>6, <2>1, RequestTooLargeCase, RequestIncompleteCase, RequestStaticCase,
       RequestRejectedCase, RequestCgiCase
<1>7. RequestEof => Event(REQUEST) /\ Drops(Srv, Fd)
  BY RequestEofCase DEF RequestEof
<1>8. NoResponse => \/ Passes
                    \/ Event(RESPONSE) /\ Drops(Srv, Fd)
                    \/ Ends /\ UNCHANGED conn
  BY NoResponseCase DEF NoResponse
<1>9. \A k \in 1..(2 * MaxReq) : k \in Nat
  BY WebserverAssumption
<1>10. QED
  BY <1>0, <1>0b, <1>3, <1>4, <1>5, <1>6, <1>7, <1>8, <1>9, RequestErrorCase, SendResponseCase,
     CgiDataCase, CgiEofCase DEF Server
=============================================================================
