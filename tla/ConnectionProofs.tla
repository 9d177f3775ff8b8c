------------------------------- MODULE ConnectionProofs -------------------------------
(***************************************************************************)
(* Sockets, their clients and the event the loop holds: that a timed-out   *)
(* client is left in silence, that no handler blocks, that connections_    *)
(* follows the sockets and that nothing ends the process but what it is    *)
(* exposed to. All of it rests on SocketInv: a client has one socket at    *)
(* most, and none before it is accepted or after it was closed.            *)
(***************************************************************************)
EXTENDS HandlerProofs, FiniteSetTheorems

\* A client is connected and not yet given up by the server.
Present(c) == peer[c] \notin {"none", "closed"}

SocketsDistinct ==
    \A f, g \in Fds : sock[f] # None /\ sock[f] = sock[g] => f = g

SocketsPresent == \A fd \in Fds : sock[fd] # None => Present(sock[fd])

\* A waiting client waits once and has no socket yet.
WaitingOnce ==
    \A s \in Servers : \A i \in DOMAIN backlog[s] :
       /\ Present(backlog[s][i])
       /\ \A fd \in Fds : sock[fd] # backlog[s][i]
       /\ \A j \in DOMAIN backlog[s] : backlog[s][i] = backlog[s][j] => i = j

\* The timeout is the last a client hears.
TimedOutClosed ==
    \A c \in Clients : \A i \in DOMAIN got[c] : got[c][i].code = 408 => peer[c] = "closed"

\* What is queued is the content of a resource or the output of a program, of some request.
AllOk(q) == \A i \in DOMAIN q : q[i].code = 200 /\ q[i].of # {}

QueueCodes == \A s \in Servers, fd \in Fds : AllOk(QueueOf(conn[s][fd]))

SocketInv == /\ SocketsDistinct /\ SocketsPresent /\ WaitingOnce
             /\ TimedOutClosed /\ QueueCodes

-----------------------------------------------------------------------------
(* The steps of the environment. *)

Environment == (\E c \in Clients : Client(c)) \/ (\E o \in Origins : Cgi(o)) \/ Tick

\* A segment of request number n, of the kind announced, reaches the kernel.
Sent(c) ==
    /\ UNCHANGED <<peer, backlog, got, proc>>
    /\ SendRemainder(c) \/ \E kind \in Kinds, whole \in BOOLEAN : SendRequest(c, kind, whole)

\* What a program does; execFails is the only one of its acts that a client sees.
Runs(o) ==
    /\ UNCHANGED <<peer, backlog, inbuf, clientVars>>
    /\ \A p \in Origins : (proc[p].unread => proc'[p].unread)
                          /\ (proc[p].st = "exit" => proc'[p].st = "exit")
    /\ \/ UNCHANGED got
       \/ /\ peer[o[1]] \in {"open", "fin"}
          /\ got' = [got EXCEPT ![o[1]] = Append(@, [code |-> 500, of |-> {o}])]

LEMMA EnvCases ==
    ASSUME IInv, Environment
    PROVE  /\ up = "up" /\ UNCHANGED <<kq, sock, pipe, pc, up>> /\ SameTable(conn, conn')
           /\ \/ \E c \in Clients : Connect(c)
              \/ \E c \in Clients : Sent(c)
              \/ \E c \in Clients : Leave(c) \/ Reset(c)
              \/ \E o \in Origins : Runs(o)
              \/ UNCHANGED <<peer, backlog, inbuf, clientVars, got, proc>>
<1>1. conn \in Tables
  BY DEF IInv, TableInv
<1>2. SameTable(conn, conn)
  BY <1>1, EntryTypes DEF SameTable, Tables, Entries
<1>3. ASSUME NEW c \in Clients, Client(c)
      PROVE  /\ up = "up" /\ UNCHANGED <<kq, conn, sock, pipe, pc, up>>
             /\ Connect(c) \/ Sent(c) \/ Leave(c) \/ Reset(c)
  BY <1>3 DEF Client, Connect, SendRemainder, SendRequest, Leave, Reset, Sent, serverState
<1>4. ASSUME NEW o \in Origins, Cgi(o)
      PROVE  up = "up" /\ UNCHANGED <<kq, conn, sock, pipe, pc, up>> /\ Runs(o)
  <2>1. proc \in [Origins -> Process] /\ got \in [Clients -> Seq(Response)]
    BY DEF IInv, EnvInv, TableInv
  <2>1a. o[1] \in Clients
    BY DEF Origins
  <2>2. CASE CgiWrite(o)
    BY <2>1, <2>2 DEF CgiWrite, Runs, serverState, clientVars, Process
  <2>3. CASE CgiExit(o)
    BY <2>1, <2>3 DEF CgiExit, Runs, serverState, clientVars, Process
  <2>4. CASE CgiExecFails(o)
    <3>1. /\ up = "up" /\ UNCHANGED <<serverState, peer, backlog, inbuf, clientVars>>
          /\ proc[o].st = "run"
          /\ proc' = [proc EXCEPT ![o] = [st |-> "exit", unread |-> TRUE, wrote |-> 1]]
      BY <2>4 DEF CgiExecFails
    <3>2. \A p \in Origins : (proc[p].unread => proc'[p].unread)
                             /\ (proc[p].st = "exit" => proc'[p].st = "exit")
      BY <2>1, <3>1
    <3>3. \/ UNCHANGED got
          \/ /\ peer[o[1]] \in {"open", "fin"}
             /\ got' = [got EXCEPT ![o[1]] = Append(@, [code |-> 500, of |-> {o}])]
      BY <2>1, <2>1a, <2>4, ZenonT(30) DEF CgiExecFails
    <3>4. QED
      BY <3>1, <3>2, <3>3 DEF Runs, serverState
  <2>5. QED
    BY <1>4, <2>2, <2>3, <2>4 DEF Cgi
<1>5. Tick => /\ up = "up"
              /\ UNCHANGED <<kq, sock, pipe, pc, up, peer, backlog, inbuf, clientVars, got, proc>>
  BY DEF Tick, kernelVars
<1>6. Tick => SameTable(conn, conn')
  <2> SUFFICES ASSUME Tick, NEW s \in Servers, NEW fd \in Fds
               PROVE  SameEntry(conn[s][fd], conn'[s][fd])
    BY DEF SameTable
  <2> DEFINE e == conn[s][fd]
             f == [e EXCEPT !.age = @ + 1]
  <2>1. conn'[s][fd] = IF e # None /\ e.age <= Limit THEN f ELSE e
    BY DEF Tick
  <2>2. SameEntry(e, e)
    BY <1>1, EntryTypes DEF Tables, Entries
  <2>3. CASE e # None /\ e.age <= Limit
    <3>1. e \in Connection
      BY <1>1, <2>3 DEF Tables
    <3>2. f \in Connection /\ f # None
      BY <2>3, <3>1, MemberTypes, NoneIsNoObject
    <3>3. f.buf = e.buf /\ f.queue = e.queue /\ f.cgi = e.cgi
      BY <3>1 DEF Connection
    <3>4. SameEntry(e, f)
      BY <2>3, <3>2, <3>3 DEF SameEntry, BufOf, QueueOf, OutputOf
    <3>5. QED
      BY <2>1, <2>3, <3>4
  <2>4. QED
    BY <2>1, <2>2, <2>3
<1>7. QED
  BY <1>2, <1>3, <1>4, <1>5, <1>6 DEF Environment

-----------------------------------------------------------------------------
(* What clients receive. *)

\* Delivered appends at most one response to what one client got.
LEMMA DeliveredCases ==
    ASSUME IInv, NEW fd \in Fds, "ok" \in send(fd), NEW r, got' = Delivered(fd, r)
    PROVE  /\ sock[fd] \in Clients
           /\ \A c \in Clients : \A i \in DOMAIN got'[c] :
                 \/ i \in DOMAIN got[c] /\ got'[c][i] = got[c][i]
                 \/ c = sock[fd] /\ i = Len(got[c]) + 1 /\ got'[c][i] = r
           /\ \A c \in Clients : c # sock[fd] => got'[c] = got[c]
<1>1. sock[fd] \in Clients /\ got \in [Clients -> Seq(Response)]
  BY DEF send, IInv, RegistryInv, TableInv
<1>2. \A c \in Clients : c # sock[fd] => got'[c] = got[c]
  BY <1>1 DEF Delivered
<1>3. got'[sock[fd]] \in {got[sock[fd]], Append(got[sock[fd]], r)}
  BY <1>1 DEF Delivered
<1>4. \A i \in DOMAIN Append(got[sock[fd]], r) :
         \/ /\ i \in DOMAIN got[sock[fd]]
            /\ Append(got[sock[fd]], r)[i] = got[sock[fd]][i]
         \/ i = Len(got[sock[fd]]) + 1 /\ Append(got[sock[fd]], r)[i] = r
  BY <1>1
<1>5. ASSUME NEW c \in Clients, NEW i \in DOMAIN got'[c]
      PROVE  \/ i \in DOMAIN got[c] /\ got'[c][i] = got[c][i]
             \/ c = sock[fd] /\ i = Len(got[c]) + 1 /\ got'[c][i] = r
  <2>1. CASE c # sock[fd]
    BY <1>2, <1>5, <2>1
  <2>2. CASE c = sock[fd]
    BY <1>3, <1>4, <1>5, <2>2
  <2>3. QED
    BY <2>1, <2>2
<1>6. QED
  BY <1>1, <1>2, <1>5
-----------------------------------------------------------------------------
(* SocketInv is inductive. *)

\* The steps that close a socket.
LEMMA ClosesKeeps ==
    ASSUME IInv, SocketsDistinct, SocketsPresent, WaitingOnce, NEW fd \in Fds, Closes(fd),
           UNCHANGED backlog
    PROVE  SocketsDistinct' /\ SocketsPresent' /\ WaitingOnce'
<1>1. /\ \A g \in Fds : sock'[g] = IF g = fd THEN None ELSE sock[g]
      /\ \A c \in Clients : peer'[c] = IF sock[fd] = c THEN "closed" ELSE peer[c]
      /\ \A g \in Fds : sock[g] # None => sock[g] \in Clients
  BY DEF Closes, IInv, RegistryInv
<1>2. \A s \in Servers : \A i \in DOMAIN backlog[s] : backlog[s][i] \in Clients
  BY DEF IInv, EnvInv
<1>3. SocketsDistinct'
  BY <1>1 DEF SocketsDistinct
<1>4. SocketsPresent'
  BY <1>1 DEF SocketsDistinct, SocketsPresent, Present
<1>5. WaitingOnce'
  <2>1. \A s \in Servers : \A i \in DOMAIN backlog[s] : peer'[backlog[s][i]] = peer[backlog[s][i]]
    BY <1>1, <1>2 DEF WaitingOnce
  <2>2. \A s \in Servers : \A i \in DOMAIN backlog[s] : None # backlog[s][i]
    BY <1>2, NoneIsNoObject
  <2>3. QED
    BY <1>1, <2>1, <2>2 DEF WaitingOnce, Present
<1>6. QED
  BY <1>3, <1>4, <1>5

LEMMA SocketsServerStep ==
    ASSUME IInv, SocketsDistinct, SocketsPresent, WaitingOnce, Server
    PROVE  SocketsDistinct' /\ SocketsPresent' /\ WaitingOnce'
<1> DEFINE Inv == SocketsDistinct /\ SocketsPresent /\ WaitingOnce
<1>0. /\ \A g \in Fds : sock[g] # None => sock[g] \in Clients
      /\ \A s \in Servers : backlog[s] \in Seq(Clients)
  BY DEF IInv, RegistryInv, EnvInv
<1>1. UNCHANGED <<sock, peer, backlog>> => Inv'
  BY DEF SocketsDistinct, SocketsPresent, WaitingOnce, Present
<1>2. ASSUME UNCHANGED <<sock, backlog>>, Breaks
      PROVE  Inv'
  <2>1. \A c \in Clients : peer'[c] = IF sock[Fd] = c THEN "dead" ELSE peer[c]
    BY <1>2 DEF Breaks
  <2>2. \A c \in Clients : Present(c) => Present(c)'
    BY <2>1 DEF Present
  <2>3. QED
    BY <1>0, <1>2, <2>2 DEF SocketsDistinct, SocketsPresent, WaitingOnce, Present
<1>3. ASSUME NEW s \in Servers, NEW fd \in Fds, Accepts(s, fd)
      PROVE  Inv'
  <2> DEFINE c == Head(backlog[s])
             b == backlog[s]
  <2>1. /\ sock[fd] = None
        /\ \A g \in Fds : sock'[g] = IF g = fd THEN c ELSE sock[g]
        /\ \A t \in Servers : backlog'[t] = IF t = s THEN Tail(b) ELSE backlog[t]
        /\ peer' = peer /\ b # <<>> /\ b \in Seq(Clients)
    BY <1>3, <1>0 DEF Accepts, Free, IInv, RegistryInv, EnvInv
  <2>2. /\ c = b[1] /\ 1 \in DOMAIN b /\ c \in Clients
        /\ \A i \in DOMAIN Tail(b) : i + 1 \in DOMAIN b /\ Tail(b)[i] = b[i + 1] /\ i + 1 # 1 /\ i \in Nat
    BY <2>1
  <2>3. Home[c] = s /\ \A t \in Servers : \A i \in DOMAIN backlog[t] : Home[backlog[t][i]] = t
    BY <2>2 DEF IInv, EnvInv, BacklogHome
  <2>4. /\ Present(c) /\ \A g \in Fds : sock[g] # c
        /\ \A j \in DOMAIN b : b[j] = c => j = 1
    BY <2>2 DEF WaitingOnce
  <2> HIDE DEF c
  <2>5. SocketsDistinct' /\ SocketsPresent'
    BY <2>1, <2>4 DEF SocketsDistinct, SocketsPresent, Present
  <2>6. ASSUME NEW t \in Servers, NEW i \in DOMAIN backlog'[t]
        PROVE  /\ Present(backlog[t][i])' /\ \A g \in Fds : sock'[g] # backlog'[t][i]
               /\ \A j \in DOMAIN backlog'[t] : backlog'[t][i] = backlog'[t][j] => i = j
    <3>1. CASE t # s
      <4>1. backlog'[t] = backlog[t] /\ backlog[t][i] # c
        BY <2>1, <2>3, <2>6, <3>1
      <4>2. QED
        BY <2>1, <2>6, <4>1 DEF WaitingOnce, Present
    <3>2. CASE t = s
      <4>1. backlog'[t] = Tail(b)
        BY <2>1, <3>2
      <4>2. /\ i \in DOMAIN Tail(b) /\ i + 1 \in DOMAIN b
            /\ Tail(b)[i] = b[i + 1] /\ b[i + 1] # c
        BY <2>2, <2>4, <2>6, <4>1
      <4>3. /\ Present(b[i + 1]) /\ \A g \in Fds : sock[g] # b[i + 1]
            /\ \A j \in DOMAIN b : b[i + 1] = b[j] => i + 1 = j
        BY <4>2 DEF WaitingOnce
      <4>4. \A j \in DOMAIN Tail(b) : Tail(b)[i] = Tail(b)[j] => i = j
        BY <2>2, <4>2, <4>3
      <4>5. QED
        BY <2>1, <4>1, <4>2, <4>3, <4>4 DEF Present
    <3>3. QED
      BY <3>1, <3>2
  <2>7. WaitingOnce'
    BY <2>6 DEF WaitingOnce
  <2>8. QED
    BY <2>5, <2>7
<1>4. ASSUME NEW fd \in Fds, Closes(fd), UNCHANGED backlog
      PROVE  Inv'
  BY <1>4, ClosesKeeps
<1>5. Passes => UNCHANGED <<sock, peer, backlog>> \/ (UNCHANGED <<sock, backlog>> /\ Breaks)
  BY DEF Passes, Poll, Refuses, Sends, kernelVars
<1>6. ASSUME NEW k, Reads(k) \/ Dispatches(k)
      PROVE  UNCHANGED <<sock, peer, backlog>>
  BY <1>6 DEF Reads, Dispatches, Cuts, Refuses, Sends, Opens, kernelVars
<1>7. \A s, fd : Drops(s, fd) => Closes(fd) /\ UNCHANGED backlog
  BY DEF Drops
<1>8. Answers \/ Collects => UNCHANGED <<sock, peer, backlog>>
  BY DEF Answers, Collects, Sends, kernelVars
<1>9. Finishes => UNCHANGED <<sock, peer, backlog>> \/ (Closes(Fd) /\ UNCHANGED backlog)
  BY DEF Finishes, Ends, kernelVars
<1>10. Event(REQUEST) \/ Event(RESPONSE) \/ Event(CGI_RESPONSE) => Fd \in Fds
  BY EventFacts, EventTypes DEF Event, IInv
<1>11. Event(SERVER) => Fd \in Servers
  BY EventFacts DEF Event, IInv
<1>12. \A s, fd : TimesOut(s, fd) => Closes(fd)
  BY DEF TimesOut, close, Closes
<1>13. Ends => UNCHANGED <<sock, peer>>
  BY DEF Ends, kernelVars
<1>14. QED
  BY <1>1, <1>2, <1>3, <1>4, <1>5, <1>6, <1>7, <1>8, <1>9, <1>10, <1>11, <1>12, <1>13, ServerCases
     DEF Collects, Finishes
LEMMA QueueCodesStep ==
    ASSUME IInv, IInv', QueueCodes, Server
    PROVE  QueueCodes'
<1>0. conn \in Tables /\ conn' \in Tables
  BY DEF IInv, TableInv
<1>1. \A s \in Servers, fd \in Fds : /\ conn[s][fd] \in Entries
                                     /\ QueueOf(conn[s][fd]) \in Seq(Response)
                                     /\ AllOk(QueueOf(conn[s][fd]))
  <2>1. \A s \in Servers, fd \in Fds : conn[s][fd] \in Entries
    BY <1>0 DEF Tables, Entries
  <2>2. QED
    BY <2>1, EntryTypes DEF QueueCodes
<1>2. ASSUME NEW s \in Servers, NEW fd \in Fds, SameTableBut(conn, conn', s, fd),
             AllOk(QueueOf(conn'[s][fd]))
      PROVE  QueueCodes'
  <2>1. \A t \in Servers, g \in Fds :
           <<t, g>> # <<s, fd>> => QueueOf(conn'[t][g]) = QueueOf(conn[t][g])
    BY <1>2 DEF SameTableBut, SameEntry
  <2>2. QED
    BY <1>1, <1>2, <2>1 DEF QueueCodes
<1>3. SameTable(conn, conn') => QueueCodes'
  BY <1>1 DEF QueueCodes, SameTable, SameEntry
<1>4. ASSUME NEW q \in Seq(Response), AllOk(q)
      PROVE  /\ q # <<>> => AllOk(Tail(q))
             /\ \A r \in Response : r.code = 200 /\ r.of # {} => AllOk(Append(q, r))
  BY <1>4 DEF AllOk
<1>5. AllOk(<<>>) /\ QueueOf(None) = <<>>
  BY DEF QueueOf, AllOk
<1>6. ASSUME NEW s \in Servers, NEW fd \in Fds, NEW e \in Entries, QueueOf(e) = <<>>,
             conn' = Put(conn, s, fd, e)
      PROVE  QueueCodes'
  <2>1. conn'[s][fd] = e /\ SameTableBut(conn, conn', s, fd)
    BY <1>0, <1>6, PutEntry
  <2>2. QED
    BY <1>2, <1>5, <1>6, <2>1
<1>7. ASSUME NEW s \in Servers, NEW fd \in Fds, TimesOut(s, fd)
      PROVE  QueueCodes'
  BY <1>5, <1>6, <1>7 DEF TimesOut, Entries
<1>8. ASSUME NEW fd \in Fds, Event(SERVER), Accepts(Fd, fd)
      PROVE  QueueCodes'
  <2>1. Fd \in Servers
    BY <1>8, EventFacts DEF Event, IInv
  <2>2. QED
    BY <1>5, <1>6, <1>8, <2>1, FreshEntry DEF Accepts, Entries
<1>9. ASSUME NEW k \in Nat, Reads(k) \/ Dispatches(k)
      PROVE  QueueCodes'
  <2> DEFINE o == Appended(k).buf[1].req
  <2>1. recv(k)
    BY <1>9 DEF Reads, Dispatches, Cuts
  <2>2. Fd \in Fds /\ Srv \in Servers /\ o \in Origins
    BY <2>1, RecvFacts
  <2>3. QueueOf(Entry) \in Seq(Response) /\ AllOk(QueueOf(Entry))
    BY <1>1, <2>2 DEF Entry
  <2>3a. Served(o) \in Response /\ Served(o).code = 200 /\ Served(o).of # {}
    BY <2>2 DEF Served, Response
  <2> HIDE DEF o
  <2>4. AllOk(Append(QueueOf(Entry), Served(o)))
    BY <1>4, <2>3, <2>3a
  <2>5. QueueOf(conn'[Srv][Fd]) \in {QueueOf(Entry), Append(QueueOf(Entry), Served(o))}
        /\ SameTableBut(conn, conn', Srv, Fd)
    BY <1>9 DEF Reads, Dispatches, Cuts, Becomes, o
  <2>6. QED
    BY <1>2, <2>2, <2>3, <2>4, <2>5
<1>10. ASSUME NEW s \in Servers, NEW fd \in Fds, Drops(s, fd)
       PROVE  QueueCodes'
  BY <1>2, <1>5, <1>10 DEF Drops, Removed
<1>11. ASSUME Answers
       PROVE  QueueCodes'
  <2>1. Fd \in Fds /\ Srv \in Servers /\ QueueOf(Entry) # <<>>
    BY <1>11, EventFacts, EventTypes DEF Answers, Event, HasResponse, IInv, Entry, QueueOf
  <2>2. AllOk(Tail(QueueOf(Entry)))
    BY <1>1, <1>4, <2>1 DEF Entry
  <2>3. QED
    BY <1>2, <1>11, <2>1, <2>2 DEF Answers, Becomes
<1>12. ASSUME Collects \/ Finishes
       PROVE  QueueCodes'
  <2> DEFINE r == [code |-> 200, of |-> OutputOf(Owner)[Fd]]
  <2>1. Fd \in Fds /\ Srv \in Servers /\ CgiTo \in Fds
    BY <1>12, EventFacts, EventTypes DEF Collects, Finishes, Event, IInv
  <2>2. QueueOf(Owner) \in Seq(Response) /\ AllOk(QueueOf(Owner)) /\ r \in Response
    <3>1. Owner \in Entries
      BY <1>1, <2>1 DEF Owner
    <3>2. OutputOf(Owner)[Fd] \in SUBSET Origins
      BY <2>1, <3>1, EntryTypes
    <3>3. r \in Response
      BY <3>2 DEF Response
    <3>4. QED
      BY <1>1, <2>1, <3>3 DEF Owner
  <2>3. OutputOf(Owner)[Fd] # {} => AllOk(Append(QueueOf(Owner), r))
    BY <1>4, <2>2
  <2>4. \/ SameTable(conn, conn')
        \/ /\ \/ QueueOf(conn'[Srv][CgiTo]) = QueueOf(Owner)
              \/ /\ OutputOf(Owner)[Fd] # {}
                 /\ QueueOf(conn'[Srv][CgiTo]) = Append(QueueOf(Owner), r)
           /\ SameTableBut(conn, conn', Srv, CgiTo)
    BY <1>12 DEF Collects, Finishes, Becomes
  <2> HIDE DEF r
  <2>5. QED
    BY <1>2, <1>3, <2>1, <2>2, <2>3, <2>4
<1>13. Passes => QueueCodes'
  BY <1>3 DEF Passes
<1>14. UNCHANGED conn => QueueCodes'
  BY DEF QueueCodes
<1>15. Event(REQUEST) \/ Event(RESPONSE) => Fd \in Fds /\ Srv \in Servers
  BY EventFacts, EventTypes DEF Event, IInv
<1>16. QED
  BY <1>7, <1>8, <1>9, <1>10, <1>11, <1>12, <1>13, <1>14, <1>15, ServerCases

\* A response that is sent goes to a client that is still there; 408 is sent with the close.
LEMMA TimedOutStep ==
    ASSUME IInv, SocketInv, Server
    PROVE  /\ TimedOutClosed'
           /\ \A c \in Clients : peer[c] = "closed" => peer'[c] = "closed" /\ got'[c] = got[c]
<1> DEFINE Goal == /\ TimedOutClosed'
                   /\ \A c \in Clients : peer[c] = "closed" =>
                         peer'[c] = "closed" /\ got'[c] = got[c]
<1>0. /\ \A fd \in Fds : sock[fd] # None => sock[fd] \in Clients /\ peer[sock[fd]] # "closed"
      /\ \A c \in Clients : \A i \in DOMAIN got[c] : got[c][i].code = 408 => peer[c] = "closed"
  BY DEF IInv, RegistryInv, SocketInv, SocketsPresent, TimedOutClosed, Present
<1>1. UNCHANGED <<peer, got>> => Goal
  BY <1>0 DEF TimedOutClosed
<1>2. ASSUME NEW fd \in Fds, NEW r, Sends(fd, r), r.code # 408
      PROVE  Goal
  <2>1. /\ sock[fd] \in Clients /\ UNCHANGED peer
        /\ \A c \in Clients : \A i \in DOMAIN got'[c] :
              (i \in DOMAIN got[c] /\ got'[c][i] = got[c][i]) \/ got'[c][i] = r
        /\ \A c \in Clients : c # sock[fd] => got'[c] = got[c]
    BY <1>2, DeliveredCases DEF Sends, kernelVars
  <2>2. peer[sock[fd]] # "closed"
    BY <1>0, <2>1, NoneIsNoObject
  <2>3. TimedOutClosed'
    BY <1>0, <1>2, <2>1 DEF TimedOutClosed
  <2>4. QED
    BY <2>1, <2>2, <2>3
<1>3. ASSUME NEW fd \in Fds, UNCHANGED got,
             \/ Closes(fd)
             \/ peer' = [c \in Clients |-> IF sock[fd] = c THEN "dead" ELSE peer[c]]
      PROVE  Goal
  <2>1. \A c \in Clients : peer[c] = "closed" => peer'[c] = "closed"
    BY <1>0, <1>3, NoneIsNoObject DEF Closes
  <2>2. QED
    BY <1>0, <1>3, <2>1 DEF TimedOutClosed
<1>4. ASSUME NEW s \in Servers, NEW fd \in Fds, TimesOut(s, fd)
      PROVE  Goal
  <2>1. /\ sock[fd] \in Clients
        /\ \A c \in Clients : \A i \in DOMAIN got'[c] :
              (i \in DOMAIN got[c] /\ got'[c][i] = got[c][i]) \/ c = sock[fd]
        /\ \A c \in Clients : c # sock[fd] => got'[c] = got[c]
    BY <1>4, DeliveredCases DEF TimesOut
  <2>2. \A c \in Clients : peer'[c] = IF sock[fd] = c THEN "closed" ELSE peer[c]
    BY <1>4 DEF TimesOut, close
  <2>3. sock[fd] # None
    BY <2>1, NoneIsNoObject
  <2>4. QED
    BY <1>0, <2>1, <2>2, <2>3 DEF TimedOutClosed
<1>5. Event(REQUEST) \/ Event(RESPONSE) \/ Event(CGI_RESPONSE) => Fd \in Fds /\ Srv \in Servers
  BY EventFacts, EventTypes DEF Event, IInv
<1>6. \A fd \in Fds : Refuses(fd) => Goal
  BY <1>2 DEF Refuses
<1>7. Passes => Goal
  BY <1>1, <1>3, <1>5, <1>6 DEF Passes, Poll, Breaks, kernelVars
<1>8. \A k : Reads(k) \/ Dispatches(k) => Goal
  <2>1. \A k : recv(k) => Event(REQUEST)
    BY DEF recv
  <2>2. QED
    BY <1>1, <1>5, <1>6, <2>1 DEF Reads, Dispatches, Cuts, Opens, kernelVars
<1>9. ASSUME Answers
      PROVE  Goal
  <2>1. Fd \in Fds /\ Srv \in Servers /\ Sends(Fd, Head(QueueOf(Entry)))
    BY <1>5, <1>9 DEF Answers
  <2>2. QueueOf(Entry) # <<>> /\ QueueOf(Entry) \in Seq(Response)
    BY <1>9, <2>1, EntryTypes
       DEF Answers, HasResponse, Entry, QueueOf, IInv, TableInv, Tables, Entries
  <2>3. Head(QueueOf(Entry)).code = 200
    <3>1. 1 \in DOMAIN QueueOf(Entry) /\ Head(QueueOf(Entry)) = QueueOf(Entry)[1]
      BY <2>2
    <3>2. QED
      BY <2>1, <3>1 DEF SocketInv, QueueCodes, AllOk, Entry
  <2>4. QED
    BY <1>2, <2>1, <2>3
<1>10. \A s, fd : Drops(s, fd) /\ fd \in Fds => Goal
  BY <1>3 DEF Drops
<1>11. Collects \/ Finishes => Goal
  BY <1>1, <1>3, <1>5 DEF Collects, Finishes, Ends, kernelVars
<1>12. \A s, fd : Accepts(s, fd) => Goal
  BY <1>1 DEF Accepts
<1>13. Ends => Goal
  BY <1>1 DEF Ends, kernelVars
<1> HIDE DEF Goal
<1>14. QED
  <2>1. Goal
    BY <1>4, <1>5, <1>7, <1>8, <1>9, <1>10, <1>11, <1>12, <1>13, ServerCases
  <2>2. QED
    BY <2>1 DEF Goal

\* Clients come and go, and programs write, without touching the sockets.
LEMMA SocketsEnvStep ==
    ASSUME IInv, SocketInv, Environment
    PROVE  /\ SocketInv'
           /\ \A c \in Clients : peer[c] = "closed" => got'[c] = got[c]
<1>0. /\ UNCHANGED sock /\ SameTable(conn, conn')
      /\ peer \in [Clients -> PeerStates] /\ got \in [Clients -> Seq(Response)]
      /\ \A fd \in Fds : sock[fd] # None => sock[fd] \in Clients
      /\ \A s \in Servers : backlog[s] \in Seq(Clients)
  BY EnvCases DEF IInv, RegistryInv, TableInv, EnvInv
<1>1. QueueCodes' /\ SocketsDistinct'
  <2>1. \A s \in Servers, fd \in Fds : QueueOf(conn'[s][fd]) = QueueOf(conn[s][fd])
    BY <1>0 DEF SameTable, SameEntry
  <2>2. QED
    BY <1>0, <2>1 DEF SocketInv, QueueCodes, SocketsDistinct
<1> DEFINE Rest1 == /\ SocketsPresent' /\ WaitingOnce' /\ TimedOutClosed'
                    /\ \A c \in Clients : peer[c] = "closed" => got'[c] = got[c]
<1>2. ASSUME NEW c \in Clients, Connect(c)
      PROVE  Rest1
  <2>1. /\ peer[c] = "none" /\ got' = got
        /\ \A d \in Clients : peer'[d] = IF d = c THEN "open" ELSE peer[d]
        /\ \A s \in Servers : backlog'[s] = IF s = Home[c] THEN Append(backlog[s], c) ELSE backlog[s]
    BY <1>0, <1>2 DEF Connect, IInv, EnvInv
  <2>2. \A d \in Clients : Present(d) => Present(d)' /\ d # c
    BY <2>1 DEF Present
  <2>3. SocketsPresent'
    BY <1>0, <2>2 DEF SocketInv, SocketsPresent, Present
  <2>4. TimedOutClosed'
    BY <2>1 DEF SocketInv, TimedOutClosed
  <2>5. \A fd \in Fds : sock[fd] # c
    BY <1>0, <2>1, NoneIsNoObject DEF SocketInv, SocketsPresent, Present
  <2>6. Present(c)'
    BY <2>1 DEF Present
  <2>7. WaitingOnce'
    <3> SUFFICES ASSUME NEW s \in Servers, NEW i \in DOMAIN backlog'[s]
                 PROVE  /\ peer'[backlog'[s][i]] \notin {"none", "closed"}
                        /\ \A fd \in Fds : sock'[fd] # backlog'[s][i]
                        /\ \A j \in DOMAIN backlog'[s] : backlog'[s][i] = backlog'[s][j] => i = j
      BY DEF WaitingOnce, Present
    <3>0. \A j \in DOMAIN backlog[s] : /\ backlog[s][j] # c
                                       /\ peer'[backlog[s][j]] \notin {"none", "closed"}
      <4>1. \A j \in DOMAIN backlog[s] : backlog[s][j] \in Clients /\ Present(backlog[s][j])
        BY <1>0 DEF SocketInv, WaitingOnce
      <4>2. \A j \in DOMAIN backlog[s] : backlog[s][j] # c
        BY <2>2, <4>1
      <4>3. \A j \in DOMAIN backlog[s] : peer'[backlog[s][j]] = peer[backlog[s][j]]
        BY <2>1, <4>1, <4>2
      <4>4. QED
        BY <4>1, <4>2, <4>3 DEF Present
    <3>1. \A j \in DOMAIN backlog[s] :
             /\ \A fd \in Fds : sock[fd] # backlog[s][j]
             /\ \A l \in DOMAIN backlog[s] : backlog[s][j] = backlog[s][l] => j = l
      BY DEF SocketInv, WaitingOnce
    <3>2. CASE s # Home[c]
      <4>1. backlog'[s] = backlog[s]
        BY <2>1, <3>2
      <4>2. QED
        BY <1>0, <3>0, <3>1, <4>1
    <3>3. CASE s = Home[c]
      <4>1. /\ backlog'[s] = Append(backlog[s], c)
            /\ \A j \in DOMAIN backlog'[s] :
                  \/ j \in DOMAIN backlog[s] /\ backlog'[s][j] = backlog[s][j]
                  \/ j = Len(backlog[s]) + 1 /\ backlog'[s][j] = c
        <5>1. backlog'[s] = Append(backlog[s], c) /\ backlog[s] \in Seq(Clients)
          BY <1>0, <2>1, <3>3
        <5>2. \A q \in Seq(Clients) : \A j \in DOMAIN Append(q, c) :
                 \/ j \in DOMAIN q /\ Append(q, c)[j] = q[j]
                 \/ j = Len(q) + 1 /\ Append(q, c)[j] = c
          OBVIOUS
        <5>3. QED
          BY <5>1, <5>2
      <4>2. \A fd \in Fds : sock'[fd] = sock[fd]
        BY <1>0
      <4>3. peer'[c] \notin {"none", "closed"} /\ \A fd \in Fds : sock'[fd] # c
        BY <2>1, <2>5, <4>2
      <4>4. peer'[backlog'[s][i]] \notin {"none", "closed"}
        BY <3>0, <4>1, <4>3
      <4>5. \A fd \in Fds : sock'[fd] # backlog'[s][i]
        BY <3>1, <4>1, <4>2, <4>3
      <4>6. \A j \in DOMAIN backlog'[s] : backlog'[s][i] = backlog'[s][j] => i = j
        <5>1. ASSUME NEW j \in DOMAIN backlog'[s], backlog'[s][i] = backlog'[s][j]
              PROVE  i = j
          <6>1. CASE i \in DOMAIN backlog[s] /\ backlog'[s][i] = backlog[s][i]
            BY <3>0, <3>1, <4>1, <5>1, <6>1
          <6>2. CASE i = Len(backlog[s]) + 1 /\ backlog'[s][i] = c
            BY <3>0, <4>1, <5>1, <6>2
          <6>3. QED
            BY <4>1, <6>1, <6>2
        <5>2. QED
          BY <5>1
      <4>7. QED
        BY <4>4, <4>5, <4>6
    <3>4. QED
      BY <3>2, <3>3
  <2>8. QED
    BY <2>1, <2>3, <2>4, <2>7
<1>3. UNCHANGED <<peer, backlog, got>> => Rest1
  BY <1>0 DEF SocketInv, SocketsPresent, WaitingOnce, TimedOutClosed, Present
<1>4. ASSUME NEW c \in Clients, Leave(c) \/ Reset(c)
      PROVE  Rest1
  <2>1. /\ UNCHANGED <<got, backlog>> /\ peer[c] \in {"open", "fin"}
        /\ \A d \in Clients : peer'[d] = peer[d] \/ (d = c /\ peer'[d] \in {"fin", "rst"})
    BY <1>0, <1>4 DEF Leave, Reset
  <2>2. \A d \in Clients : (Present(d) => Present(d)') /\ (peer[d] = "closed" => peer'[d] = "closed")
    BY <2>1 DEF Present
  <2>3. QED
    BY <1>0, <2>1, <2>2 DEF SocketInv, SocketsPresent, WaitingOnce, TimedOutClosed, Present
<1>5. ASSUME NEW o \in Origins, Runs(o)
      PROVE  Rest1
  <2>1. SocketsPresent' /\ WaitingOnce'
    BY <1>0, <1>5 DEF Runs, SocketInv, SocketsPresent, WaitingOnce, Present
  <2> DEFINE c == o[1]
             r == [code |-> 500, of |-> {o}]
  <2>2. \/ UNCHANGED got
        \/ peer[c] # "closed" /\ c \in Clients /\ got' = [got EXCEPT ![c] = Append(@, r)]
    BY <1>5 DEF Runs, Origins
  <2>3. \A d \in Clients : peer[d] = "closed" => got'[d] = got[d]
    BY <1>0, <2>2
  <2>4. \A d \in Clients : \A i \in DOMAIN got'[d] :
           (i \in DOMAIN got[d] /\ got'[d][i] = got[d][i]) \/ got'[d][i].code = 500
    <3>1. \A d \in Clients : got'[d] = got[d] \/ got'[d] = Append(got[d], r)
      BY <1>0, <2>2
    <3>2. \A q \in Seq(Response) : \A i \in DOMAIN Append(q, r) :
             (i \in DOMAIN q /\ Append(q, r)[i] = q[i]) \/ Append(q, r)[i] = r
      OBVIOUS
    <3>3. r.code = 500
      OBVIOUS
    <3> HIDE DEF r
    <3>4. QED
      BY <1>0, <3>1, <3>2, <3>3
  <2>5. TimedOutClosed'
    BY <1>5, <2>4 DEF Runs, SocketInv, TimedOutClosed
  <2>6. QED
    BY <2>1, <2>3, <2>5
<1>6. \A c \in Clients : Sent(c) => UNCHANGED <<peer, backlog, got>>
  BY DEF Sent
<1>7. QED
  BY <1>1, <1>2, <1>3, <1>4, <1>5, <1>6, EnvCases DEF SocketInv

LEMMA SocketsStep ==
    ASSUME IInv, SocketInv, Next
    PROVE  /\ SocketInv'
           /\ \A c \in Clients : peer[c] = "closed" => got'[c] = got[c]
<1>1. IInv'
  BY NextInv
<1>2. Server => SocketInv' /\ \A c \in Clients : peer[c] = "closed" => got'[c] = got[c]
  BY <1>1, SocketsServerStep, QueueCodesStep, TimedOutStep DEF SocketInv
<1>3. QED
  BY <1>2, SocketsEnvStep DEF Next, Environment

LEMMA SocketsInit == Init => SocketInv
<1> SUFFICES ASSUME Init PROVE SocketInv
  OBVIOUS
<1>1. SocketsDistinct /\ SocketsPresent /\ WaitingOnce /\ TimedOutClosed
  BY DEF Init, SocketsDistinct, SocketsPresent, WaitingOnce, TimedOutClosed
<1>2. QueueCodes
  BY DEF Init, QueueCodes, QueueOf, AllOk
<1>3. QED
  BY <1>1, <1>2 DEF SocketInv

LEMMA SocketsStutter == SocketInv /\ UNCHANGED vars => SocketInv'
BY DEF vars, SocketInv, SocketsDistinct, SocketsPresent, WaitingOnce, TimedOutClosed,
       QueueCodes, Present

LEMMA SocketInvariance == Spec => [](IInv /\ SocketInv)
<1>1. Init => IInv /\ SocketInv
  BY InitInv, SocketsInit
<1>2. IInv /\ SocketInv /\ [Next]_vars => (IInv /\ SocketInv)'
  BY NextInv, SocketsStep, SocketsStutter
<1>3. QED
  BY <1>1, <1>2, PTL DEF Spec

\* Nothing is sent to a client after its 408, for any number of servers and clients and
\* whatever is still registered, queued or running for it: the entry, the events and
\* the socket go in the same pass (Servers.cpp:12-22, Server.cpp:32-38).
THEOREM SilenceAfterTimeout == Spec => SilentAfterTimeout
<1> DEFINE Silent == \A c \in Clients :
                        (\E i \in DOMAIN got[c] : got[c][i].code = 408) => got'[c] = got[c]
<1>1. IInv /\ SocketInv /\ [Next]_vars => [Silent]_vars
  <2>1. IInv /\ SocketInv /\ Next => Silent
    BY SocketsStep DEF SocketInv, TimedOutClosed
  <2>2. QED
    BY <2>1
<1>2. SilentAfterTimeout <=> [][Silent]_vars
  BY DEF SilentAfterTimeout
<1> HIDE DEF Silent
<1>3. QED
  BY <1>1, <1>2, SocketInvariance, PTL DEF Spec

-----------------------------------------------------------------------------
(* The event the loop holds. *)

Holding == up = "up" /\ pc = "process" /\ kq.polled # None

\* An event is polled when none is held.
PollFirst == pc = "poll" => kq.polled = None

\* The event still stands for what is registered, whatever the timeouts have closed.
PolledKnown ==
    Holding =>
       LET k == kq.knote[<<Fd, EVFILT_READ>>] IN
       /\ kq.polled.info.type = RESPONSE /\ sock[Fd] # None => Registered(kq, Fd, EVFILT_WRITE)
       /\ kq.polled.info.type = REQUEST /\ sock[Fd] # None => Srv = Home[sock[Fd]]
       /\ kq.polled.info.type = CGI_RESPONSE => k # None /\ k.srv = Srv /\ k.client = CgiTo

LoopInv == PollFirst /\ PolledKnown /\ NeverBlocks

\* What a handler and an exit leave need not be looked at.
LEMMA LoopIdle ==
    ASSUME LoopInv, LetsGo \/ Ends
    PROVE  LoopInv'
<1>1. CASE LetsGo
  BY <1>1 DEF LetsGo, LoopInv, PollFirst, PolledKnown, NeverBlocks, Holding
<1>2. CASE Ends
  <2>1. up' # "up" /\ kq' = kq /\ pc' = pc
    BY <1>2 DEF Ends, Exits
  <2>2. QED
    BY <2>1 DEF LoopInv, PollFirst, PolledKnown, NeverBlocks, Holding
<1>3. QED
  BY <1>1, <1>2

\* What is registered and ready is what its object says.
LEMMA LoopPoll ==
    ASSUME IInv, LoopInv, Poll
    PROVE  LoopInv'
<1>1. /\ pc = "poll" /\ pc' = "process" /\ kq.polled = None
      /\ UNCHANGED <<sock, pipe, peer, backlog, inbuf, proc>>
      /\ kq \in Registry /\ NoDangling(kq) /\ OpenIsWatched
  BY DEF Poll, LoopInv, PollFirst, kernelVars, IInv, RegistryInv, UdataLive
<1>2. CASE UNCHANGED kq
  BY <1>1, <1>2 DEF LoopInv, PollFirst, PolledKnown, NeverBlocks, Holding
<1>3. ASSUME NEW n \in Descriptors \X Filters, Ready(n), kq' = pollEvents(kq, n)
      PROVE  LoopInv'
  <2> DEFINE k == kq.knote[n]
             fd == n[1]
  <2>1. n \in Knotes /\ k # None /\ n = <<n[1], n[2]>>
    BY <1>3 DEF Ready, Registered, Knotes, Filters
  <2>2. /\ kq'.knote = kq.knote
        /\ kq'.polled = [fd |-> fd, info |-> k]
    BY <1>1, <1>3, <2>1, PollEventsSafe
  <2>3. Fd' = fd /\ Srv' = k.srv /\ CgiTo' = k.client /\ kq'.polled.info = k
    BY <2>2 DEF Fd, Srv, CgiTo
  <2>4. k.type = SERVER <=> fd \in Servers
    BY <1>1, <2>1 DEF NoDangling, InfoLive, Knotes
  <2>5. getFilter(k.type) = n[2]
    BY <1>1, <2>1 DEF NoDangling, InfoLive, Knotes
  <2>6. k.type \in {REQUEST, CGI_RESPONSE} => n[2] = EVFILT_READ /\ fd \in Fds
    BY <2>4, <2>5, EventTypes DEF getFilter, Descriptors
  <2>7. k.type = RESPONSE => n[2] = EVFILT_WRITE
    BY <2>5 DEF getFilter
  <2>8. k.type \in {REQUEST, CGI_RESPONSE} => Readable(fd)
    BY <1>3, <2>6, EventTypes, DescriptorsAssumption DEF Ready
  <2>9. k.type = SERVER => backlog[fd] # <<>>
    BY <1>3, <2>4, DescriptorsAssumption DEF Ready
  <2>10. /\ k.type = REQUEST /\ sock[fd] # None => k.srv = Home[sock[fd]]
         /\ k.type = CGI_RESPONSE => pipe[fd] # None
    <3>1. k.type \in {REQUEST, CGI_RESPONSE} => fd \in Fds /\ k = kq.knote[<<fd, EVFILT_READ>>]
      BY <2>1, <2>6
    <3> HIDE DEF k, fd
    <3>2. QED
      BY <1>1, <2>1, <3>1, EventTypes DEF OpenIsWatched
  <2>11. \A f : Readable(f)' <=> Readable(f)
    BY <1>1 DEF Readable
  <2> HIDE DEF k, fd
  <2>12. NeverBlocks'
    BY <1>1, <2>2, <2>8, <2>9, <2>10, <2>11 DEF NeverBlocks
  <2>13. PolledKnown'
    BY <1>1, <2>1, <2>2, <2>3, <2>6, <2>7, <2>10 DEF PolledKnown, Registered, k, fd
  <2>14. QED
    BY <1>1, <2>12, <2>13 DEF LoopInv, PollFirst
<1>4. QED
  BY <1>2, <1>3 DEF Poll

\* A timeout closes a socket under the event that is held, and no other descriptor.
LEMMA LoopTimesOut ==
    ASSUME IInv, SocketInv, LoopInv, NEW s \in Servers, NEW fd \in Fds,
           TimesOut(s, fd), UNCHANGED <<backlog, inbuf, proc>>
    PROVE  LoopInv'
<1> DEFINE q == removeEvent(kq, fd, EVFILT_READ)
<1>0. /\ kq \in Registry /\ NoDangling(kq) /\ fd \in Descriptors /\ sock[fd] # None
      /\ pc = "process" /\ pc' = "process" /\ up = "up"
      /\ sock \in [Fds -> Clients \cup {None}] /\ pipe \in [Fds -> Origins \cup {None}]
  BY DEF IInv, RegistryInv, UdataLive, Descriptors, TimesOut, send
<1>1. q \in Registry /\ NoDangling(q) /\ q.polled = kq.polled
  BY <1>0, EventTypes, RemoveEventSafe, RemoveEventType
<1>2. \A n \in Knotes : n # <<fd, EVFILT_READ>> => SameKnote(kq.knote[n], q.knote[n])
  BY <1>0, EventTypes, RemoveEventType
<1>3. kq' = closeFd(q, fd) /\ Closes(fd)
  BY DEF TimesOut, close, Closes
<1> HIDE DEF q
<1>4. kq'.polled = kq.polled /\ Fd' = Fd /\ Srv' = Srv /\ CgiTo' = CgiTo
  BY <1>0, <1>1, <1>3, CloseFdSafe DEF Fd, Srv, CgiTo
<1>5. \A n \in Knotes : n[1] # fd => SameKnote(kq.knote[n], kq'.knote[n])
  BY <1>0, <1>1, <1>2, <1>3, CloseFdType
<1>6. \A g \in Fds : g # fd => sock'[g] = sock[g] /\ pipe'[g] = pipe[g] /\ (Readable(g) => Readable(g)')
  <2>1. \A g \in Fds : g # fd => sock'[g] = sock[g] /\ pipe'[g] = pipe[g]
    BY <1>0, <1>3 DEF Closes
  <2>2. \A c \in Clients : c # sock[fd] => peer'[c] = peer[c]
    BY <1>3 DEF Closes
  <2>3. \A g \in Fds : g # fd /\ sock[g] # None => sock[g] \in Clients /\ sock[g] # sock[fd]
    BY <1>0 DEF SocketInv, SocketsDistinct
  <2>4. QED
    BY <2>1, <2>2, <2>3 DEF Readable
<1>7. sock'[fd] = None /\ pipe[fd] = None
  BY <1>0, <1>3 DEF Closes, IInv, RegistryInv, OpenIsWatched
<1>8. ASSUME kq.polled # None
      PROVE  PolledKnown' /\ NeverBlocks'
  <2>1. Holding
    BY <1>0, <1>8 DEF Holding
  <2>2. /\ Fd \in Descriptors /\ (kq.polled.info.type # SERVER => Fd \in Fds)
        /\ kq.polled.info.type = SERVER => Fd \in Servers /\ Fd \notin Fds
    BY <1>8, EventFacts, DescriptorsAssumption DEF IInv
  <2>3. CASE Fd = fd
    <3>1. kq.polled.info.type \notin {SERVER, CGI_RESPONSE}
      BY <1>0, <1>7, <2>1, <2>2, <2>3 DEF LoopInv, NeverBlocks, Holding, Fd
    <3>2. QED
      BY <1>4, <1>7, <2>3, <3>1 DEF PolledKnown, NeverBlocks, Fd
  <2>4. CASE Fd # fd
    <3>1. <<Fd, EVFILT_READ>> \in Knotes /\ <<Fd, EVFILT_WRITE>> \in Knotes
      BY <2>2, KnoteNames
    <3>2. /\ SameKnote(kq.knote[<<Fd, EVFILT_READ>>], kq'.knote[<<Fd, EVFILT_READ>>])
          /\ SameKnote(kq.knote[<<Fd, EVFILT_WRITE>>], kq'.knote[<<Fd, EVFILT_WRITE>>])
      BY <1>5, <2>4, <3>1
    <3>3. PolledKnown'
      BY <1>4, <1>6, <2>1, <2>2, <2>4, <3>2, EventTypes
         DEF LoopInv, PolledKnown, SameKnote, Registered
    <3>4. NeverBlocks'
      BY <1>4, <1>6, <2>1, <2>2, <2>4, EventTypes DEF LoopInv, NeverBlocks, Holding, Fd
    <3>5. QED
      BY <3>3, <3>4
  <2>5. QED
    BY <2>3, <2>4
<1>9. QED
  BY <1>0, <1>4, <1>8 DEF LoopInv, PollFirst, PolledKnown, NeverBlocks, Holding

\* What is ready stays ready: nobody but the server takes anything away.
LEMMA LoopEnvStep ==
    ASSUME IInv, LoopInv, Environment
    PROVE  LoopInv'
<1>1. /\ UNCHANGED <<kq, sock, pipe, pc, up>> /\ Fd' = Fd /\ Srv' = Srv /\ CgiTo' = CgiTo
      /\ sock \in [Fds -> Clients \cup {None}] /\ pipe \in [Fds -> Origins \cup {None}]
      /\ peer \in [Clients -> PeerStates] /\ inbuf \in [Clients -> Seq(Segments)]
      /\ backlog \in [Servers -> Seq(Clients)]
  BY EnvCases DEF Fd, Srv, CgiTo, IInv, RegistryInv, EnvInv
<1>2. /\ \A s \in Servers : backlog[s] # <<>> => backlog'[s] # <<>>
      /\ \A c \in Clients : inbuf[c] # <<>> => inbuf'[c] # <<>>
      /\ \A c \in Clients : peer[c] \in {"fin", "rst", "dead"} => peer'[c] \in {"fin", "rst", "dead"}
      /\ \A p \in Origins : /\ proc[p].unread => proc'[p].unread
                            /\ proc[p].st = "exit" => proc'[p].st = "exit"
  <2>0. /\ \A q \in Seq(Clients) : \A x : Append(q, x) # <<>>
        /\ \A q \in Seq(Segments) : \A x : Append(q, x) # <<>>
    OBVIOUS
  <2>1. ASSUME NEW c \in Clients, Connect(c)
        PROVE  /\ UNCHANGED <<inbuf, proc>> /\ peer' = [peer EXCEPT ![c] = "open"] /\ peer[c] = "none"
               /\ \A s \in Servers : backlog[s] # <<>> => backlog'[s] # <<>>
    <3>1. \A s \in Servers : backlog'[s] = IF s = Home[c] THEN Append(backlog[s], c) ELSE backlog[s]
      BY <1>1, <2>1 DEF Connect
    <3>2. QED
      BY <1>1, <2>0, <2>1, <3>1 DEF Connect
  <2>2. ASSUME NEW c \in Clients, Sent(c)
        PROVE  /\ UNCHANGED <<backlog, peer, proc>>
               /\ \A d \in Clients : inbuf[d] # <<>> => inbuf'[d] # <<>>
    <3>1. \E x : inbuf' = [inbuf EXCEPT ![c] = Append(@, x)]
      BY <2>2 DEF Sent, SendRemainder, SendRequest, Arrive
    <3>2. \A d \in Clients : inbuf'[d] = inbuf[d] \/ \E x : inbuf'[d] = Append(inbuf[d], x)
      BY <1>1, <3>1
    <3>3. QED
      BY <1>1, <2>0, <2>2, <3>2 DEF Sent
  <2>3. CASE \E c \in Clients : Leave(c) \/ Reset(c)
    BY <1>1, <2>3 DEF Leave, Reset
  <2>4. CASE \E o \in Origins : Runs(o)
    BY <1>1, <2>4 DEF Runs
  <2>5. QED
    BY <1>1, <2>1, <2>2, <2>3, <2>4, EnvCases
<1>3. \A fd \in Fds : Readable(fd) => Readable(fd)'
  BY <1>1, <1>2 DEF Readable
<1>4. PollFirst' /\ PolledKnown'
  BY <1>1 DEF LoopInv, PollFirst, PolledKnown, Holding, Registered
<1>5. kq.polled # None =>
         /\ kq.polled.info.type # SERVER => kq.polled.fd \in Fds
         /\ kq.polled.info.type = SERVER => kq.polled.fd \in Servers
  BY EventFacts DEF IInv, Fd
<1>6. NeverBlocks'
  BY <1>1, <1>2, <1>3, <1>5, EventTypes DEF LoopInv, NeverBlocks
<1>7. QED
  BY <1>4, <1>6 DEF LoopInv

LEMMA LoopStep == IInv /\ SocketInv /\ LoopInv /\ [Next]_vars => LoopInv'
<1> SUFFICES ASSUME IInv, SocketInv, LoopInv, [Next]_vars PROVE LoopInv'
  OBVIOUS
<1>1. CASE Server
  <2>1. \/ LetsGo \/ Ends \/ Poll
        \/ \E s \in Servers, fd \in Fds : TimesOut(s, fd) /\ UNCHANGED <<backlog, inbuf, proc>>
    BY <1>1, ServerCases
       DEF Passes, Reads, Dispatches, Cuts, Drops, Answers, Collects, Finishes
  <2>2. QED
    BY <2>1, LoopIdle, LoopPoll, LoopTimesOut
<1>2. CASE Environment
  BY <1>2, LoopEnvStep
<1>3. CASE UNCHANGED vars
  BY <1>3 DEF vars, LoopInv, PollFirst, PolledKnown, NeverBlocks, Holding, Readable, Registered,
              Fd, Srv, CgiTo
<1>4. QED
  BY <1>1, <1>2, <1>3 DEF Next, Environment

LEMMA LoopInit == Init => LoopInv
BY DEF Init, LoopInv, PollFirst, PolledKnown, NeverBlocks, Holding, EmptyRegistry

\* recv, read and accept are never called where they would wait, for any number of
\* servers: a timeout between the poll and the handler closes the one descriptor only,
\* and nothing is taken away from another (Webserver.cpp:76-84).
THEOREM NothingBlocks == Spec => []NeverBlocks
<1>1. Init => IInv /\ SocketInv /\ LoopInv
  BY InitInv, SocketsInit, LoopInit
<1>2. IInv /\ SocketInv /\ LoopInv /\ [Next]_vars => (IInv /\ SocketInv /\ LoopInv)'
  BY NextInv, SocketsStep, SocketsStutter, LoopStep
<1>3. LoopInv => NeverBlocks
  BY DEF LoopInv
<1>4. QED
  BY <1>1, <1>2, <1>3, PTL DEF Spec

-----------------------------------------------------------------------------
(* connections_ and the sockets. *)

\* An accepted socket has an entry with its own server, however many servers there are:
\* whatever erases an entry closes its descriptor in the same step.
SocketHasEntry == \A fd \in Fds : sock[fd] # None => conn[Home[sock[fd]]][fd] # None

LEMMA EntryServerStep ==
    ASSUME IInv, SocketHasEntry, Server
    PROVE  SocketHasEntry'
<1>1. /\ sock \in [Fds -> Clients \cup {None}] /\ Home \in [Clients -> Servers]
      /\ conn \in Tables
  BY WebserverAssumption DEF IInv, RegistryInv, TableInv
<1>2. UNCHANGED sock /\ SameTable(conn, conn') => SocketHasEntry'
  BY <1>1 DEF SocketHasEntry, SameTable, SameEntry
<1>3. \A s, fd, b, q, o : UNCHANGED sock /\ Becomes(s, fd, b, q, o) => SocketHasEntry'
  BY <1>1 DEF SocketHasEntry, Becomes, SameTableBut, SameEntry
<1>4. ASSUME NEW fd, Closes(fd), NEW s, SameTableBut(conn, conn', s, fd)
      PROVE  SocketHasEntry'
  BY <1>1, <1>4 DEF SocketHasEntry, Closes, SameTableBut, SameEntry
<1>5. ASSUME NEW fd, Closes(fd), SameTable(conn, conn')
      PROVE  SocketHasEntry'
  BY <1>1, <1>5 DEF SocketHasEntry, Closes, SameTable, SameEntry
<1>6. ASSUME NEW s \in Servers, NEW fd \in Fds, TimesOut(s, fd)
      PROVE  SocketHasEntry'
  <2>1. Closes(fd) /\ SameTableBut(conn, conn', s, fd)
    BY <1>1, <1>6, PutEntry DEF TimesOut, close, Closes, Entries
  <2>2. QED
    BY <1>4, <2>1
<1>7. ASSUME NEW fd \in Fds, Event(SERVER), Accepts(Fd, fd)
      PROVE  SocketHasEntry'
  <2>1. Fd \in Servers
    BY <1>7, EventFacts DEF Event, IInv
  <2>2. Head(backlog[Fd]) \in Clients /\ Home[Head(backlog[Fd])] = Fd
    <3>1. backlog[Fd] \in Seq(Clients) /\ backlog[Fd] # <<>> /\ BacklogHome
      BY <1>7, <2>1 DEF IInv, EnvInv, Accepts
    <3>2. 1 \in DOMAIN backlog[Fd] /\ Head(backlog[Fd]) = backlog[Fd][1]
      BY <3>1
    <3>3. QED
      BY <2>1, <3>1, <3>2 DEF BacklogHome
  <2>3. conn'[Fd][fd] # None /\ SameTableBut(conn, conn', Fd, fd)
    BY <1>1, <1>7, <2>1, FreshEntry, PutEntry DEF Accepts, Entries
  <2>4. \A g \in Fds : sock'[g] = IF g = fd THEN Head(backlog[Fd]) ELSE sock[g]
    BY <1>1, <1>7 DEF Accepts
  <2>5. QED
    BY <1>1, <2>1, <2>2, <2>3, <2>4 DEF SocketHasEntry, SameTableBut, SameEntry
<1>8. \A fd, r : Sends(fd, r) => UNCHANGED sock
  BY DEF Sends, kernelVars
<1>9. Passes \/ (\E k \in Nat : Reads(k) \/ Dispatches(k)) \/ Answers \/ Collects => SocketHasEntry'
  BY <1>2, <1>3, <1>8
     DEF Passes, Reads, Dispatches, Cuts, Refuses, Opens, Answers, Collects, kernelVars
<1>10. \A s, fd : Drops(s, fd) => SocketHasEntry'
  BY <1>4 DEF Drops, Removed
<1>11. ASSUME Finishes
       PROVE  SocketHasEntry'
  <2>1. SocketHasEntry' \/ Closes(Fd)
    BY <1>2, <1>3, <1>11 DEF Finishes, Ends, kernelVars
  <2>2. ASSUME Closes(Fd), NEW s, NEW fd, NEW b, NEW q, NEW o, Becomes(s, fd, b, q, o)
        PROVE  SocketHasEntry'
    BY <1>1, <2>2 DEF SocketHasEntry, Closes, Becomes, SameTableBut, SameEntry
  <2>3. QED
    BY <1>5, <1>11, <2>1, <2>2 DEF Finishes
<1>12. Ends /\ UNCHANGED conn => SocketHasEntry'
  BY DEF Ends, SocketHasEntry, kernelVars
<1>13. QED
  BY <1>6, <1>7, <1>9, <1>10, <1>11, <1>12, ServerCases

LEMMA EntryStep == IInv /\ SocketHasEntry /\ [Next]_vars => SocketHasEntry'
<1> SUFFICES ASSUME IInv, SocketHasEntry, [Next]_vars PROVE SocketHasEntry'
  OBVIOUS
<1>1. CASE Environment
  <2>1. /\ UNCHANGED sock /\ SameTable(conn, conn')
        /\ \A fd \in Fds : sock[fd] # None => sock[fd] \in Clients /\ Home[sock[fd]] \in Servers
    BY <1>1, EnvCases, WebserverAssumption DEF IInv, RegistryInv
  <2>2. QED
    BY <2>1 DEF SocketHasEntry, SameTable, SameEntry
<1>2. CASE UNCHANGED vars
  BY <1>2 DEF vars, SocketHasEntry
<1>3. QED
  BY <1>1, <1>2, EntryServerStep DEF Next, Environment

\* No accepted socket is without its Connection, for any number of servers
\* (Server.cpp:146-150, Connections.cpp:39-44).
THEOREM SocketsHaveEntries == Spec => []SocketHasEntry
<1>1. Init => IInv /\ SocketHasEntry
  BY InitInv DEF Init, SocketHasEntry
<1>2. IInv /\ SocketHasEntry /\ [Next]_vars => (IInv /\ SocketHasEntry)'
  BY NextInv, EntryStep
<1>3. QED
  BY <1>1, <1>2, PTL DEF Spec

(* With one server an entry also has its socket. With several it need not: a stale      *)
(* CGI_RESPONSE event can register the write event of another server's client, and when *)
(* the 500 that follows fails, the socket goes and the entry stays.                     *)

OneServer == \E s : Servers = {s}

LEMMA FollowsServerStep ==
    ASSUME OneServer, IInv, LoopInv, ConnIffSocket, Server
    PROVE  ConnIffSocket'
<1>1. PICK s : Servers = {s}
  BY DEF OneServer
<1>2. /\ sock \in [Fds -> Clients \cup {None}] /\ \A c \in Clients : Home[c] = s
      /\ conn \in Tables /\ s \in Servers
  BY <1>1, WebserverAssumption DEF IInv, RegistryInv, TableInv
<1>3. \A fd \in Fds : conn[s][fd] # None <=> sock[fd] # None
  BY <1>1, <1>2 DEF ConnIffSocket
<1>4. SUFFICES \A fd \in Fds : conn'[s][fd] # None <=> sock'[fd] # None
  <2>1. Server => IInv'
    BY ServerStep
  <2>2. sock' \in [Fds -> Clients \cup {None}]
    BY <2>1 DEF IInv, RegistryInv
  <2>3. QED
    BY <1>1, <1>2, <2>2 DEF ConnIffSocket
<1> DEFINE Follows == \A fd \in Fds : conn'[s][fd] # None <=> sock'[fd] # None
<1>5. UNCHANGED sock /\ SameTable(conn, conn') => Follows
  BY <1>2, <1>3 DEF SameTable, SameEntry
<1>6. ASSUME UNCHANGED sock, NEW fd \in Fds, sock[fd] # None,
             NEW b, NEW q, NEW o, Becomes(s, fd, b, q, o)
      PROVE  Follows
  BY <1>2, <1>3, <1>6 DEF Becomes, SameTableBut, SameEntry
<1>7. ASSUME NEW fd \in Fds, Closes(fd), Removed(s, fd)
      PROVE  Follows
  BY <1>2, <1>3, <1>7 DEF Closes, Removed, SameTableBut, SameEntry
<1>8. ASSUME NEW t \in Servers, NEW fd \in Fds, TimesOut(t, fd)
      PROVE  Follows
  <2>1. t = s /\ Closes(fd) /\ Removed(s, fd)
    BY <1>1, <1>2, <1>8, PutEntry DEF TimesOut, close, Closes, Entries, Removed
  <2>2. QED
    BY <1>7, <2>1
<1>9. ASSUME NEW fd \in Fds, Event(SERVER), Accepts(Fd, fd)
      PROVE  Follows
  <2>1. Fd = s
    BY <1>1, <1>9, EventFacts DEF Event, IInv
  <2>2. Head(backlog[Fd]) # None
    BY <1>2, <1>9, <2>1, NoneIsNoObject DEF IInv, EnvInv, Accepts
  <2>3. conn'[s][fd] # None /\ SameTableBut(conn, conn', s, fd)
    BY <1>2, <1>9, <2>1, FreshEntry, PutEntry DEF Accepts, Entries
  <2>4. \A g \in Fds : sock'[g] = IF g = fd THEN Head(backlog[Fd]) ELSE sock[g]
    BY <1>2, <1>9 DEF Accepts
  <2>5. QED
    BY <1>2, <1>3, <2>2, <2>3, <2>4 DEF SameTableBut, SameEntry
<1>10. \A fd, r : Sends(fd, r) => UNCHANGED sock
  BY DEF Sends, kernelVars
<1>11. kq.polled # None => Srv = s /\ (kq.polled.info.type # SERVER => Fd \in Fds)
                         /\ (kq.polled.info.type = CGI_RESPONSE => CgiTo \in Fds)
  BY <1>1, EventFacts DEF IInv
<1>12. Passes => Follows
  BY <1>5 DEF Passes
<1>13. ASSUME NEW k \in Nat, Reads(k) \/ Dispatches(k)
       PROVE  Follows
  <2>1. recv(k)
    BY <1>13 DEF Reads, Dispatches, Cuts
  <2>2. Srv = s /\ Fd \in Fds /\ sock[Fd] # None
    BY <1>11, <2>1, RecvEntry, EventTypes
  <2>3. UNCHANGED sock /\ \E b, q, o : Becomes(s, Fd, b, q, o)
    BY <1>10, <1>13, <2>2 DEF Reads, Dispatches, Cuts, Refuses, Opens, kernelVars
  <2>4. QED
    BY <1>6, <2>2, <2>3
<1>14. Answers => Follows
  BY <1>3, <1>6, <1>10, <1>11, EventTypes DEF Answers, Event, HasResponse
<1>15. Collects => Follows
  BY <1>3, <1>5, <1>6, <1>11, EventTypes DEF Collects, Event, Owner, kernelVars
<1>16. \A type : Event(type) /\ type # SERVER /\ Drops(Srv, Fd) => Follows
  BY <1>7, <1>11 DEF Drops, Event
<1>17. ASSUME Finishes
       PROVE  Follows
  <2>1. /\ kq.polled # None /\ kq.polled.info.type = CGI_RESPONSE /\ up = "up" /\ pc = "process"
    BY <1>17 DEF Finishes, Event
  <2>2. Fd \in Fds /\ CgiTo \in Fds /\ Srv = s /\ sock[Fd] = None
    <3>1. pipe[Fd] # None
      BY <2>1 DEF LoopInv, NeverBlocks, Fd
    <3>2. QED
      BY <1>11, <2>1, <3>1, EventTypes DEF IInv, RegistryInv, OpenIsWatched
  <2>3. UNCHANGED sock
    BY <1>2, <1>17, <2>2 DEF Finishes, Closes, Ends, kernelVars
  <2>4. QED
    BY <1>3, <1>5, <1>6, <1>17, <2>2, <2>3 DEF Finishes, Owner
<1>18. Ends /\ UNCHANGED conn => Follows
  BY <1>3 DEF Ends, kernelVars
<1> HIDE DEF Follows
<1>19. Follows
  BY <1>8, <1>9, <1>12, <1>13, <1>14, <1>15, <1>16, <1>17, <1>18, ServerCases, EventTypes
<1>20. QED
  BY <1>19 DEF Follows

-----------------------------------------------------------------------------
(* What ends the process. *)

Broken == \E c \in Clients : peer[c] \in {"rst", "dead"}

\* A send that fails, and a send that is answered with SIGPIPE.
LEMMA SendFails ==
    ASSUME IInv, NEW fd \in Fds
    PROVE  /\ "SIGPIPE" \in send(fd) => Broken
           /\ "fail" \in send(fd) /\ sock[fd] # None => Broken
BY DEF send, Broken, IInv, RegistryInv

LEMMA ExitCause ==
    ASSUME IInv, NEW r, Exit(r), r \in {"removeEvent", "SIGPIPE"}, Broken
    PROVE  EndsOnlyFor'
BY DEF Exit, serverVars, EndsOnlyFor, Broken

LEMMA GoesOn ==
    ASSUME up' = "up"
    PROVE  EndsOnlyFor'
BY DEF EndsOnlyFor

LEMMA HandleErrorCause ==
    ASSUME IInv, up = "up", NEW cn, NEW s, NEW fd \in Fds, NEW r, handleError(cn, s, fd, r)
    PROVE  EndsOnlyFor'
<1>1. up' = up \/ ("SIGPIPE" \in send(fd) /\ Exit("SIGPIPE"))
  BY DEF handleError
<1>2. QED
  BY <1>1, GoesOn, ExitCause, SendFails

\* No descriptor is left, or the client that was to be accepted has gone.
LEMMA AcceptCause ==
    ASSUME IInv, ConnIffSocket, connectClient
    PROVE  EndsOnlyFor'
<1>1. /\ up = "up" /\ Srv \in Servers /\ Srv = Fd /\ backlog[Srv] # <<>>
      /\ backlog \in [Servers -> Seq(Clients)]
  BY EventFacts DEF connectClient, Event, IInv, EnvInv, AcceptWaits, Fd
<1>2. CASE up' = up
  BY <1>1, <1>2, GoesOn
<1>3. ASSUME NEW fd \in Fds, Nth(fd, 0), conn[Srv][fd] # None
      PROVE  FALSE
  BY <1>1, <1>3 DEF Nth, Free, ConnIffSocket
<1>4. CASE (Free = {} \/ peer[Head(backlog[Srv])] = "rst") /\ Exit("accept")
  <2>1. UNCHANGED <<sock, pipe, peer>> /\ up' = "accept" /\ Free' = Free
    BY <1>4 DEF Exit, serverVars, Free
  <2>2. CASE Free = {}
    BY <2>1, <2>2, FS_EmptySet DEF EndsOnlyFor
  <2>3. CASE peer[Head(backlog[Srv])] = "rst"
    <3>1. Head(backlog[Srv]) \in Clients
      BY <1>1
    <3>2. QED
      BY <2>1, <2>3, <3>1 DEF EndsOnlyFor
  <2>4. QED
    BY <1>4, <2>2, <2>3
<1>5. QED
  BY <1>2, <1>3, <1>4 DEF connectClient

LEMMA PipeCause ==
    ASSUME IInv, NEW k, RequestCgi(k)
    PROVE  EndsOnlyFor'
<1>1. up = "up"
  BY DEF RequestCgi, Takes, recv, Event
<1>2. up' = up \/ (Cardinality(Free) < 4 /\ Exit("pipe"))
  BY DEF RequestCgi
<1>3. Exit("pipe") => Free' = Free /\ up' = "pipe"
  BY DEF Exit, serverVars, Free
<1>4. CASE up' = up
  BY <1>1, <1>4, GoesOn
<1>5. CASE Cardinality(Free) < 4 /\ Exit("pipe")
  BY <1>3, <1>5 DEF EndsOnlyFor
<1>6. QED
  BY <1>2, <1>4, <1>5

\* A timed-out connection still has its socket and its event.
LEMMA TimeoutCause ==
    ASSUME IInv, ConnIffSocket, NEW s \in Servers, NEW fd \in Fds, validateLastActiveTime(s, fd)
    PROVE  EndsOnlyFor'
<1>1. up = "up" /\ sock[fd] # None
  BY DEF validateLastActiveTime, isTimeout, ConnIffSocket
<1>2. Registered(kq, fd, EVFILT_READ)
  BY <1>1 DEF Registered, IInv, RegistryInv, OpenIsWatched
<1>3. \/ up' = up
      \/ "fail" \in send(fd) /\ Exit("removeEvent")
      \/ "SIGPIPE" \in send(fd) /\ Exit("SIGPIPE")
  BY <1>2 DEF validateLastActiveTime
<1>4. QED
  BY <1>1, <1>3, GoesOn, ExitCause, SendFails

\* A response is sent on the socket it was queued for, whose event is still there.
LEMMA SendCause ==
    ASSUME IInv, LoopInv, ConnIffSocket, SendResponse
    PROVE  EndsOnlyFor'
<1>1. up = "up" /\ Fd \in Fds /\ Srv \in Servers
  BY EventFacts, EventTypes DEF SendResponse, Event, IInv
<1>2. sock[Fd] # None
  BY <1>1 DEF SendResponse, HasResponse, ConnIffSocket
<1>3. Registered(kq, Fd, EVFILT_WRITE)
  BY <1>2 DEF SendResponse, Event, LoopInv, PolledKnown, Holding
<1>4. \/ up' = up
      \/ "fail" \in send(Fd) /\ Exit("removeEvent")
      \/ "SIGPIPE" \in send(Fd) /\ Exit("SIGPIPE")
  BY <1>3 DEF SendResponse
<1>5. QED
  BY <1>1, <1>2, <1>4, GoesOn, ExitCause, SendFails

\* The pipe whose end was read still has its event.
LEMMA CgiEofCause ==
    ASSUME IInv, LoopInv, CgiEof
    PROVE  EndsOnlyFor'
<1>1. up = "up" /\ pc = "process" /\ kq.polled # None /\ kq.polled.info.type = CGI_RESPONSE
  BY DEF CgiEof, Event
<1>2. Fd \in Fds /\ pipe[Fd] # None
  BY <1>1, EventFacts, EventTypes DEF IInv, LoopInv, NeverBlocks, Fd
<1>3. kq.knote[<<Fd, EVFILT_READ>>] # None
  BY <1>2 DEF IInv, RegistryInv, OpenIsWatched
<1>4. up' = up
  BY <1>3, CgiEofCase DEF Finishes, LetsGo, Ends
<1>5. QED
  BY <1>1, <1>4, GoesOn

LEMMA CauseStep ==
    ASSUME IInv, LoopInv, ConnIffSocket, EndsOnlyFor, Next
    PROVE  EndsOnlyFor'
<1>1. ASSUME NEW k, RequestTooLarge(k) \/ RequestRejected(k)
      PROVE  EndsOnlyFor'
  <2>1. Fd \in Fds /\ up = "up"
    BY <1>1, RecvEntry DEF RequestTooLarge, RequestRejected, Takes
  <2>2. \E cn, s, r : handleError(cn, s, Fd, r)
    BY <1>1 DEF RequestTooLarge, RequestRejected
  <2>3. QED
    BY <2>1, <2>2, HandleErrorCause
<1>2. ASSUME NoResponse
      PROVE  EndsOnlyFor'
  <2>1. Fd \in Fds /\ up = "up"
    BY <1>2, EventFacts, EventTypes DEF NoResponse, Event, IInv
  <2>2. \E cn, s, r : handleError(cn, s, Fd, r)
    BY <1>2 DEF NoResponse
  <2>3. QED
    BY <2>1, <2>2, HandleErrorCause
<1>3. ASSUME \/ Poll \/ Idle \/ RequestEof \/ RequestError \/ CgiData
             \/ \E k \in Nat : RequestIncomplete(k) \/ RequestStatic(k)
      PROVE  EndsOnlyFor'
  <2>1. up' = "up"
    BY <1>3 DEF Poll, Idle, RequestEof, RequestError, CgiData, RequestIncomplete, RequestStatic,
                Takes, recv, Event
  <2>2. QED
    BY <2>1, GoesOn
<1>4. Environment => EndsOnlyFor'
  BY EnvCases, GoesOn
<1>5. \A k \in 1..(2 * MaxReq) : k \in Nat
  BY WebserverAssumption
<1>6. QED
  BY <1>1, <1>2, <1>3, <1>4, <1>5, AcceptCause, PipeCause, TimeoutCause, SendCause, CgiEofCause
     DEF Next, Server, Environment

(* With one server. *)

OneServerInv == IInv /\ SocketInv /\ LoopInv /\ ConnIffSocket /\ EndsOnlyFor

LEMMA OneServerStep ==
    ASSUME OneServer, OneServerInv, [Next]_vars
    PROVE  OneServerInv'
<1>1. (IInv /\ SocketInv /\ LoopInv)'
  BY NextInv, SocketsStep, SocketsStutter, LoopStep DEF OneServerInv
<1>2. CASE Next
  <2>1. EndsOnlyFor'
    BY <1>2, CauseStep DEF OneServerInv
  <2>2. Server => ConnIffSocket'
    BY FollowsServerStep DEF OneServerInv
  <2>3. Environment => ConnIffSocket'
    BY EnvCases DEF OneServerInv, ConnIffSocket, SameTable, SameEntry
  <2>4. QED
    BY <1>1, <1>2, <2>1, <2>2, <2>3 DEF OneServerInv, Next, Environment
<1>3. CASE UNCHANGED vars
  BY <1>1, <1>3 DEF vars, OneServerInv, ConnIffSocket, EndsOnlyFor, Free
<1>4. QED
  BY <1>2, <1>3

LEMMA OneServerInit ==
    ASSUME Init
    PROVE  OneServerInv
<1>1. ConnIffSocket /\ EndsOnlyFor
  BY DEF Init, ConnIffSocket, EndsOnlyFor
<1>2. QED
  BY <1>1, InitInv, SocketsInit, LoopInit DEF OneServerInv

\* With one server, connections_ has an entry for every accepted socket and no other:
\* close() and removeConnection always go together, in every order of requests, refusals,
\* timeouts, resets and CGI ends (Server.cpp:146-150, Servers.cpp:14-19).
THEOREM EntriesFollowSockets == OneServer => (Spec => []ConnIffSocket)
<1> SUFFICES ASSUME OneServer PROVE Spec => []ConnIffSocket
  OBVIOUS
<1>1. Init => OneServerInv
  BY OneServerInit
<1>2. OneServerInv /\ [Next]_vars => OneServerInv'
  BY OneServerStep
<1>3. OneServerInv => ConnIffSocket
  BY DEF OneServerInv
<1>4. QED
  BY <1>1, <1>2, <1>3, PTL DEF Spec

\* With one server, nothing ends the process but a client's reset or the want of
\* descriptors: addConnection never finds an entry, and removeEvent always its event
\* (Connections.cpp:41, Kqueue.cpp:96).
THEOREM EndsOnlyForACause == OneServer => (Spec => []EndsOnlyFor)
<1> SUFFICES ASSUME OneServer PROVE Spec => []EndsOnlyFor
  OBVIOUS
<1>1. Init => OneServerInv
  BY OneServerInit
<1>2. OneServerInv /\ [Next]_vars => OneServerInv'
  BY OneServerStep
<1>3. OneServerInv => EndsOnlyFor
  BY DEF OneServerInv
<1>4. QED
  BY <1>1, <1>2, <1>3, PTL DEF Spec
=============================================================================
